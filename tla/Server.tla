------------------------------- MODULE Server -------------------------------
(***************************************************************************)
(* The service as net/http runs it: a goroutine per request, the router of *)
(* gorilla/mux, which leaves what it found in the path in a global map of  *)
(* gorilla/context, and the three handlers.  The map is keyed by pointers  *)
(* to requests; a pointer comes back with a later request once nothing     *)
(* refers to it any more.                                                  *)
(*                                                                         *)
(* Resizer has the steps of the handler resizing; here it is known by the  *)
(* names it takes from the path, by its effects on the counters and on the *)
(* cache directory, and by how it ends.                                    *)
(***************************************************************************)
EXTENDS HealthCheck

CONSTANTS
  Pointers,      (* the memory there is for requests                       *)
  Paths,         (* in the URLs of requests                                *)
  Methods,
  RefusedSizes,  (* what CheckRequestNewSize refuses                       *)
  OriginalKey, ThumbnailKey, (* the keys of the one picture                *)
  NoPointer

ASSUME ServerAssumption ==
  /\ NoPointer \notin Pointers
  /\ {OriginalKey, ThumbnailKey} \subseteq Keys
  /\ Paths \subseteq Seq(Seq(STRING))

VARIABLES
  req,          (* the request each goroutine serves, and how far it is    *)
  data, datat,  (* of gorilla/context: what is stored, and who has a time  *)
  answer        (* the last answer each goroutine has given                *)

serverVars == <<req, data, datat, answer>>
allVars == <<vars, serverVars>>

Places == {"idle", "serve", "vars", "route", "handler", "tasks", "clear"}
Answers == {"none", "redirect", "not found", "bad request", "panic", "error", "image", "ok"}
NoRequest == [at |-> "idle", pointer |-> NoPointer, method |-> "GET", path |-> Root]
NoAnswer == [kind |-> "none", path |-> Root, id |-> Empty, ext |-> "none"]
NoContext == [vars |-> NoVars, route |-> "none"]

ServerTypeOK ==
  /\ TypeOK
  /\ \A p \in Procs :
       /\ req[p].at \in Places /\ req[p].pointer \in Pointers \cup {NoPointer}
       /\ answer[p].kind \in Answers
  /\ DOMAIN data \subseteq Pointers /\ datat \subseteq Pointers

ServerInit ==
  /\ Init
  /\ req = [p \in Procs |-> NoRequest]
  /\ data = << >> /\ datat = {}
  /\ answer = [p \in Procs |-> NoAnswer]

-----------------------------------------------------------------------------
(* gorilla/context, whose functions are atomic by its mutex.               *)
Stored(r) == IF r \in DOMAIN data THEN data[r] ELSE NoContext

SetContext(r, field, value) ==
  /\ data' = [s \in DOMAIN data \cup {r} |->
                IF s = r THEN [Stored(r) EXCEPT ![field] = value] ELSE data[s]]
  /\ datat' = IF r \in DOMAIN data THEN datat ELSE datat \cup {r}

(* Mutant of ClearContext: the time of the request stays.                  *)
ClearContextOnly(r) ==
  /\ data' = [s \in DOMAIN data \ {r} |-> data[s]]
  /\ UNCHANGED datat

ClearContext(r) ==
  /\ data' = [s \in DOMAIN data \ {r} |-> data[s]]
  /\ datat' = datat \ {r}

-----------------------------------------------------------------------------
InUse == {req[p].pointer : p \in Procs} \cup DOMAIN data \cup datat

ToPlace(p, place) == req' = [req EXCEPT ![p].at = place]

(* What the handler has answered, on its way to the deferred Clear.        *)
AnswerAs(p, kind) ==
  /\ answer' = [answer EXCEPT ![p] = [kind |-> kind, path |-> req[p].path,
                                      id |-> Empty, ext |-> "none"]]
  /\ ToPlace(p, "clear")

Receive(p, r, method, path) ==
  /\ req[p].at = "idle" /\ Idle(p)
  /\ r \notin InUse
  /\ req' = [req EXCEPT ![p] = [at |-> "serve", pointer |-> r, method |-> method, path |-> path]]
  /\ UNCHANGED <<treeVars, healthVars, data, datat, answer>>

(* A path that is not canonical is answered by a redirect to the one that  *)
(* is; nothing has been stored, and nothing is cleared.                    *)
Redirect(p) ==
  /\ req[p].at = "serve" /\ cleanPath(req[p].path) # req[p].path
  /\ answer' = [answer EXCEPT ![p] = [kind |-> "redirect", path |-> cleanPath(req[p].path),
                                      id |-> Empty, ext |-> "none"]]
  /\ req' = [req EXCEPT ![p] = NoRequest]
  /\ UNCHANGED <<treeVars, healthVars, data, datat>>

Routed(p) == Route(req[p].method, req[p].path)

Match(p) ==
  /\ req[p].at = "serve" /\ cleanPath(req[p].path) = req[p].path
  /\ IF Routed(p) = "none" THEN AnswerAs(p, "not found")
                           ELSE ToPlace(p, "vars") /\ UNCHANGED answer
  /\ UNCHANGED <<treeVars, healthVars, data, datat>>

SetVars(p) ==
  /\ req[p].at = "vars"
  /\ SetContext(req[p].pointer, "vars", Vars(req[p].method, req[p].path))
  /\ ToPlace(p, "route")
  /\ UNCHANGED <<treeVars, healthVars, answer>>

SetCurrentRoute(p) ==
  /\ req[p].at = "route"
  /\ SetContext(req[p].pointer, "route", Routed(p))
  /\ ToPlace(p, "handler")
  /\ UNCHANGED <<treeVars, healthVars, answer>>

-----------------------------------------------------------------------------
(* What a request for a picture does to the caches, by its outcome: see    *)
(* Resizer.  Complete files have one byte.                                 *)
Then(first, second) == UNION {{a \o b : b \in second} : a \in first}

Undo == Then(Delete(OriginalKey), Delete(ThumbnailKey))
StoreThumbnail == {<< >>} \cup Set(ThumbnailKey, 1)
StoreBoth == Then(StoreThumbnail, Set(OriginalKey, 1))
FromOriginal == Get(OriginalKey) \cup Then(Hit, StoreThumbnail)
Resizings == {<< >>} \cup Get(ThumbnailKey) \cup Undo \cup StoreBoth \cup FromOriginal

(* The handler resizing up to the caches: whatever is in its variables.    *)
Refuses(vars_) == vars_.size \in RefusedSizes \/ NoId(vars_.path)

Resizing(p) ==
  LET vars_ == Stored(req[p].pointer).vars IN
  /\ req[p].at = "handler" /\ Routed(p) = "resizing"
  /\ \/ ParseFails(vars_.path) /\ AnswerAs(p, "panic") /\ UNCHANGED healthVars
     \/ /\ ~ParseFails(vars_.path) /\ Refuses(vars_)
        /\ AnswerAs(p, "bad request") /\ UNCHANGED healthVars
     \/ /\ ~ParseFails(vars_.path) /\ ~Refuses(vars_)
        /\ \E tasks \in Resizings : todo' = [todo EXCEPT ![p] = tasks]
        /\ ToPlace(p, "tasks")
        /\ answer' = [answer EXCEPT ![p] =
                        [kind |-> "none", path |-> req[p].path,
                         id |-> ExtractIdFromUrl(vars_.path), ext |-> GetExtension(vars_.path)]]
        /\ UNCHANGED <<stats, register, walk, reported, counted>>
  /\ UNCHANGED <<treeVars, data, datat>>

OtherHandler(p) ==
  /\ req[p].at = "handler"
  /\ \/ Routed(p) = "healthCheck" /\ Begin(p, <<DirSize>>)
     \/ Routed(p) = "purgeCache" /\ \E tasks \in DeleteAll : Begin(p, tasks)
  /\ ToPlace(p, "tasks")
  /\ UNCHANGED <<data, datat, answer>>

(* The handler has done what it had to do.  A picture whose extension the  *)
(* handler does not know is a nil image.                                   *)
Ends(p) ==
  CASE Routed(p) = "healthCheck" -> {IF reported[p].kind = "panic" THEN "panic" ELSE "ok"}
    [] Routed(p) = "purgeCache" -> {"ok"}
    [] Routed(p) = "resizing" /\ answer[p].ext \in {"png", "jpg"} ->
         {"image", "bad request", "not found", "panic"}
    [] OTHER -> {"bad request", "not found", "panic"}

Answer(p) ==
  /\ req[p].at = "tasks" /\ Idle(p)
  /\ \E kind \in Ends(p) : answer' = [answer EXCEPT ![p].kind = kind, ![p].path = req[p].path]
  /\ ToPlace(p, "clear")
  /\ UNCHANGED <<treeVars, healthVars, data, datat>>

(* The deferred Clear, which a panic runs as well; the goroutine ends.     *)
Clear(p) ==
  /\ req[p].at = "clear"
  /\ ClearContext(req[p].pointer)
  /\ req' = [req EXCEPT ![p] = NoRequest]
  /\ answer' = [answer EXCEPT ![p] = NoAnswer]
  /\ reported' = [reported EXCEPT ![p] = NoReport]
  /\ UNCHANGED <<treeVars, todo, stats, register, walk, counted>>

-----------------------------------------------------------------------------
Serve(p) ==
  \/ Redirect(p) \/ Match(p) \/ SetVars(p) \/ SetCurrentRoute(p)
  \/ Resizing(p) \/ OtherHandler(p) \/ Answer(p) \/ Clear(p)

Work(p) ==
  /\ \/ Serve(p)
     \/ Task(p) /\ UNCHANGED serverVars
  /\ Observe

Arrive(p) ==
  /\ \E r \in Pointers, method \in Methods, path \in Paths : Receive(p, r, method, path)
  /\ Observe

ServerNext == \E p \in Procs : Arrive(p) \/ Work(p)

ServerSpec == ServerInit /\ [][ServerNext]_allVars

(* The scheduler runs each goroutine that can go on.                       *)
Fairness == \A p \in Procs : WF_allVars(Work(p))

-----------------------------------------------------------------------------
(***************************************************************************)
(* The global map has an entry for a request, and a time for it, from the  *)
(* routing to the end of the handler and no longer, however the handler    *)
(* ends; and what a handler finds there is what the router found in the    *)
(* path of its own request, although pointers come back with others.       *)
(***************************************************************************)
ContextFollowsRequests ==
  /\ DOMAIN data = datat
  /\ \A r \in datat : \E p \in Procs : req[p].pointer = r
  /\ \A p \in Procs : req[p].at \in {"handler", "tasks"} =>
       Stored(req[p].pointer) = [vars |-> Vars(req[p].method, req[p].path), route |-> Routed(p)]

(***************************************************************************)
(* A redirect leads to a path that is canonical, by a definition of its    *)
(* own: a client that follows it is not redirected again, let alone for    *)
(* ever (mux.go 75-88, 347-361).                                           *)
(***************************************************************************)
Canonical(path) ==
  /\ Len(path) >= 2 /\ path[1] = Empty
  /\ \A i \in DOMAIN path : path[i] \notin {Dot, DotDot}
  /\ \A i \in 2 .. Len(path) - 1 : path[i] # Empty

RedirectsOnce == \A p \in Procs : answer[p].kind = "redirect" => Canonical(answer[p].path)

(***************************************************************************)
(* Where a picture's path has one dot, before an extension, the id taken   *)
(* from its end and the extension taken from its beginning make up its     *)
(* file name: neither "." nor ".." nor the directories get in the way.     *)
(***************************************************************************)
OneDot(path) ==
  LET name == path[Len(path)] IN
  Dotted(path) = {Len(path)} /\ Len(name) = 2 /\ name[2] # ""

NamesAgree ==
  \A p \in Procs :
    LET path == Vars("GET", answer[p].path).path IN
    answer[p].ext # "none" /\ OneDot(path) =>
      Append(answer[p].id, answer[p].ext) = path[Len(path)]

(***************************************************************************)
(* Every request is answered, by a panic if need be, and its goroutine     *)
(* comes to its end: no operation keeps the mutex of the store, no walk    *)
(* and no removal goes on for ever.                                        *)
(***************************************************************************)
EveryRequestEnds == \A p \in Procs : (req[p].at # "idle") ~> (req[p].at = "idle")
=============================================================================
