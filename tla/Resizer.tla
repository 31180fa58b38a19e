------------------------------ MODULE Resizer ------------------------------
(***************************************************************************)
(* The handlers that change something: resizing, over the cache provider   *)
(* and the origin the pictures are downloaded from, and purgeCache.  The   *)
(* handlers of several requests run at the same time, and a handler has    *)
(* no lock: between any two of its calls the caches may change.            *)
(*                                                                         *)
(* A step of a handler looks at what the call before it returned, and ends *)
(* by calling the provider, by asking the origin or by answering.  A panic *)
(* is recovered by net/http: it ends the request and nothing else.         *)
(*                                                                         *)
(* Sizes are those written in the URL; the placeholders have a module of   *)
(* their own.  A JPEG encoder loses something each time: a picture read    *)
(* back from a JPEG is another one than that which was downloaded, and so  *)
(* is the thumbnail made from it, under the same key.                      *)
(***************************************************************************)
EXTENDS Integers, Sequences

CONSTANTS
  Procs,            (* the goroutines that serve requests                 *)
  Paths,            (* the paths of the pictures                          *)
  Id,               (* ExtractIdFromUrl and "t" of each path              *)
  Ext,              (* GetExtension of each path: png, jpg or other       *)
  Sizes,            (* the sizes in the URLs                              *)
  Refused,          (* those that CheckRequestNewSize refuses             *)
  Configurations,   (* what config.json may say of caching                *)
  OriginFails,      (* whether the origin may fail a request              *)
  Chunks, LruSize, CacheSizeMax, Modulus, DiskFails, RemoveFails, Nobody, Closed, Unlinked,
  NoImage, Garbled

ASSUME PathsAssumption ==
  /\ Paths # {} /\ Sizes # {} /\ Refused \subseteq Sizes
  /\ DOMAIN Id = Paths
  /\ Ext \in [Paths -> {"png", "jpg", "other"}]
ASSUME ConfigurationAssumption ==
  /\ Configurations \subseteq [cacheEnabled : BOOLEAN, cacheThumbnails : BOOLEAN]
  /\ Configurations # {}
  /\ OriginFails \in BOOLEAN
ASSUME StoreAssumption ==  (* see Diskv and CacheProvider *)
  /\ Chunks \in Nat \ {0} /\ LruSize \in Nat \ {0} /\ CacheSizeMax \in Nat \ {0}
  /\ Modulus \in Nat /\ CacheSizeMax + Chunks < Modulus
  /\ DiskFails \in BOOLEAN /\ RemoveFails \in BOOLEAN
  /\ Nobody \notin Procs

VARIABLES
  files, data, cached, cacheSize, mu, stream, uncaching, evictList, items, call,
  config, (* the switches of the configuration read at the start          *)
  req,    (* the request each process serves, and how far it has come     *)
  answer  (* the last answer each process has given                       *)

cacheVars ==
  <<files, data, cached, cacheSize, mu, stream, uncaching, evictList, items, call>>
vars == <<cacheVars, config, req, answer>>

-----------------------------------------------------------------------------
(* What is stored: a picture at its own size or resized, made from what    *)
(* the origin sent or from a JPEG of it in the cache, and its encoding.    *)
Original == "original"
NoPath == "nothing"
Sources == {"origin", "cache"}
Picture == [of : Paths, size : Sizes \cup {Original}, from : Sources]
Encoding ==
  [of : Paths, size : Sizes \cup {Original}, from : Sources, format : {"png", "jpg"}]

Encode(image, format) ==
  [of |-> image.of, size |-> image.size, from |-> image.from, format |-> format]

(* What decoding an encoded picture gives back.                            *)
Reread(encoding) ==
  [of |-> encoding.of, size |-> encoding.size,
   from |-> IF encoding.format = "jpg" THEN "cache" ELSE encoding.from]

(* Mutant of ThumbnailKey: the size is not in the key.                     *)
ThumbnailKeyWithoutSize(path, size) ==
  <<Id[path], CHOOSE s \in Sizes : s \notin Refused>>

ThumbnailKey(path, size) == <<Id[path], size>>
OriginalKey(path) == <<Id[path], Original>>
CacheKeys == {Id[path] : path \in Paths} \X (Sizes \cup {Original})

(* Only what was downloaded is stored as an original.                      *)
StoredUnder(k) ==
  {v \in Encoding : <<Id[v.of], v.size>> = k /\ (v.size = Original => v.from = "origin")}

provider == INSTANCE CacheProvider WITH
  Keys <- CacheKeys,
  Values <- Encoding,
  Format <- [v \in Encoding |-> v.format],
  KeysOf <- [p \in Procs |-> CacheKeys],
  StoredFor <- [k \in CacheKeys |-> StoredUnder(k)]

(* The key of an original ends in "_original", that of a thumbnail in two  *)
(* numbers, and the special values are no paths, keys or pictures.         *)
ASSUME NamesAssumption ==
  /\ NoPath \notin Paths /\ Original \notin Sizes
  /\ Closed \notin CacheKeys /\ Unlinked \notin CacheKeys /\ Closed # Unlinked
  /\ NoImage \notin Encoding /\ Garbled \notin Encoding /\ NoImage # Garbled

-----------------------------------------------------------------------------
Places == {"idle", "thumbContains", "thumbGet", "originalContains", "fetch",
           "undoOriginal", "undoThumb", "originalGet", "thumbSet", "originalSet", "purge"}
NoPicture == [of |-> "nothing", size |-> "nothing", from |-> "nothing"]
Request == [at : Places, path : Paths \cup {NoPath}, size : Sizes \cup {NoPath},
            hit : BOOLEAN, picture : Picture \cup {NoPicture}]
NoRequest == [at |-> "idle", path |-> NoPath, size |-> NoPath, hit |-> FALSE,
              picture |-> NoPicture]

Failures == {"bad request", "not found", "panic", "empty"}
NoAnswer == [kind |-> "none", of |-> NoPath, size |-> NoPath]
Failure(kind) == [kind |-> kind, of |-> NoPath, size |-> NoPath]
Image(picture) == [kind |-> "image", of |-> picture.of, size |-> picture.size]
Mixture == [kind |-> "mixture", of |-> NoPath, size |-> NoPath]

TypeOK ==
  /\ provider!TypeOK
  /\ config \in Configurations
  /\ req \in [Procs -> Request]
  /\ answer \in [Procs -> [kind : {"none", "image", "mixture"} \cup Failures,
                           of : Paths \cup {NoPath}, size : Sizes \cup {NoPath}]]

Init ==
  /\ provider!Init
  /\ config \in Configurations
  /\ req = [p \in Procs |-> NoRequest]
  /\ answer = [p \in Procs |-> NoAnswer]

-----------------------------------------------------------------------------
CachesOriginals == config.cacheEnabled
CachesThumbnails == config.cacheEnabled /\ config.cacheThumbnails

Returned(p) == call[p].at = "idle"
Result(p) == call[p].ret

Goto(p, place) == req' = [req EXCEPT ![p].at = place] /\ UNCHANGED answer

AnswerWith(p, reply) ==
  /\ answer' = [answer EXCEPT ![p] = reply]
  /\ req' = [req EXCEPT ![p] = NoRequest]

Fail(p, kind) == AnswerWith(p, Failure(kind)) /\ UNCHANGED cacheVars

(* At a place, once the call made there has returned.                      *)
At(p, place) == req[p].at = place /\ Returned(p)

-----------------------------------------------------------------------------
(* The original is looked for in the cache, or downloaded at once.         *)
LookForOriginal(p, request) ==
  IF CachesOriginals
    THEN /\ provider!BeginContains(p, OriginalKey(request.path))
         /\ req' = [req EXCEPT ![p] = [request EXCEPT !.at = "originalContains"]]
    ELSE /\ req' = [req EXCEPT ![p] = [request EXCEPT !.at = "fetch"]]
         /\ UNCHANGED cacheVars

StartResizing(p) ==
  /\ req[p].at = "idle"
  /\ \E path \in Paths, size \in Sizes :
       LET request == [NoRequest EXCEPT !.path = path, !.size = size] IN
       \/ /\ size \in Refused
          /\ AnswerWith(p, Failure("bad request"))
          /\ UNCHANGED cacheVars
       \/ /\ size \notin Refused
          /\ answer' = [answer EXCEPT ![p] = NoAnswer]
          /\ IF CachesThumbnails
               THEN /\ provider!BeginContains(p, ThumbnailKey(path, size))
                    /\ req' = [req EXCEPT ![p] = [request EXCEPT !.at = "thumbContains"]]
               ELSE LookForOriginal(p, request)

ThumbnailLookedUp(p) ==
  /\ At(p, "thumbContains")
  /\ \/ /\ Result(p) = "true"
        /\ provider!BeginGet(p, ThumbnailKey(req[p].path, req[p].size), Ext[req[p].path])
        /\ req' = [req EXCEPT ![p].at = "thumbGet"]
     \/ Result(p) = "false" /\ LookForOriginal(p, req[p])
  /\ UNCHANGED answer

(* A picture may be decoded from pieces of two encodings of the thumbnail. *)
Shown(image) == IF image = Garbled THEN Mixture ELSE Image(image)

(* The error of Get is ignored, and encoding a nil image panics.           *)
ThumbnailRead(p) ==
  /\ At(p, "thumbGet")
  /\ \/ /\ Result(p) = "image"
        /\ AnswerWith(p, Shown(call[p].img))
        /\ UNCHANGED cacheVars
     \/ Result(p) # "image" /\ Fail(p, "panic")

OriginalLookedUp(p) ==
  /\ At(p, "originalContains")
  /\ \/ /\ Result(p) = "true"
        /\ provider!BeginGet(p, OriginalKey(req[p].path), Ext[req[p].path])
        /\ req' = [req EXCEPT ![p].at = "originalGet", ![p].hit = TRUE]
     \/ Result(p) = "false" /\ UNCHANGED cacheVars /\ req' = [req EXCEPT ![p].at = "fetch"]
  /\ UNCHANGED answer

-----------------------------------------------------------------------------
(* Mutant of Respond: the picture is written as it was downloaded.         *)
RespondUnresized(p, picture) == AnswerWith(p, Image(picture)) /\ UNCHANGED cacheVars

(* The picture is at hand: it is resized, the thumbnail is stored, then,   *)
(* when it was downloaded, the original, and the request is answered.  For *)
(* an extension that is neither png nor jpg nothing is written.            *)
Respond(p, picture) ==
  /\ AnswerWith(p, IF Ext[req[p].path] = "other" THEN Failure("empty")
                   ELSE Image([of |-> picture.of, size |-> req[p].size]))
  /\ UNCHANGED cacheVars

(* Mutant of StoreOriginal: stored as JPEG, the way thumbnails are.        *)
StoreOriginalAsJpeg(p, picture) ==
  /\ provider!BeginSet(p, OriginalKey(req[p].path), provider!Whole(Encode(picture, "jpg")))
  /\ req' = [req EXCEPT ![p].at = "originalSet", ![p].picture = picture]
  /\ UNCHANGED answer

StoreOriginal(p, picture) ==
  /\ provider!BeginSet(p, OriginalKey(req[p].path),
                       provider!Whole(Encode(picture, Ext[req[p].path])))
  /\ req' = [req EXCEPT ![p].at = "originalSet", ![p].picture = picture]
  /\ UNCHANGED answer

Resize(p, picture) ==
  IF CachesThumbnails
    THEN /\ provider!BeginSet(p, ThumbnailKey(req[p].path, req[p].size),
              provider!Whole(Encode([picture EXCEPT !.size = req[p].size], "jpg")))
         /\ req' = [req EXCEPT ![p].at = "thumbSet", ![p].picture = picture]
         /\ UNCHANGED answer
    ELSE IF CachesOriginals /\ ~req[p].hit THEN StoreOriginal(p, picture)
    ELSE Respond(p, picture)

(* The origin answers.  What it sends is decoded for a png or a jpg only;  *)
(* for another extension the image is nil and its Bounds panics.           *)
Download(p) ==
  /\ req[p].at = "fetch"
  /\ \/ /\ Ext[req[p].path] # "other"
        /\ Resize(p, [of |-> req[p].path, size |-> Original, from |-> "origin"])
     \/ Ext[req[p].path] = "other" /\ Fail(p, "panic")
     \/ OriginFails /\ \E kind \in {"bad request", "not found"} : Fail(p, kind)

(* The origin's picture does not decode: the entries of both keys go.      *)
DownloadUndecodable(p) ==
  /\ req[p].at = "fetch"
  /\ OriginFails
  /\ Ext[req[p].path] # "other"
  /\ IF CachesOriginals
       THEN /\ provider!BeginDelete(p, OriginalKey(req[p].path))
            /\ Goto(p, "undoOriginal")
       ELSE Fail(p, "bad request")

OriginalUndone(p) ==
  /\ At(p, "undoOriginal")
  /\ provider!BeginDelete(p, ThumbnailKey(req[p].path, req[p].size))
  /\ Goto(p, "undoThumb")

ThumbnailUndone(p) == At(p, "undoThumb") /\ Fail(p, "bad request")

(* A nil image without an error panics as well.  Two different originals   *)
(* under one key, of which a mixture could be read, need two pictures with *)
(* one id.                                                                 *)
OriginalRead(p) ==
  /\ At(p, "originalGet")
  /\ \/ Result(p) = "image" /\ Resize(p, Reread(call[p].img))
     \/ Result(p) = "error" /\ Fail(p, "bad request")
     \/ Result(p) \in {"nil", "panic"} /\ Fail(p, "panic")

ThumbnailStored(p) ==
  /\ At(p, "thumbSet")
  /\ \/ Result(p) = "ok" /\ ~req[p].hit /\ StoreOriginal(p, req[p].picture)
     \/ Result(p) = "ok" /\ req[p].hit /\ Respond(p, req[p].picture)
     \/ Result(p) = "error" /\ Fail(p, "bad request")

OriginalStored(p) ==
  /\ At(p, "originalSet")
  /\ \/ Result(p) = "ok" /\ Respond(p, req[p].picture)
     \/ Result(p) = "error" /\ Fail(p, "bad request")

-----------------------------------------------------------------------------
(* purgeCache.  It answers OK or the error; answer keeps what resizing said. *)
StartPurge(p) ==
  /\ req[p].at = "idle"
  /\ provider!BeginDeleteAll(p)
  /\ Goto(p, "purge")

Purged(p) ==
  /\ At(p, "purge")
  /\ req' = [req EXCEPT ![p] = NoRequest]
  /\ UNCHANGED <<cacheVars, answer>>

-----------------------------------------------------------------------------
Arrive(p) == (StartResizing(p) \/ StartPurge(p)) /\ UNCHANGED config

Handle(p) ==
  /\ \/ ThumbnailLookedUp(p) \/ ThumbnailRead(p) \/ OriginalLookedUp(p)
     \/ Download(p) \/ DownloadUndecodable(p) \/ OriginalUndone(p) \/ ThumbnailUndone(p)
     \/ OriginalRead(p) \/ ThumbnailStored(p) \/ OriginalStored(p) \/ Purged(p)
  /\ UNCHANGED config

Cache(p) == provider!Step(p) /\ UNCHANGED <<config, req, answer>>

UncacheStep == provider!UncacheStep /\ UNCHANGED <<config, req, answer>>

Restart ==
  /\ provider!Restart
  /\ config' \in Configurations
  /\ req' = [p \in Procs |-> NoRequest]
  /\ answer' = [p \in Procs |-> NoAnswer]

Work == UncacheStep \/ \E p \in Procs : Handle(p) \/ Cache(p)

Next == Restart \/ Work \/ \E p \in Procs : Arrive(p)

Spec == Init /\ [][Next]_vars

(* A goroutine that can go on does.                                        *)
Fairness == (\A p \in Procs : WF_vars(Handle(p) \/ Cache(p))) /\ WF_vars(UncacheStep)

-----------------------------------------------------------------------------
(* The service seen by its clients: a purge is none of their requests.     *)
Service == INSTANCE ResizeService WITH
  asked <- [p \in Procs |-> [path |-> req[p].path, size |-> req[p].size]],
  Lossy <- {path \in Paths : Ext[path] = "jpg"}

(***************************************************************************)
(* The service keeps its promise through concurrent requests, evictions,   *)
(* purges, failures of the origin and of the disk, and restarts: whoever   *)
(* asks for a picture at a size gets that one or none; of the thumbnail of *)
(* a JPEG perhaps a mixture of two encodings.  It keeps it where the       *)
(* pictures have different ids: the key of the cache has the id only.      *)
(***************************************************************************)
ImplementsResizeService == Service!Spec

(***************************************************************************)
(* "At the moment this supports PNG and JPG images": with nothing failing  *)
(* a request for one of them is not answered by a panic.                   *)
(***************************************************************************)
SupportsPngAndJpg == \A p \in Procs : answer[p].kind # "panic"

(***************************************************************************)
(* With thumbnails off it is so: an original is stored in the encoding it  *)
(* is read back in, and an entry that does not decode is an error that is  *)
(* looked at.  Stated for one request at a time.                           *)
(***************************************************************************)
OriginalsNeverPanic == ~config.cacheThumbnails => SupportsPngAndJpg

(***************************************************************************)
(* Every request is answered.                                              *)
(***************************************************************************)
EveryRequestIsAnswered ==
  \A p \in Procs : (req[p].at # "idle") ~> (req[p].at = "idle")

(***************************************************************************)
(* Whatever a restart or a past failure has left in the caches, a client   *)
(* that goes on asking for pictures gets images again and again.           *)
(***************************************************************************)
RetryHeals == \A p \in Procs : []<>(answer[p].kind = "image")
=============================================================================
