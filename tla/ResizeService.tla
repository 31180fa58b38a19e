--------------------------- MODULE ResizeService ---------------------------
(***************************************************************************)
(* What the service promises its clients, with no word about caches: a     *)
(* request is answered once, and an image that answers it is the picture   *)
(* asked for at the size asked for.  A picture that loses something each   *)
(* time it is encoded may come as pieces of two encodings of it.  The      *)
(* service may fail a request, and it may die with all the requests it has *)
(* not answered.                                                           *)
(***************************************************************************)
CONSTANTS
  Procs, Paths, Sizes, Failures,
  Lossy  (* the pictures of which two encodings may differ                *)

VARIABLES
  asked,    (* what each client waits for, or Nothing                     *)
  answer    (* the last answer to each client                             *)

vars == <<asked, answer>>

Nothing == [path |-> "nothing", size |-> "nothing"]
NoAnswer == [kind |-> "none", of |-> "nothing", size |-> "nothing"]

Failure(kind) == [kind |-> kind, of |-> "nothing", size |-> "nothing"]
Mixture == [kind |-> "mixture", of |-> "nothing", size |-> "nothing"]
Image(request) == [kind |-> "image", of |-> request.path, size |-> request.size]

Init ==
  /\ asked = [p \in Procs |-> Nothing]
  /\ answer = [p \in Procs |-> NoAnswer]

Ask(p) ==
  /\ asked[p] = Nothing
  /\ \E path \in Paths, size \in Sizes :
        asked' = [asked EXCEPT ![p] = [path |-> path, size |-> size]]
  /\ answer' = [answer EXCEPT ![p] = NoAnswer]

(* A request may be refused before anything else is looked at.             *)
Refuse(p) ==
  /\ asked[p] = Nothing
  /\ \E kind \in Failures : answer' = [answer EXCEPT ![p] = Failure(kind)]
  /\ UNCHANGED asked

Answer(p) ==
  /\ asked[p] # Nothing
  /\ \/ answer' = [answer EXCEPT ![p] = Image(asked[p])]
     \/ asked[p].path \in Lossy /\ answer' = [answer EXCEPT ![p] = Mixture]
     \/ \E kind \in Failures : answer' = [answer EXCEPT ![p] = Failure(kind)]
  /\ asked' = [asked EXCEPT ![p] = Nothing]

Die ==
  /\ asked' = [p \in Procs |-> Nothing]
  /\ answer' = [p \in Procs |-> NoAnswer]

Next == Die \/ \E p \in Procs : Ask(p) \/ Refuse(p) \/ Answer(p)

Spec == Init /\ [][Next]_vars
=============================================================================
