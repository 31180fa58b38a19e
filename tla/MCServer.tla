------------------------------ MODULE MCServer ------------------------------
(***************************************************************************)
(* Server with a bounded number of requests: a few of the usual ones at    *)
(* the same time, or one of any path, spelled in any way.                  *)
(***************************************************************************)
EXTENDS Server

CONSTANTS
  MaxRequests,  (* requests in a behaviour                                 *)
  MaxSegments   (* segments of the paths that are spelled in any way       *)

VARIABLE requests

mcVars == <<allVars, requests>>

Slashed(segments) == <<Empty>> \o segments
Size == <<"small">>
Huge == <<"huge">>

UsualPaths ==
  {Slashed(s) : s \in {<< <<"resize">>, Size, <<"a", "png">> >>, << <<"health-check">> >>,
                       << <<"purge">> >>}}

Segments ==
  {Empty, Dot, DotDot, <<"resize">>, <<"health-check">>, Huge, <<"a", "png">>,
   <<"", "jpg">>, <<"b">>, <<"c", "">>, <<"d", "e", "jpg">>, <<"100%", "png">>}

SpelledPaths ==
  {<<Empty>>} \cup {Slashed(s) : s \in UNION {[1 .. n -> Segments] : n \in 1 .. MaxSegments}}

(* Goroutines and pointers are alike: which come first makes no difference. *)
AnyProc == CHOOSE p \in Procs : TRUE
AnyPointer == CHOOSE r \in Pointers : TRUE

(* What the requests find is nothing, an empty directory or both files.    *)
MCInit ==
  /\ ServerInit /\ requests = 0
  /\ size \in {[k \in Keys |-> Absent], [k \in Keys |-> 1]}
  /\ littered = {}

MCArrive ==
  /\ requests < MaxRequests
  /\ \/ /\ requests' = requests + 1
        /\ \E p \in Procs, r \in Pointers, path \in UsualPaths :
             /\ requests = 0 => p = AnyProc /\ r = AnyPointer
             /\ Receive(p, r, "GET", path)
     \/ /\ requests = 0 /\ requests' = MaxRequests
        /\ Files = {} /\ dirs = {}
        /\ \E method \in Methods, path \in SpelledPaths :
             Receive(AnyProc, AnyPointer, method, path)
  /\ Observe

MCNext == \/ MCArrive
          \/ (\E p \in Procs : Work(p)) /\ UNCHANGED requests

MCSpec ==
  MCInit /\ [][MCNext]_mcVars /\ \A p \in Procs : WF_mcVars(Work(p) /\ UNCHANGED requests)

-----------------------------------------------------------------------------
MCOriginal == <<1, 2, 3, 4, 5>>
MCThumbnail == <<1, 2, 6>>
MCKeys == {MCOriginal, MCThumbnail}
MCAwkward == {MCOriginal}
MCPaths == UsualPaths \cup SpelledPaths
MCRefused == {Huge}
=============================================================================
