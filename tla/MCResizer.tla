----------------------------- MODULE MCResizer -----------------------------
(***************************************************************************)
(* Resizer with a bounded number of requests, purges and restarts.         *)
(***************************************************************************)
EXTENDS Resizer, TLC

CONSTANTS
  MaxRequests,  (* requests in a behaviour; ForEver bounds nothing        *)
  MaxPurges,    (* purges in a behaviour                                  *)
  MaxRestarts,  (* restarts in a behaviour                                *)
  ForEver

VARIABLES requests, purges, restarts

mcVars == <<vars, requests, purges, restarts>>

MCInit == Init /\ requests = 0 /\ purges = 0 /\ restarts = 0

MCRequest ==
  /\ \/ MaxRequests = ForEver /\ UNCHANGED requests
     \/ MaxRequests # ForEver /\ requests < MaxRequests /\ requests' = requests + 1
  /\ \E p \in Procs : StartResizing(p)
  /\ UNCHANGED config
  /\ UNCHANGED <<purges, restarts>>

MCPurge ==
  /\ purges < MaxPurges
  /\ purges' = purges + 1
  /\ \E p \in Procs : StartPurge(p)
  /\ UNCHANGED config
  /\ UNCHANGED <<requests, restarts>>

MCRestart ==
  /\ restarts < MaxRestarts
  /\ restarts' = restarts + 1
  /\ Restart
  /\ UNCHANGED <<requests, purges>>

MCNext == MCRequest \/ MCPurge \/ MCRestart \/ (Work /\ UNCHANGED <<requests, purges, restarts>>)

MCSpec == MCInit /\ [][MCNext]_mcVars

MCFairSpec == MCSpec /\ Fairness

(* A client that goes on asking: the requests are fair too.                *)
MCPersistentSpec == MCFairSpec /\ \A p \in Procs : WF_vars(StartResizing(p) /\ UNCHANGED config)

-----------------------------------------------------------------------------
(* Values of the constants *)
CONSTANTS p1, p2, aJpg, bPng, cOther, small, large, huge

OwnIds == [path \in Paths |-> path]
OneId == [path \in Paths |-> aJpg]
Extensions == [path \in Paths |-> IF path = aJpg THEN "jpg" ELSE
                                  IF path = bPng THEN "png" ELSE "other"]

Caching(originals, thumbnails) ==
  [cacheEnabled |-> originals, cacheThumbnails |-> thumbnails]
AnyCaching == {Caching(FALSE, TRUE), Caching(TRUE, FALSE), Caching(TRUE, TRUE)}
FullCaching == {Caching(TRUE, TRUE)}

Symmetry == Permutations(Procs)
=============================================================================
