-------------------------- MODULE MCCacheProvider --------------------------
(***************************************************************************)
(* CacheProvider, with keys that are shared or not, under clients that     *)
(* make a bounded number of calls, and with a bounded number of restarts.  *)
(***************************************************************************)
EXTENDS CacheApart, TLC

CONSTANTS
  MaxCalls,     (* calls in a behaviour                                   *)
  MaxRestarts   (* restarts in a behaviour                                *)

VARIABLES callsMade, restarts

mcVars == <<apartVars, callsMade, restarts>>

MCInit == ApartInit /\ callsMade = 0 /\ restarts = 0

MCCall ==
  /\ callsMade < MaxCalls
  /\ callsMade' = callsMade + 1
  /\ \E p \in Procs : ApartCall(p)
  /\ UNCHANGED restarts

MCWork == Work /\ UNCHANGED <<callsMade, restarts, owner>>

MCRestart ==
  /\ restarts < MaxRestarts
  /\ restarts' = restarts + 1
  /\ Restart
  /\ UNCHANGED <<callsMade, owner>>

MCNext == MCCall \/ MCWork \/ MCRestart

MCSpec == MCInit /\ [][MCNext]_mcVars

-----------------------------------------------------------------------------
(* Values of the constants: v and w are JPEGs, g a PNG. *)
CONSTANTS p1, p2, k1, k2, v, w, g

AllKeys == [p \in Procs |-> Keys]
Encoding == [x \in Values |-> IF x = g THEN "png" ELSE "jpg"]
OneOfEach == [k \in Keys |-> {IF k = k1 THEN v ELSE g}]
SharedKey == [k \in Keys |-> IF k = k1 THEN Values ELSE {g}]

Symmetry == Permutations(Procs)
SymmetryOfJpegs == Symmetry \cup Permutations({v, w})
=============================================================================
