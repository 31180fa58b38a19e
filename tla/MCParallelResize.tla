-------------------------- MODULE MCParallelResize --------------------------
(* Images small enough to enumerate: scaled up, down, and in proportion.   *)
EXTENDS ParallelResize

CONSTANTS MaxWidth, MaxHeight, MaxAsked

MCSources == [width : 1 .. MaxWidth, height : 1 .. MaxHeight]
MCAsked == [width : 0 .. MaxAsked, height : 0 .. MaxAsked]

(* All the samples on an edge between two boxes are in neither of them, in *)
(* one (as in exact arithmetic), or in both.                               *)
Longest == IF MaxWidth > MaxHeight THEN MaxWidth ELSE MaxHeight
Boxes ==
  {box \in (0 .. Longest * MaxAsked) \X [num : 1 .. Longest, den : 1 .. MaxAsked] :
     \E k \in -1 .. Longest : OnEdge(k, box[1], box[2])}
MCRoundings ==
  {[left |-> {}, right |-> {}], [left |-> {}, right |-> Boxes], [left |-> Boxes, right |-> Boxes]}
=============================================================================
