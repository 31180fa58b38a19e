------------------------------- MODULE LruUse -------------------------------
(***************************************************************************)
(* The LRU cache with a history of the operations called on it, against    *)
(* the abstract cache of LeastRecent.  The history says in which order the *)
(* keys were last added or got; the list of the cache has no part in it,   *)
(* so a cache that forgets to move an entry to the front, or evicts        *)
(* another entry than the one at the back, disagrees with its history.     *)
(***************************************************************************)
EXTENDS Lru

VARIABLE used  (* <<a, b>>: a was used after the last use of b, if any     *)

useVars == <<vars, used>>

NowUsed(k) == used' = {pair \in used : pair[2] # k} \cup ({k} \X (Key \ {k}))

UseInit == Init /\ used = {}

UseNext ==
  \/ \E k \in Key, v \in Value :
        \/ Add(k, v) /\ NowUsed(k)
        \/ ContainsOrAdd(k, v) /\ IF Contains(k) THEN UNCHANGED used ELSE NowUsed(k)
  \/ \E k \in Key :
        \/ Get(k) /\ IF Contains(k) THEN NowUsed(k) ELSE UNCHANGED used
        \/ Remove(k) /\ UNCHANGED used
  \/ (RemoveOldest \/ Purge) /\ UNCHANGED used

UseSpec == UseInit /\ [][UseNext]_useVars

-----------------------------------------------------------------------------
(* The refinement mapping: the entries as a function, and the order of the *)
(* history among the keys present.                                         *)
contentBar == [k \in items |-> Element(k).value]

newerBar == used \cap (items \X items)

Abstract == INSTANCE LeastRecent WITH content <- contentBar, newer <- newerBar

(***************************************************************************)
(* Every behaviour of the list-and-map cache is one of the abstract cache: *)
(* what is under a key is what was last added under it, and the entry an   *)
(* Add or a RemoveOldest evicts is the one whose last Add or Get is the    *)
(* oldest.                                                                 *)
(***************************************************************************)
ImplementsLeastRecent == Abstract!Spec
=============================================================================
