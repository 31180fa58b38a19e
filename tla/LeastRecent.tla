---------------------------- MODULE LeastRecent ----------------------------
(***************************************************************************)
(* What an LRU cache promises, without saying how it keeps its order: a    *)
(* bounded map together with the order in which its keys were last used.   *)
(* Whenever a new key does not fit, the key used least recently is lost.   *)
(***************************************************************************)
EXTENDS Naturals, FiniteSets

CONSTANTS Key, Value, Size

VARIABLES
  content,  (* a function from the keys present to their values           *)
  newer     (* <<a, b>> is in it when a was used more recently than b     *)

vars == <<content, newer>>

Present == DOMAIN content

(* The order among the keys of S, and the order once k is used. *)
Among(S) == newer \cap (S \X S)
UsedNow(k, S) == Among(S \ {k}) \cup ({k} \X (S \ {k}))

(* The map with k set to v, restricted to the keys of S. *)
With(k, v, S) == [x \in S |-> IF x = k THEN v ELSE content[x]]

Oldest == CHOOSE k \in Present : \A x \in Present \ {k} : <<x, k>> \in newer

Keep(S) ==
  /\ content' = [x \in S |-> content[x]]
  /\ newer' = Among(S)

-----------------------------------------------------------------------------
Init ==
  /\ content = [k \in {} |-> {}]
  /\ newer = {}

(* A key is stored; a new key that finds the map full costs the oldest one. *)
Store(k, v) ==
  LET full == k \notin Present /\ Cardinality(Present) = Size
      kept == (Present \ (IF full THEN {Oldest} ELSE {})) \cup {k}
  IN  /\ content' = With(k, v, kept)
      /\ newer' = UsedNow(k, kept)

Use(k) ==
  /\ k \in Present
  /\ content' = content
  /\ newer' = UsedNow(k, Present)

Forget(k) ==
  /\ k \in Present
  /\ Keep(Present \ {k})

ForgetOldest ==
  /\ Present # {}
  /\ Keep(Present \ {Oldest})

ForgetAll == Keep({})

Next ==
  \/ \E k \in Key, v \in Value : Store(k, v)
  \/ \E k \in Key : Use(k) \/ Forget(k)
  \/ ForgetOldest
  \/ ForgetAll

Spec == Init /\ [][Next]_vars
=============================================================================
