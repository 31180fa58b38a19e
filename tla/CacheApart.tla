----------------------------- MODULE CacheApart -----------------------------
(***************************************************************************)
(* CacheProvider with clients that share all the keys, or that share none: *)
(* then a key belongs to the first goroutine that works with it, as the    *)
(* keys of a picture do while one request at a time asks for it.  A purge  *)
(* needs no key.                                                           *)
(***************************************************************************)
EXTENDS CacheProvider

CONSTANTS
  Sharing,  (* whether goroutines share keys, and whether they do not     *)
  Shared    (* the owner of a key that everybody works with               *)

ASSUME SharingAssumption == Sharing \subseteq BOOLEAN
ASSUME OwnersAssumption == Shared \notin Procs /\ Shared # Nobody

VARIABLE owner  (* where keys are not shared, who works with each of them *)

apartVars == <<vars, owner>>

ApartInit ==
  /\ Init
  /\ \E shared \in Sharing : owner = [k \in Keys |-> IF shared THEN Shared ELSE Nobody]

Acquire(p, k) ==
  \/ owner[k] \in {Shared, p} /\ UNCHANGED owner
  \/ owner[k] = Nobody /\ owner' = [owner EXCEPT ![k] = p]

ApartCall(p) ==
  /\ Client(p)
  /\ IF call'[p].op = "DeleteAll" THEN UNCHANGED owner ELSE Acquire(p, call'[p].key)

ApartNext ==
  \/ \E p \in Procs : ApartCall(p)
  \/ (Work \/ Restart) /\ UNCHANGED owner

ApartSpec == ApartInit /\ [][ApartNext]_apartVars

-----------------------------------------------------------------------------
Apart == \A k \in Keys : owner[k] # Shared

(***************************************************************************)
(* Two properties of goroutines that keep to a key each, and share the     *)
(* rest: the LRU cache, the mutex and the memory diskv has for its cache.  *)
(***************************************************************************)
ExactWhenApart == Apart => AccountingIsExact

FailedGetForgetsApart ==
  [][Apart => \A p \in Procs : FailedGetForgets(p)]_apartVars
=============================================================================
