-------------------------------- MODULE Lru --------------------------------
(***************************************************************************)
(* The in-memory LRU cache of the service: golang-lru's Cache (a mutex     *)
(* around every operation, so an operation is one step) over simplelru's   *)
(* LRU, which keeps a doubly linked list of entries, the most recently     *)
(* used one first, and a map from keys to list elements.                   *)
(***************************************************************************)
EXTENDS Naturals, Sequences

SE == INSTANCE SequencesExt

CONSTANTS
  Key,    (* the cache keys                                               *)
  Value,  (* what is stored under a key                                   *)
  Size    (* the capacity given to New                                    *)

ASSUME SizeAssumption == Size \in Nat \ {0}

VARIABLES
  evictList,  (* the list of entries, front (most recently used) first    *)
  items       (* the keys of the map from keys to list elements           *)

vars == <<evictList, items>>

Entry == [key : Key, value : Value]

-----------------------------------------------------------------------------
(* Where the element of key k is in the list, and what a list is without it. *)
Position(k) == CHOOSE i \in DOMAIN evictList : evictList[i].key = k

Element(k) == evictList[Position(k)]

Without(k) == SE!RemoveAt(evictList, Position(k))

Contains(k) == k \in items

(* Mutant of RemoveElement: the key stays in the map.                      *)
RemoveElementKeepsKey(k) ==
  /\ evictList' = Without(k)
  /\ UNCHANGED items

(* removeElement: the element leaves the list and its key leaves the map. *)
RemoveElement(k) ==
  /\ evictList' = Without(k)
  /\ items' = items \ {k}

-----------------------------------------------------------------------------
Init ==
  /\ evictList = << >>
  /\ items = {}

(* Add: an existing entry is updated in place and moved to the front.      *)
AddExisting(k, v) ==
  /\ Contains(k)
  /\ evictList' = <<[key |-> k, value |-> v]>> \o Without(k)
  /\ UNCHANGED items

(* Mutant of AddNew: the map is filled with entries instead of keys.       *)
AddNewMapsEntry(k, v) ==
  LET entry == [key |-> k, value |-> v] IN
  /\ ~Contains(k)
  /\ Len(evictList) < Size
  /\ evictList' = <<entry>> \o evictList
  /\ items' = items \cup {entry}

(* Mutant of AddNew: the size is looked at before the entry is pushed.     *)
AddNewLate(k, v) ==
  LET pushed == <<[key |-> k, value |-> v]>> \o evictList IN
  /\ ~Contains(k)
  /\ \/ /\ Len(evictList) <= Size
        /\ evictList' = pushed
        /\ items' = items \cup {k}
     \/ /\ Len(evictList) > Size
        /\ evictList' = SE!Front(pushed)
        /\ items' = (items \cup {k}) \ {SE!Last(pushed).key}

(* Add: a new entry is pushed to the front, and when that makes the list   *)
(* longer than the capacity the entry at the back goes.                    *)
AddNew(k, v) ==
  LET pushed == <<[key |-> k, value |-> v]>> \o evictList IN
  /\ ~Contains(k)
  /\ \/ /\ Len(pushed) <= Size
        /\ evictList' = pushed
        /\ items' = items \cup {k}
     \/ /\ Len(pushed) > Size
        /\ evictList' = SE!Front(pushed)
        /\ items' = (items \cup {k}) \ {SE!Last(pushed).key}

Add(k, v) == AddExisting(k, v) \/ AddNew(k, v)

(* Mutant of Get: a hit does not count as a use, as in Peek.               *)
GetPeeks(k) == k \in Key /\ UNCHANGED vars

(* Get: a hit moves the entry to the front; a miss changes nothing.        *)
Get(k) ==
  \/ /\ Contains(k)
     /\ evictList' = <<Element(k)>> \o Without(k)
     /\ UNCHANGED items
  \/ /\ ~Contains(k)
     /\ UNCHANGED vars

ContainsOrAdd(k, v) ==
  \/ Contains(k) /\ UNCHANGED vars
  \/ AddNew(k, v)

Remove(k) ==
  \/ Contains(k) /\ RemoveElement(k)
  \/ ~Contains(k) /\ UNCHANGED vars

RemoveOldest ==
  \/ evictList # << >> /\ RemoveElement(SE!Last(evictList).key)
  \/ evictList = << >> /\ UNCHANGED vars

Purge ==
  /\ evictList' = << >>
  /\ items' = {}

Next ==
  \/ \E k \in Key, v \in Value : Add(k, v) \/ ContainsOrAdd(k, v)
  \/ \E k \in Key : Get(k) \/ Remove(k)
  \/ RemoveOldest
  \/ Purge

Spec == Init /\ [][Next]_vars

-----------------------------------------------------------------------------
TypeOK ==
  /\ evictList \in Seq(Entry)
  /\ items \subseteq Key

(***************************************************************************)
(* The list and the map describe the same set of entries: no key is in the *)
(* list twice (Add of a present key must move its element, not push a      *)
(* second one), and the map holds exactly the keys of the list (every      *)
(* eviction deletes the evicted element's own key).                        *)
(***************************************************************************)
ListMatchesMap ==
  /\ \A i, j \in DOMAIN evictList :
        evictList[i].key = evictList[j].key => i = j
  /\ items = {evictList[i].key : i \in DOMAIN evictList}

(* The cache never holds more entries than the capacity given to New.      *)
WithinCapacity == Len(evictList) <= Size
=============================================================================
