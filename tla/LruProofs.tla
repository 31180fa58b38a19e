----------------------------- MODULE LruProofs -----------------------------
(***************************************************************************)
(* The LRU cache never holds two entries of a key, never loses track of    *)
(* one, and never outgrows its capacity: for every set of keys and values  *)
(* and every capacity.                                                     *)
(*                                                                         *)
(* TypeOK, ListMatchesMap and WithinCapacity are inductive together and    *)
(* not one by one: Add evicts at most one entry, which keeps the list      *)
(* within the capacity only if it was; and removing the element of a key   *)
(* removes the key from the list only if it is there once.                 *)
(***************************************************************************)
EXTENDS Lru, SequenceTheorems, TLAPS

NoKeyTwice(s) == \A i, j \in DOMAIN s : s[i].key = s[j].key => i = j

KeysIn(s) == {s[i].key : i \in DOMAIN s}

IInv == TypeOK /\ ListMatchesMap /\ WithinCapacity

-----------------------------------------------------------------------------
(* A list of entries with different keys, as every lemma assumes and shows. *)
EntryList(s) == s \in Seq(Entry) /\ NoKeyTwice(s)

(* What is where in the list without the element at a position.            *)
LEMMA RemoveAtElements ==
  ASSUME NEW s \in Seq(Entry), NEW n \in 1..Len(s)
  PROVE  /\ SE!RemoveAt(s, n) \in Seq(Entry)
         /\ Len(SE!RemoveAt(s, n)) = Len(s) - 1
         /\ \A i \in 1..Len(s) - 1 :
               SE!RemoveAt(s, n)[i] = IF i < n THEN s[i] ELSE s[i + 1]
<1> DEFINE a == SubSeq(s, 1, n - 1)
           b == SubSeq(s, n + 1, Len(s))
           t == a \o b
<1>1. s \in Seq(Entry) /\ Len(s) \in Nat /\ DOMAIN s = 1..Len(s)
  BY LenProperties
<1>2. \A i \in 1..Len(s) : s[i] \in Entry
  BY <1>1, ElementOfSeq
<1>3. /\ a \in Seq(Entry) /\ Len(a) = n - 1
      /\ \A i \in 1..n - 1 : a[i] = s[i]
  <2>1. \A i \in 1..n - 1 : s[i] \in Entry
    BY <1>1, <1>2
  <2>2. QED
    BY <1>1, <2>1, SubSeqProperties
<1>4. /\ b \in Seq(Entry) /\ Len(b) = Len(s) - n
      /\ \A i \in 1..Len(s) - n : b[i] = s[n + i]
  <2>1. \A i \in n + 1..Len(s) : s[i] \in Entry
    BY <1>1, <1>2
  <2>2. /\ b \in Seq(Entry)
        /\ Len(b) = IF n + 1 <= Len(s) THEN Len(s) - (n + 1) + 1 ELSE 0
        /\ \A i \in 1..Len(s) - (n + 1) + 1 : b[i] = s[n + 1 + i - 1]
    BY <1>1, <2>1, SubSeqProperties
  <2> HIDE DEF b
  <2>3. Len(b) = Len(s) - n
    <3>1. CASE n + 1 <= Len(s)
      <4>1. Len(b) = Len(s) - (n + 1) + 1
        BY <2>2, <3>1
      <4>2. QED
        BY <1>1, <4>1
    <3>2. CASE ~(n + 1 <= Len(s))
      <4>1. Len(b) = 0
        BY <2>2, <3>2
      <4>2. Len(s) \in Nat /\ n \in Nat /\ n <= Len(s)
        BY <1>1
      <4>3. Len(s) - n = 0
        BY <3>2, <4>2
      <4>4. QED
        BY <4>1, <4>3
    <3>3. QED
      BY <3>1, <3>2
  <2>4. ASSUME NEW i \in 1..Len(s) - n
        PROVE  b[i] = s[n + i]
    <3>1. i \in 1..Len(s) - (n + 1) + 1 /\ n + 1 + i - 1 = n + i
      BY <1>1
    <3>2. QED
      BY <2>2, <3>1
  <2>5. QED
    BY <2>2, <2>3, <2>4
<1>5. /\ t \in Seq(Entry) /\ Len(t) = Len(s) - 1
      /\ \A i \in 1..Len(s) - 1 : t[i] = IF i < n THEN s[i] ELSE s[i + 1]
  <2>1. /\ t \in Seq(Entry) /\ Len(t) = Len(a) + Len(b)
        /\ \A i \in 1..Len(a) + Len(b) :
              t[i] = IF i <= Len(a) THEN a[i] ELSE b[i - Len(a)]
    BY <1>3, <1>4, ConcatProperties
  <2> HIDE DEF a, b, t
  <2>2. Len(t) = Len(s) - 1
    BY <1>1, <1>3, <1>4, <2>1
  <2>3. ASSUME NEW i \in 1..Len(s) - 1
        PROVE  t[i] = IF i < n THEN s[i] ELSE s[i + 1]
    <3>1. i \in 1..Len(a) + Len(b) /\ (i <= Len(a) <=> i < n)
      BY <1>1, <1>3, <1>4
    <3>2. t[i] = IF i < n THEN a[i] ELSE b[i - Len(a)]
      BY <2>1, <3>1
    <3>3. CASE i < n
      <4>1. i \in 1..n - 1
        BY <1>1, <3>3
      <4>2. QED
        BY <1>3, <3>2, <3>3, <4>1
    <3>4. CASE ~(i < n)
      <4>1. i - Len(a) \in 1..Len(s) - n /\ n + (i - Len(a)) = i + 1
        BY <1>1, <1>3, <3>4
      <4>2. QED
        BY <1>4, <3>2, <3>4, <4>1
    <3>5. QED
      BY <3>3, <3>4
  <2>4. QED
    BY <2>1, <2>2, <2>3
<1>6. SE!RemoveAt(s, n) = t
  BY DEF SE!RemoveAt
<1>7. QED
  BY <1>5, <1>6

(***************************************************************************)
(* Removing the element at a position, which Remove, RemoveOldest and the  *)
(* move to the front do, leaves a list without that element's key.         *)
(***************************************************************************)
LEMMA RemoveAtKeys ==
  ASSUME NEW s, EntryList(s), NEW n \in 1..Len(s)
  PROVE  /\ EntryList(SE!RemoveAt(s, n))
         /\ Len(SE!RemoveAt(s, n)) = Len(s) - 1
         /\ KeysIn(SE!RemoveAt(s, n)) = KeysIn(s) \ {s[n].key}
<1> DEFINE t == SE!RemoveAt(s, n)
<1>1. s \in Seq(Entry) /\ Len(s) \in Nat /\ DOMAIN s = 1..Len(s)
  BY LenProperties DEF EntryList
<1>2. /\ t \in Seq(Entry) /\ Len(t) = Len(s) - 1
      /\ \A i \in 1..Len(s) - 1 : t[i] = IF i < n THEN s[i] ELSE s[i + 1]
  BY <1>1, RemoveAtElements
<1> HIDE DEF t
<1>3. DOMAIN t = 1..Len(s) - 1
  BY <1>2, LenProperties
<1>4. NoKeyTwice(t)
  <2> DEFINE at(i) == IF i < n THEN i ELSE i + 1
  <2>1. \A i \in DOMAIN t : at(i) \in DOMAIN s /\ t[i] = s[at(i)]
    BY <1>1, <1>2, <1>3
  <2>2. \A i, j \in DOMAIN t : at(i) = at(j) => i = j
    BY <1>1, <1>3
  <2> HIDE DEF at
  <2>3. QED
    BY <2>1, <2>2 DEF NoKeyTwice, EntryList
<1>5. KeysIn(t) = KeysIn(s) \ {s[n].key}
  <2>1. \A i \in 1..Len(s) - 1 : t[i].key \in KeysIn(s) \ {s[n].key}
    BY <1>1, <1>2 DEF NoKeyTwice, EntryList, KeysIn
  <2>2. ASSUME NEW i \in 1..Len(s), s[i].key # s[n].key
        PROVE  s[i].key \in KeysIn(t)
    <3>1. CASE i < n
      BY <1>1, <1>2, <1>3, <3>1 DEF KeysIn
    <3>2. CASE i > n
      <4>1. i - 1 \in DOMAIN t /\ t[i - 1] = s[i]
        BY <1>1, <1>2, <1>3, <3>2
      <4>2. QED
        BY <4>1 DEF KeysIn
    <3>3. QED
      BY <1>1, <2>2, <3>1, <3>2
  <2>3. QED
    BY <1>1, <1>3, <2>1, <2>2 DEF KeysIn
<1>6. QED
  BY <1>2, <1>4, <1>5 DEF EntryList, t

(* The list without its last element is the list but for its last element. *)
LEMMA FrontIsRemoveAt ==
  ASSUME NEW s \in Seq(Entry), Len(s) # 0
  PROVE  SE!Front(s) = SE!RemoveAt(s, Len(s))
<1>1. Len(s) \in Nat /\ SubSeq(s, Len(s) + 1, Len(s)) = << >>
  BY LenProperties, SubSeqEmpty
<1>2. \A i \in 1..Len(s) - 1 : s[i] \in Entry
  BY <1>1, ElementOfSeq
<1>3. SubSeq(s, 1, Len(s) - 1) \in Seq(Entry)
  BY <1>1, <1>2, SubSeqProperties
<1>4. QED
  BY <1>1, <1>3, ConcatEmptySeq DEF SE!Front, SE!RemoveAt

(* What is where in the list with an entry pushed to the front.            *)
LEMMA PushElements ==
  ASSUME NEW s \in Seq(Entry), NEW e \in Entry
  PROVE  /\ <<e>> \o s \in Seq(Entry)
         /\ Len(<<e>> \o s) = Len(s) + 1
         /\ DOMAIN (<<e>> \o s) = 1..Len(s) + 1
         /\ (<<e>> \o s)[1] = e
         /\ \A i \in 2..Len(s) + 1 :
               i - 1 \in DOMAIN s /\ (<<e>> \o s)[i] = s[i - 1]
<1> DEFINE t == <<e>> \o s
<1>1. s \in Seq(Entry) /\ Len(s) \in Nat /\ DOMAIN s = 1..Len(s)
  BY LenProperties
<1>2. <<e>> \in Seq(Entry) /\ Len(<<e>>) = 1 /\ <<e>>[1] = e
  OBVIOUS
<1>3. /\ t \in Seq(Entry) /\ Len(t) = 1 + Len(s)
      /\ \A i \in 1..1 + Len(s) : t[i] = IF i <= 1 THEN <<e>>[i] ELSE s[i - 1]
  BY <1>1, <1>2, ConcatProperties
<1>4. /\ DOMAIN t = 1..Len(s) + 1 /\ t[1] = e
      /\ \A i \in 2..Len(s) + 1 : i - 1 \in DOMAIN s /\ t[i] = s[i - 1]
  BY <1>1, <1>2, <1>3, LenProperties
<1>5. QED
  BY <1>1, <1>3, <1>4

(***************************************************************************)
(* Pushing an entry whose key is not in the list to the front adds its key *)
(* and nothing else.                                                       *)
(***************************************************************************)
LEMMA PushKeys ==
  ASSUME NEW s, EntryList(s), NEW e \in Entry, e.key \notin KeysIn(s)
  PROVE  /\ EntryList(<<e>> \o s)
         /\ Len(<<e>> \o s) = Len(s) + 1
         /\ KeysIn(<<e>> \o s) = KeysIn(s) \cup {e.key}
<1> DEFINE t == <<e>> \o s
<1>1. s \in Seq(Entry) /\ Len(s) \in Nat /\ DOMAIN s = 1..Len(s)
  BY LenProperties DEF EntryList
<1>2. t \in Seq(Entry) /\ Len(t) = Len(s) + 1
  BY <1>1, PushElements
<1>3. /\ DOMAIN t = 1..Len(s) + 1 /\ t[1] = e
      /\ \A i \in 2..Len(s) + 1 : i - 1 \in DOMAIN s /\ t[i] = s[i - 1]
  BY <1>1, PushElements
<1>4. NoKeyTwice(t)
  <2>1. \A i \in 2..Len(s) + 1 : t[i].key \in KeysIn(s) /\ t[i].key # e.key
    BY <1>3 DEF KeysIn
  <2>2. \A i, j \in 2..Len(s) + 1 : t[i].key = t[j].key => i = j
    BY <1>1, <1>3 DEF NoKeyTwice, EntryList
  <2>3. \A i \in 1..Len(s) + 1 : i = 1 \/ i \in 2..Len(s) + 1
    BY <1>1
  <2>4. QED
    BY <1>3, <2>1, <2>2, <2>3 DEF NoKeyTwice
<1>5. KeysIn(t) = KeysIn(s) \cup {e.key}
  <2>1. \A i \in DOMAIN t : t[i].key \in KeysIn(s) \cup {e.key}
    <3>1. \A i \in 1..Len(s) + 1 : i = 1 \/ i \in 2..Len(s) + 1
      BY <1>1
    <3>2. QED
      BY <1>3, <3>1 DEF KeysIn
  <2>2. \A i \in DOMAIN s : s[i].key \in KeysIn(t)
    <3>1. \A i \in DOMAIN s : i + 1 \in DOMAIN t /\ t[i + 1] = s[i]
      BY <1>1, <1>2, <1>3
    <3>2. QED
      BY <3>1 DEF KeysIn
  <2>3. e.key \in KeysIn(t)
    <3>1. 1 \in DOMAIN t /\ t[1].key = e.key
      BY <1>1, <1>3
    <3>2. QED
      BY <3>1 DEF KeysIn
  <2>4. QED
    BY <2>1, <2>2, <2>3 DEF KeysIn
<1>6. QED
  BY <1>1, <1>2, <1>4, <1>5 DEF EntryList

-----------------------------------------------------------------------------
(* The element of a key that the map has is in the list, once.             *)
LEMMA PositionOfKey ==
  ASSUME TypeOK, ListMatchesMap, NEW k \in items
  PROVE  /\ Position(k) \in 1..Len(evictList)
         /\ Element(k).key = k
         /\ Element(k) \in Entry
<1>1. DOMAIN evictList = 1..Len(evictList)
  BY LenProperties DEF TypeOK
<1>2. \E i \in DOMAIN evictList : evictList[i].key = k
  BY DEF ListMatchesMap
<1>3. Position(k) \in DOMAIN evictList /\ evictList[Position(k)].key = k
  BY <1>2 DEF Position
<1>4. QED
  BY <1>1, <1>3, ElementOfSeq DEF Element, TypeOK

(* The invariant said of a list and a set of keys, whatever the state.     *)
Consistent(list, keys) ==
  EntryList(list) /\ KeysIn(list) = keys /\ Len(list) <= Size

LEMMA ConsistentStates ==
  /\ IInv <=> Consistent(evictList, items)
  /\ IInv' <=> Consistent(evictList', items')
<1>1. ASSUME NEW list \in Seq(Entry)
      PROVE  KeysIn(list) \subseteq Key
  <2>1. \A i \in DOMAIN list : list[i] \in Entry
    BY <1>1, LenProperties, ElementOfSeq
  <2>2. QED
    BY <2>1 DEF KeysIn, Entry
<1>2. QED
  BY <1>1 DEF IInv, TypeOK, ListMatchesMap, WithinCapacity, Consistent, EntryList,
              NoKeyTwice, KeysIn

(***************************************************************************)
(* What is left of the list once the element of a key has left it.         *)
(***************************************************************************)
LEMMA WithoutKey ==
  ASSUME IInv, NEW k \in items
  PROVE  /\ EntryList(Without(k))
         /\ KeysIn(Without(k)) = items \ {k}
         /\ Len(Without(k)) = Len(evictList) - 1
<1>1. EntryList(evictList) /\ KeysIn(evictList) = items
  BY ConsistentStates DEF Consistent
<1>2. Position(k) \in 1..Len(evictList) /\ evictList[Position(k)].key = k
  BY PositionOfKey DEF Element, IInv
<1>3. QED
  BY <1>1, <1>2, RemoveAtKeys DEF Without

LEMMA RemoveElementStep ==
  ASSUME IInv, NEW k \in items, RemoveElement(k)
  PROVE  IInv'
<1>1. Len(evictList) \in Nat /\ Len(evictList) <= Size
  BY LenProperties DEF IInv, TypeOK, WithinCapacity
<1>2. Consistent(evictList', items')
  BY <1>1, WithoutKey, SizeAssumption DEF Consistent, RemoveElement
<1>3. QED
  BY <1>2, ConsistentStates

(* Moving the element of a key to the front, with its value or another.    *)
LEMMA MoveToFrontStep ==
  ASSUME IInv, NEW k \in items, NEW e \in Entry, e.key = k,
         evictList' = <<e>> \o Without(k), items' = items
  PROVE  IInv'
<1>1. Len(evictList) \in Nat /\ Len(evictList) <= Size
  BY LenProperties DEF IInv, TypeOK, WithinCapacity
<1>2. /\ EntryList(Without(k))
      /\ KeysIn(Without(k)) = items \ {k}
      /\ Len(Without(k)) = Len(evictList) - 1
  BY WithoutKey
<1>3. /\ EntryList(evictList') /\ Len(evictList') = Len(Without(k)) + 1
      /\ KeysIn(evictList') = (items \ {k}) \cup {k}
  <2>1. e.key \notin KeysIn(Without(k))
    BY <1>2
  <2>2. QED
    BY <1>2, <2>1, PushKeys
<1>4. Len(evictList') <= Size /\ (items \ {k}) \cup {k} = items'
  BY <1>1, <1>2, <1>3, SizeAssumption
<1>5. Consistent(evictList', items')
  BY <1>3, <1>4 DEF Consistent
<1>6. QED
  BY <1>5, ConsistentStates

(* Adding a key that is not there: the pushed list is longer by one, and   *)
(* its last element goes exactly when that is one too many.                *)
LEMMA AddNewStep ==
  ASSUME IInv, NEW k \in Key, NEW v \in Value, AddNew(k, v)
  PROVE  IInv'
<1> DEFINE e == [key |-> k, value |-> v]
           pushed == <<e>> \o evictList
<1>1. /\ Len(evictList) \in Nat /\ Len(evictList) <= Size
      /\ EntryList(evictList) /\ KeysIn(evictList) = items
  BY LenProperties, ConsistentStates DEF IInv, TypeOK, WithinCapacity, Consistent
<1>2. e \in Entry /\ e.key = k /\ k \notin items
  BY DEF Entry, AddNew, Contains
<1>3. /\ EntryList(pushed) /\ Len(pushed) = Len(evictList) + 1
      /\ KeysIn(pushed) = items \cup {k}
  BY <1>1, <1>2, PushKeys
<1>4. CASE Len(pushed) <= Size
  <2>1. evictList' = pushed /\ items' = items \cup {k}
    BY <1>3, <1>4, SizeAssumption DEF AddNew, EntryList
  <2>2. QED
    BY <1>3, <1>4, <2>1, ConsistentStates DEF Consistent
<1>5. CASE Len(pushed) > Size
  <2>1. /\ evictList' = SE!Front(pushed)
        /\ items' = (items \cup {k}) \ {SE!Last(pushed).key}
    BY <1>1, <1>3, <1>5, SizeAssumption DEF AddNew
  <2>2. SE!Front(pushed) = SE!RemoveAt(pushed, Len(pushed))
    <3>1. pushed \in Seq(Entry) /\ Len(pushed) # 0
      BY <1>1, <1>3 DEF EntryList
    <3> HIDE DEF pushed
    <3>2. QED
      BY <3>1, FrontIsRemoveAt
  <2>3. Len(pushed) \in 1..Len(pushed) /\ SE!Last(pushed) = pushed[Len(pushed)]
    BY <1>1, <1>3 DEF SE!Last
  <2> HIDE DEF pushed
  <2>4. /\ EntryList(SE!RemoveAt(pushed, Len(pushed)))
        /\ Len(SE!RemoveAt(pushed, Len(pushed))) = Len(pushed) - 1
        /\ KeysIn(SE!RemoveAt(pushed, Len(pushed)))
              = KeysIn(pushed) \ {pushed[Len(pushed)].key}
    BY <1>3, <2>3, RemoveAtKeys
  <2>5. Consistent(evictList', items')
    BY <1>1, <1>3, <2>1, <2>2, <2>3, <2>4, SizeAssumption DEF Consistent
  <2>6. QED
    BY <2>5, ConsistentStates
<1>6. QED
  BY <1>1, <1>3, <1>4, <1>5, SizeAssumption

-----------------------------------------------------------------------------
LEMMA InitInv == Init => IInv
<1>1. ASSUME Init
      PROVE  Consistent(evictList, items)
  <2>1. << >> \in Seq(Entry) /\ Len(<< >>) = 0 /\ DOMAIN << >> = {}
    BY EmptySeq
  <2>2. QED
    BY <1>1, <2>1, SizeAssumption DEF Init, Consistent, EntryList, NoKeyTwice, KeysIn
<1>2. QED
  BY <1>1, ConsistentStates

LEMMA NextInv == IInv /\ [Next]_vars => IInv'
<1> SUFFICES ASSUME IInv, [Next]_vars
             PROVE  IInv'
  OBVIOUS
<1>1. CASE UNCHANGED vars
  BY <1>1, ConsistentStates DEF vars
<1>2. ASSUME NEW k \in Key, NEW v \in Value, Add(k, v)
      PROVE  IInv'
  <2>1. CASE AddExisting(k, v)
    <3>1. [key |-> k, value |-> v] \in Entry /\ [key |-> k, value |-> v].key = k
      BY DEF Entry
    <3>2. QED
      BY <2>1, <3>1, MoveToFrontStep DEF AddExisting, Contains
  <2>2. CASE AddNew(k, v)
    BY <2>2, AddNewStep
  <2>3. QED
    BY <1>2, <2>1, <2>2 DEF Add
<1>3. ASSUME NEW k \in Key, NEW v \in Value, ContainsOrAdd(k, v)
      PROVE  IInv'
  BY <1>1, <1>3, AddNewStep DEF ContainsOrAdd
<1>4. ASSUME NEW k \in Key, Get(k)
      PROVE  IInv'
  <2>1. CASE Contains(k)
    <3>1. k \in items /\ evictList' = <<Element(k)>> \o Without(k) /\ items' = items
      BY <1>4, <2>1 DEF Get, Contains
    <3>2. Element(k) \in Entry /\ Element(k).key = k
      BY <3>1, PositionOfKey DEF IInv
    <3>3. QED
      BY <3>1, <3>2, MoveToFrontStep
  <2>2. CASE ~Contains(k)
    BY <1>1, <1>4, <2>2 DEF Get
  <2>3. QED
    BY <2>1, <2>2
<1>5. ASSUME NEW k \in Key, Remove(k)
      PROVE  IInv'
  BY <1>1, <1>5, RemoveElementStep DEF Remove, Contains
<1>6. CASE RemoveOldest
  <2>1. CASE evictList # << >>
    <3>1. SE!Last(evictList).key \in items
      <4>1. Len(evictList) \in DOMAIN evictList
        BY <2>1, EmptySeq, LenProperties DEF IInv, TypeOK
      <4>2. QED
        BY <4>1 DEF IInv, ListMatchesMap, SE!Last
    <3>2. QED
      BY <1>6, <2>1, <3>1, RemoveElementStep DEF RemoveOldest
  <2>2. CASE evictList = << >>
    BY <1>1, <1>6, <2>2 DEF RemoveOldest
  <2>3. QED
    BY <2>1, <2>2
<1>7. CASE Purge
  <2>1. << >> \in Seq(Entry) /\ Len(<< >>) = 0 /\ DOMAIN << >> = {}
    BY EmptySeq
  <2>2. Consistent(evictList', items')
    BY <1>7, <2>1, SizeAssumption DEF Purge, Consistent, EntryList, NoKeyTwice, KeysIn
  <2>3. QED
    BY <2>2, ConsistentStates
<1>8. QED
  BY <1>1, <1>2, <1>3, <1>4, <1>5, <1>6, <1>7 DEF Next

(* The invariant of every reachable state of the LRU cache. *)
THEOREM Invariant == Spec => []IInv
<1>1. Init => IInv
  BY InitInv
<1>2. IInv /\ [Next]_vars => IInv'
  BY NextInv
<1>3. QED
  BY <1>1, <1>2, PTL DEF Spec

(* The list holds entries and the map holds keys, always.                  *)
THEOREM TypeCorrect == Spec => []TypeOK
<1>1. IInv => TypeOK
  BY DEF IInv
<1>2. QED
  BY <1>1, Invariant, PTL

(* No sequence of Add, Get, Remove and evictions leaves a key in the list  *)
(* twice, or in one of the list and the map only.                          *)
THEOREM ListAlwaysMatchesMap == Spec => []ListMatchesMap
<1>1. IInv => ListMatchesMap
  BY DEF IInv
<1>2. QED
  BY <1>1, Invariant, PTL

(* The cache is never larger than New was told, whatever the capacity.     *)
THEOREM AlwaysWithinCapacity == Spec => []WithinCapacity
<1>1. IInv => WithinCapacity
  BY DEF IInv
<1>2. QED
  BY <1>1, Invariant, PTL
=============================================================================
