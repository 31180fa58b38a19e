---------------------------- MODULE LruUseProofs ----------------------------
(***************************************************************************)
(* The list-and-map cache implements the abstract cache of LeastRecent,    *)
(* for every set of keys and values and every capacity: what an Add or a   *)
(* RemoveOldest evicts is the key whose last Add or Get is the oldest.     *)
(*                                                                         *)
(* The argument is that the list never disagrees with the history of its   *)
(* operations: the pairs of keys in the order of the list are the pairs of *)
(* present keys in the order of their last use.  Both sides of every step  *)
(* of the refinement are then functions of the list before and after it.   *)
(***************************************************************************)
EXTENDS LruUse, LruProofs, FiniteSetTheorems

(* The keys of a list in its order, and the value a list has under a key.  *)
Before(s) ==
  {pair \in KeysIn(s) \X KeysIn(s) :
     \E i, j \in DOMAIN s : i < j /\ pair = <<s[i].key, s[j].key>>}

ElementIn(s, k) == s[CHOOSE i \in DOMAIN s : s[i].key = k]

ValuesIn(s) == [k \in KeysIn(s) |-> ElementIn(s, k).value]

(* A map with k set to v, among the keys of K.                             *)
Updated(f, k, v, K) == [x \in K |-> IF x = k THEN v ELSE f[x]]

(* The list is in the order of the history.                                *)
InOrderOfUse == newerBar = Before(evictList)

UseInv == IInv /\ InOrderOfUse

-----------------------------------------------------------------------------
(* A key that is in a list once names its element.                         *)
LEMMA ElementOfKey ==
  ASSUME NEW s, EntryList(s), NEW i \in DOMAIN s
  PROVE  /\ s[i].key \in KeysIn(s)
         /\ ElementIn(s, s[i].key) = s[i]
         /\ ValuesIn(s)[s[i].key] = s[i].value
<1> DEFINE j == CHOOSE j \in DOMAIN s : s[j].key = s[i].key
<1>1. j \in DOMAIN s /\ s[j].key = s[i].key
  OBVIOUS
<1>2. j = i
  BY <1>1 DEF EntryList, NoKeyTwice
<1>3. s[i].key \in KeysIn(s)
  BY DEF KeysIn
<1>4. ElementIn(s, s[i].key) = s[j]
  BY DEF ElementIn
<1>5. QED
  BY <1>2, <1>3, <1>4 DEF ValuesIn

LEMMA KeysAreKeys ==
  ASSUME NEW s, EntryList(s)
  PROVE  KeysIn(s) \subseteq Key
<1>1. \A i \in DOMAIN s : s[i] \in Entry
  BY LenProperties, ElementOfSeq DEF EntryList
<1>2. QED
  BY <1>1 DEF KeysIn, Entry

(***************************************************************************)
(* A list of entries with different keys has as many keys as entries.      *)
(***************************************************************************)
LEMMA CardinalityOfKeys ==
  ASSUME NEW s, EntryList(s)
  PROVE  Cardinality(KeysIn(s)) = Len(s)
<1> DEFINE f == [i \in 1..Len(s) |-> s[i].key]
<1>1. Len(s) \in Nat /\ DOMAIN s = 1..Len(s)
  BY LenProperties DEF EntryList
<1>2. f \in Bijection(1..Len(s), KeysIn(s))
  <2>1. f \in [1..Len(s) -> KeysIn(s)]
    BY <1>1 DEF KeysIn
  <2>2. \A i, j \in 1..Len(s) : f[i] = f[j] => i = j
    BY <1>1 DEF EntryList, NoKeyTwice
  <2>3. \A k \in KeysIn(s) : \E i \in 1..Len(s) : f[i] = k
    BY <1>1 DEF KeysIn
  <2>4. QED
    BY <2>1, <2>2, <2>3 DEF Bijection, Injection, Surjection, IsInjective
<1>3. QED
  BY <1>1, <1>2, FS_CountingElements DEF ExistsBijection

-----------------------------------------------------------------------------
(* Removing an element takes its key out of the order and of the values,   *)
(* and leaves the rest of both as it is.                                   *)
LEMMA RemoveAtOrder ==
  ASSUME NEW s, EntryList(s), NEW n \in 1..Len(s),
         NEW K, K = KeysIn(s) \ {s[n].key}
  PROVE  /\ Before(SE!RemoveAt(s, n)) = Before(s) \cap (K \X K)
         /\ ValuesIn(SE!RemoveAt(s, n)) = Restrict(ValuesIn(s), K)
<1> DEFINE t == SE!RemoveAt(s, n)
           at(i) == IF i < n THEN i ELSE i + 1
           to(i) == IF i < n THEN i ELSE i - 1
<1>1. s \in Seq(Entry) /\ Len(s) \in Nat /\ DOMAIN s = 1..Len(s)
  BY LenProperties DEF EntryList
<1>2. /\ t \in Seq(Entry) /\ Len(t) = Len(s) - 1
      /\ \A i \in 1..Len(s) - 1 : t[i] = IF i < n THEN s[i] ELSE s[i + 1]
  BY <1>1, RemoveAtElements
<1>3. EntryList(t) /\ KeysIn(t) = K
  BY RemoveAtKeys
<1> HIDE DEF t
<1>4. DOMAIN t = 1..Len(s) - 1
  BY <1>2, LenProperties
<1>5. \A i \in DOMAIN t : at(i) \in DOMAIN s /\ t[i] = s[at(i)]
  BY <1>1, <1>2, <1>4
<1>6. \A i \in DOMAIN s : i # n => to(i) \in DOMAIN t /\ at(to(i)) = i
  BY <1>1, <1>4
<1>7. /\ \A i, j \in DOMAIN t : i < j => at(i) < at(j)
      /\ \A i, j \in DOMAIN s : i # n /\ j # n /\ i < j => to(i) < to(j)
  BY <1>1, <1>4
<1> HIDE DEF at, to
<1>8. \A i \in DOMAIN s : s[i].key \in K => i # n
  OBVIOUS
<1>9. Before(t) \subseteq Before(s) \cap (K \X K)
  <2> SUFFICES ASSUME NEW pair \in Before(t)
               PROVE  pair \in Before(s) \cap (K \X K)
    OBVIOUS
  <2>1. PICK i, j \in DOMAIN t : i < j /\ pair = <<t[i].key, t[j].key>>
    BY DEF Before
  <2>2. pair \in K \X K
    BY <1>3 DEF Before
  <2>3. at(i) < at(j) /\ pair = <<s[at(i)].key, s[at(j)].key>>
    BY <1>5, <1>7, <2>1
  <2>4. QED
    BY <1>5, <2>1, <2>2, <2>3 DEF Before
<1>10. Before(s) \cap (K \X K) \subseteq Before(t)
  <2> SUFFICES ASSUME NEW pair \in Before(s), pair \in K \X K
               PROVE  pair \in Before(t)
    OBVIOUS
  <2>1. PICK i, j \in DOMAIN s : i < j /\ pair = <<s[i].key, s[j].key>>
    BY DEF Before
  <2>2. i # n /\ j # n
    BY <1>8, <2>1
  <2>3. /\ to(i) \in DOMAIN t /\ to(j) \in DOMAIN t /\ to(i) < to(j)
        /\ pair = <<t[to(i)].key, t[to(j)].key>>
    BY <1>5, <1>6, <1>7, <2>1, <2>2
  <2>4. QED
    BY <1>3, <2>3 DEF Before
<1>11. ValuesIn(t) = Restrict(ValuesIn(s), K)
  <2>1. ASSUME NEW k \in K
        PROVE  ValuesIn(t)[k] = ValuesIn(s)[k]
    <3>1. PICK i \in DOMAIN t : k = t[i].key
      BY <1>3 DEF KeysIn
    <3>2. ValuesIn(t)[k] = t[i].value
      BY <1>3, <3>1, ElementOfKey
    <3>3. ValuesIn(s)[k] = s[at(i)].value
      BY <1>5, <3>1, ElementOfKey
    <3>4. QED
      BY <1>5, <3>2, <3>3
  <2>2. QED
    BY <1>3, <2>1 DEF ValuesIn, Restrict
<1>12. QED
  BY <1>9, <1>10, <1>11 DEF t

(* An entry pushed to the front comes before every other one.              *)
LEMMA PushOrder ==
  ASSUME NEW s, EntryList(s), NEW e \in Entry, e.key \notin KeysIn(s)
  PROVE  /\ Before(<<e>> \o s) = Before(s) \cup ({e.key} \X KeysIn(s))
         /\ ValuesIn(<<e>> \o s) =
              Updated(ValuesIn(s), e.key, e.value, KeysIn(s) \cup {e.key})
<1> DEFINE t == <<e>> \o s
<1>1. s \in Seq(Entry) /\ Len(s) \in Nat /\ DOMAIN s = 1..Len(s)
  BY LenProperties DEF EntryList
<1>2. /\ DOMAIN t = 1..Len(s) + 1 /\ t[1] = e
      /\ \A i \in 2..Len(s) + 1 : i - 1 \in DOMAIN s /\ t[i] = s[i - 1]
  BY <1>1, PushElements
<1>3. EntryList(t) /\ KeysIn(t) = KeysIn(s) \cup {e.key}
  BY PushKeys
<1> HIDE DEF t
<1>4. \A i \in DOMAIN s : i + 1 \in 2..Len(s) + 1 /\ i + 1 \in DOMAIN t /\ t[i + 1] = s[i]
  BY <1>1, <1>2
<1>5. \A i \in DOMAIN t : i = 1 \/ i \in 2..Len(s) + 1
  BY <1>1, <1>2
<1>6. Before(t) \subseteq Before(s) \cup ({e.key} \X KeysIn(s))
  <2> SUFFICES ASSUME NEW pair \in Before(t)
               PROVE  pair \in Before(s) \cup ({e.key} \X KeysIn(s))
    OBVIOUS
  <2>1. PICK i, j \in DOMAIN t : i < j /\ pair = <<t[i].key, t[j].key>>
    BY DEF Before
  <2>2. j \in 2..Len(s) + 1
    BY <1>1, <1>2, <2>1
  <2>3. j - 1 \in DOMAIN s /\ t[j] = s[j - 1] /\ t[j].key \in KeysIn(s)
    BY <1>2, <2>2 DEF KeysIn
  <2>4. CASE i = 1
    BY <1>2, <2>1, <2>3, <2>4
  <2>5. CASE i \in 2..Len(s) + 1
    <3>1. i - 1 \in DOMAIN s /\ t[i] = s[i - 1] /\ t[i].key \in KeysIn(s)
      BY <1>2, <2>5 DEF KeysIn
    <3>2. i - 1 < j - 1
      BY <1>1, <2>1, <2>2, <2>5
    <3>3. pair \in Before(s)
      BY <2>1, <2>3, <3>1, <3>2 DEF Before
    <3>4. QED
      BY <3>3
  <2>6. QED
    BY <1>5, <2>4, <2>5
<1>7. Before(s) \subseteq Before(t)
  <2> SUFFICES ASSUME NEW pair \in Before(s)
               PROVE  pair \in Before(t)
    OBVIOUS
  <2>1. PICK i, j \in DOMAIN s : i < j /\ pair = <<s[i].key, s[j].key>>
    BY DEF Before
  <2>2. i + 1 < j + 1 /\ pair = <<t[i + 1].key, t[j + 1].key>>
    BY <1>1, <1>4, <2>1
  <2>3. QED
    BY <1>3, <1>4, <2>1, <2>2 DEF Before
<1>8. {e.key} \X KeysIn(s) \subseteq Before(t)
  <2> SUFFICES ASSUME NEW i \in DOMAIN s
               PROVE  <<e.key, s[i].key>> \in Before(t)
    BY DEF KeysIn
  <2>1. 1 < i + 1 /\ 1 \in DOMAIN t
    BY <1>1, <1>2
  <2>2. <<e.key, s[i].key>> = <<t[1].key, t[i + 1].key>>
    BY <1>2, <1>4
  <2>3. <<e.key, s[i].key>> \in KeysIn(t) \X KeysIn(t)
    BY <1>3 DEF KeysIn
  <2>4. QED
    BY <1>4, <2>1, <2>2, <2>3 DEF Before
<1>9. ValuesIn(t) = Updated(ValuesIn(s), e.key, e.value, KeysIn(s) \cup {e.key})
  <2>1. ValuesIn(t)[e.key] = e.value
    <3>1. 1 \in DOMAIN t
      BY <1>1, <1>2
    <3>2. QED
      BY <1>2, <1>3, <3>1, ElementOfKey
  <2>2. ASSUME NEW k \in KeysIn(s)
        PROVE  ValuesIn(t)[k] = ValuesIn(s)[k]
    <3>1. PICK i \in DOMAIN s : k = s[i].key
      BY DEF KeysIn
    <3>2. ValuesIn(s)[k] = s[i].value
      BY <3>1, ElementOfKey
    <3>3. ValuesIn(t)[k] = t[i + 1].value
      BY <1>3, <1>4, <3>1, ElementOfKey
    <3>4. QED
      BY <1>4, <3>2, <3>3
  <2>3. QED
    BY <1>3, <2>1, <2>2 DEF ValuesIn, Updated
<1>10. QED
  BY <1>6, <1>7, <1>8, <1>9 DEF t

(***************************************************************************)
(* The key an abstract cache loses is the one of the last element of the   *)
(* list: every other key comes before it, and it comes before none.        *)
(***************************************************************************)
LEMMA OldestIsLast ==
  ASSUME NEW s, EntryList(s), Len(s) # 0,
         NEW k \in KeysIn(s),
         \A x \in KeysIn(s) \ {k} : <<x, k>> \in Before(s)
  PROVE  k = s[Len(s)].key
<1> DEFINE last == s[Len(s)].key
<1>1. Len(s) \in DOMAIN s /\ Len(s) \in Nat /\ DOMAIN s = 1..Len(s)
  BY LenProperties DEF EntryList
<1>2. last \in KeysIn(s)
  BY <1>1 DEF KeysIn
<1>3. ASSUME k # last
      PROVE  FALSE
  <2>1. PICK i, j \in DOMAIN s : i < j /\ <<last, k>> = <<s[i].key, s[j].key>>
    BY <1>2, <1>3 DEF Before
  <2>2. i = Len(s)
    BY <1>1, <2>1 DEF EntryList, NoKeyTwice
  <2>3. QED
    BY <1>1, <2>1, <2>2
<1>4. QED
  BY <1>3

LEMMA LastIsOldest ==
  ASSUME NEW s, EntryList(s), Len(s) # 0
  PROVE  /\ s[Len(s)].key \in KeysIn(s)
         /\ \A x \in KeysIn(s) \ {s[Len(s)].key} :
               <<x, s[Len(s)].key>> \in Before(s)
<1> DEFINE last == s[Len(s)].key
<1>1. Len(s) \in DOMAIN s /\ Len(s) \in Nat /\ DOMAIN s = 1..Len(s)
  BY LenProperties DEF EntryList
<1>2. last \in KeysIn(s)
  BY <1>1 DEF KeysIn
<1>3. ASSUME NEW x \in KeysIn(s) \ {last}
      PROVE  <<x, last>> \in Before(s)
  <2>1. PICK i \in DOMAIN s : x = s[i].key
    BY DEF KeysIn
  <2>2. i # Len(s)
    BY <1>3, <2>1
  <2>3. i < Len(s)
    BY <1>1, <2>1, <2>2
  <2>4. QED
    BY <1>1, <1>2, <2>1, <2>3 DEF Before
<1>4. QED
  BY <1>2, <1>3

-----------------------------------------------------------------------------
(* The refinement mapping, and its image after a step, read off the list.  *)
LEMMA MappedStates ==
  /\ UseInv => /\ EntryList(evictList) /\ items = KeysIn(evictList)
               /\ contentBar = ValuesIn(evictList)
               /\ newerBar = Before(evictList)
               /\ Abstract!Present = items
  /\ UseInv' => /\ EntryList(evictList') /\ items' = KeysIn(evictList')
                /\ contentBar' = ValuesIn(evictList')
                /\ newerBar' = Before(evictList')
<1>1. IInv => EntryList(evictList) /\ items = KeysIn(evictList)
  BY ConsistentStates DEF Consistent
<1>2. IInv' => EntryList(evictList') /\ items' = KeysIn(evictList')
  BY ConsistentStates DEF Consistent
<1>3. \A k : Element(k) = ElementIn(evictList, k)
  BY DEF Element, Position, ElementIn
<1>4. \A k : Element(k)' = ElementIn(evictList', k)
  BY DEF Element, Position, ElementIn
<1>5. contentBar = [k \in items |-> ElementIn(evictList, k).value]
  BY <1>3 DEF contentBar
<1>6. contentBar' = [k \in items' |-> ElementIn(evictList', k).value]
  BY <1>4 DEF contentBar
<1>7. QED
  BY <1>1, <1>2, <1>5, <1>6
     DEF UseInv, InOrderOfUse, ValuesIn, Abstract!Present, contentBar

(* The order after the history took note of a use of a key.                *)
LEMMA NowUsedOrder ==
  ASSUME NEW k \in Key, NowUsed(k), items' \subseteq Key, k \in items'
  PROVE  newerBar' = (used \cap ((items' \ {k}) \X (items' \ {k})))
                        \cup ({k} \X (items' \ {k}))
  BY DEF NowUsed, newerBar

LEMMA UnusedOrder ==
  ASSUME UNCHANGED used, items' \subseteq items
  PROVE  newerBar' = newerBar \cap (items' \X items')
  BY DEF newerBar

(* The list without the element of a key is in the order it had.           *)
LEMMA WithoutOrder ==
  ASSUME UseInv, NEW k \in items
  PROVE  LET K == items \ {k} IN
         /\ Before(Without(k)) = Before(evictList) \cap (K \X K)
         /\ ValuesIn(Without(k)) = Restrict(ValuesIn(evictList), K)
<1> DEFINE K == items \ {k}
<1>1. EntryList(evictList) /\ items = KeysIn(evictList)
  BY MappedStates
<1>2. Position(k) \in 1..Len(evictList) /\ evictList[Position(k)].key = k
  BY PositionOfKey DEF Element, UseInv, IInv
<1>3. K = KeysIn(evictList) \ {evictList[Position(k)].key}
  BY <1>1, <1>2
<1>4. /\ Before(Without(k)) = Before(evictList) \cap (K \X K)
      /\ ValuesIn(Without(k)) = Restrict(ValuesIn(evictList), K)
  <2> DEFINE n == Position(k)
  <2>1. EntryList(evictList) /\ n \in 1..Len(evictList)
    BY <1>1, <1>2
  <2>2. K = KeysIn(evictList) \ {evictList[n].key}
    BY <1>3
  <2> HIDE DEF n, K
  <2>3. /\ Before(SE!RemoveAt(evictList, n)) = Before(evictList) \cap (K \X K)
        /\ ValuesIn(SE!RemoveAt(evictList, n)) = Restrict(ValuesIn(evictList), K)
    BY <2>1, <2>2, RemoveAtOrder
  <2>4. QED
    BY <2>3 DEF Without, n
<1>5. QED
  BY <1>4

-----------------------------------------------------------------------------
(***************************************************************************)
(* Every way the cache changes its list keeps it in the order of use, and  *)
(* is an operation of the abstract cache.                                  *)
(***************************************************************************)

(* Moving an element to the front when its key is used.                    *)
LEMMA MoveToFrontUse ==
  ASSUME UseInv, NEW k \in items, NEW e \in Entry, e.key = k,
         evictList' = <<e>> \o Without(k), items' = items, NowUsed(k)
  PROVE  /\ UseInv'
         /\ newerBar' = Abstract!UsedNow(k, items)
         /\ contentBar' = Updated(contentBar, k, e.value, items)
<1> DEFINE K == items \ {k}
           t == Without(k)
<1>1. IInv'
  BY MoveToFrontStep DEF UseInv
<1>2. /\ EntryList(evictList) /\ items = KeysIn(evictList) /\ items \subseteq Key
      /\ contentBar = ValuesIn(evictList) /\ newerBar = Before(evictList)
  BY MappedStates, KeysAreKeys
<1>3. EntryList(t) /\ KeysIn(t) = K
  BY WithoutKey DEF UseInv
<1>4. /\ Before(t) = Before(evictList) \cap (K \X K)
      /\ ValuesIn(t) = Restrict(ValuesIn(evictList), K)
  BY <1>2, WithoutOrder
<1> HIDE DEF t
<1>5. /\ Before(evictList') = Before(t) \cup ({k} \X K)
      /\ ValuesIn(evictList') = Updated(ValuesIn(t), k, e.value, K \cup {k})
  <2>1. e.key \notin KeysIn(t)
    BY <1>3
  <2>2. evictList' = <<e>> \o t
    BY DEF t
  <2>3. /\ Before(evictList') = Before(t) \cup ({e.key} \X KeysIn(t))
        /\ ValuesIn(evictList') =
             Updated(ValuesIn(t), e.key, e.value, KeysIn(t) \cup {e.key})
    BY <1>3, <2>1, <2>2, PushOrder
  <2>4. QED
    BY <1>3, <2>3
<1>6. newerBar' = (used \cap (K \X K)) \cup ({k} \X K)
  BY <1>2, NowUsedOrder
<1>7. used \cap (K \X K) = newerBar \cap (K \X K)
  BY DEF newerBar
<1>8. InOrderOfUse'
  BY <1>2, <1>4, <1>5, <1>6, <1>7 DEF InOrderOfUse
<1>9. UseInv'
  BY <1>1, <1>8 DEF UseInv
<1>10. newerBar' = Abstract!UsedNow(k, items)
  BY <1>6, <1>7 DEF Abstract!UsedNow, Abstract!Among
<1>11. contentBar' = Updated(contentBar, k, e.value, items)
  <2>1. contentBar' = ValuesIn(evictList') /\ K \cup {k} = items
    BY <1>9, MappedStates
  <2>2. \A x \in items : x # k => ValuesIn(t)[x] = contentBar[x]
    BY <1>2, <1>4 DEF Restrict
  <2>3. QED
    BY <1>5, <2>1, <2>2 DEF Updated
<1>12. QED
  BY <1>9, <1>10, <1>11

(* Taking an element and its key away without using any key.               *)
LEMMA RemoveElementUse ==
  ASSUME UseInv, NEW k \in items, RemoveElement(k), UNCHANGED used
  PROVE  UseInv' /\ Abstract!Keep(items \ {k})
<1> DEFINE K == items \ {k}
<1>1. IInv'
  BY RemoveElementStep DEF UseInv
<1>2. /\ EntryList(evictList) /\ items = KeysIn(evictList)
      /\ contentBar = ValuesIn(evictList) /\ newerBar = Before(evictList)
  BY MappedStates
<1>3. evictList' = Without(k) /\ items' = K
  BY DEF RemoveElement
<1>4. /\ Before(evictList') = Before(evictList) \cap (K \X K)
      /\ ValuesIn(evictList') = Restrict(ValuesIn(evictList), K)
  BY <1>2, <1>3, WithoutOrder
<1>5. newerBar' = newerBar \cap (K \X K)
  BY <1>3, UnusedOrder
<1>6. UseInv'
  BY <1>1, <1>2, <1>4, <1>5 DEF UseInv, InOrderOfUse
<1>7. contentBar' = [x \in K |-> contentBar[x]]
  BY <1>2, <1>4, <1>6, MappedStates DEF Restrict
<1>8. QED
  BY <1>5, <1>6, <1>7 DEF Abstract!Keep, Abstract!Among

(* The abstract cache's oldest key is the one at the back of the list.     *)
LEMMA OldestAtTheBack ==
  ASSUME UseInv, Len(evictList) # 0
  PROVE  /\ SE!Last(evictList).key \in items
         /\ Abstract!Oldest = SE!Last(evictList).key
<1> DEFINE last == evictList[Len(evictList)].key
<1>1. /\ EntryList(evictList) /\ items = KeysIn(evictList)
      /\ newerBar = Before(evictList) /\ Abstract!Present = items
  BY MappedStates
<1>2. last \in items /\ \A x \in items \ {last} : <<x, last>> \in newerBar
  BY <1>1, LastIsOldest
<1>3. ASSUME NEW k \in items, \A x \in items \ {k} : <<x, k>> \in newerBar
      PROVE  k = last
  BY <1>1, <1>3, OldestIsLast
<1> HIDE DEF last
<1>4. Abstract!Oldest = last
  BY <1>1, <1>2, <1>3 DEF Abstract!Oldest
<1>5. QED
  BY <1>2, <1>4 DEF last, SE!Last

(* Adding a key that is not there, with the eviction that may cost.        *)
LEMMA AddNewUse ==
  ASSUME UseInv, NEW k \in Key, NEW v \in Value, AddNew(k, v), NowUsed(k)
  PROVE  UseInv' /\ Abstract!Store(k, v)
<1> DEFINE e == [key |-> k, value |-> v]
           s == evictList
           pushed == <<e>> \o s
           full == k \notin Abstract!Present /\ Cardinality(Abstract!Present) = Size
           kept == (Abstract!Present \ (IF full THEN {Abstract!Oldest} ELSE {})) \cup {k}
<1>1. IInv'
  BY AddNewStep DEF UseInv
<1>2. /\ EntryList(s) /\ items = KeysIn(s) /\ items \subseteq Key
      /\ contentBar = ValuesIn(s) /\ newerBar = Before(s)
      /\ Abstract!Present = items
  BY MappedStates, KeysAreKeys
<1>3. /\ Len(s) \in Nat /\ Len(s) <= Size /\ Size \in Nat \ {0} /\ k \notin items
      /\ Cardinality(items) = Len(s)
  BY <1>2, LenProperties, CardinalityOfKeys, SizeAssumption
     DEF UseInv, IInv, TypeOK, WithinCapacity, AddNew, Contains
<1>4. e \in Entry /\ e.key = k /\ e.value = v
  BY DEF Entry
<1>5. /\ EntryList(pushed) /\ Len(pushed) = Len(s) + 1 /\ KeysIn(pushed) = items \cup {k}
  BY <1>2, <1>3, <1>4, PushKeys
<1>6. /\ Before(pushed) = Before(s) \cup ({k} \X items)
      /\ ValuesIn(pushed) = Updated(ValuesIn(s), k, v, items \cup {k})
  <2>1. e.key \notin KeysIn(s)
    BY <1>2, <1>3, <1>4
  <2> HIDE DEF e, s
  <2>2. /\ Before(pushed) = Before(s) \cup ({e.key} \X KeysIn(s))
        /\ ValuesIn(pushed) =
             Updated(ValuesIn(s), e.key, e.value, KeysIn(s) \cup {e.key})
    BY <1>2, <1>4, <2>1, PushOrder
  <2>3. QED
    BY <1>2, <1>4, <2>2
<1>7. items' \ {k} \subseteq items /\ k \in items' /\ items' = kept
      /\ Before(evictList') = Before(pushed) \cap (items' \X items')
      /\ ValuesIn(evictList') = Restrict(ValuesIn(pushed), items')
  <2>1. CASE Len(pushed) <= Size
    <3>1. evictList' = pushed /\ items' = items \cup {k}
      BY <1>3, <1>5, <2>1 DEF AddNew
    <3>2. ~full
      BY <1>2, <1>3, <1>5, <2>1
    <3>3. kept = items \cup {k}
      BY <1>2, <3>2
    <3>4. Before(pushed) \subseteq items' \X items'
      BY <1>5, <3>1 DEF Before
    <3>5. ValuesIn(evictList') = Restrict(ValuesIn(pushed), items')
      BY <1>6, <3>1 DEF Restrict, Updated
    <3>6. QED
      BY <3>1, <3>3, <3>4, <3>5
  <2>2. CASE ~(Len(pushed) <= Size)
    <3>1. /\ evictList' = SE!Front(pushed)
          /\ items' = (items \cup {k}) \ {SE!Last(pushed).key}
      BY <1>3, <1>5, <2>2 DEF AddNew
    <3>2. Len(pushed) = Size + 1 /\ Len(s) = Size /\ Len(pushed) \in 1..Len(pushed)
      BY <1>3, <1>5, <2>2
    <3>3. SE!Last(pushed) = SE!Last(s)
      <4>1. Len(s) + 1 \in 2..Len(s) + 1
        BY <1>3, <3>2
      <4>2. pushed[Len(s) + 1] = s[Len(s) + 1 - 1]
        BY <1>2, <1>4, <4>1, PushElements DEF EntryList
      <4>3. Len(s) + 1 - 1 = Len(s)
        BY <1>3
      <4>4. QED
        BY <1>5, <4>2, <4>3 DEF SE!Last
    <3>4. SE!Last(s).key \in items /\ Abstract!Oldest = SE!Last(s).key
      BY <1>3, <3>2, OldestAtTheBack
    <3>5. full
      BY <1>2, <1>3, <3>2
    <3>6. kept = items' /\ k \in items' /\ items' \ {k} \subseteq items
      BY <1>2, <1>3, <3>1, <3>3, <3>4, <3>5
    <3> HIDE DEF pushed, s, full, kept
    <3>7. evictList' = SE!RemoveAt(pushed, Len(pushed))
      <4>1. pushed \in Seq(Entry) /\ Len(pushed) # 0
        BY <1>3, <1>5, <3>2 DEF EntryList
      <4>2. QED
        BY <3>1, <4>1, FrontIsRemoveAt
    <3>8. items' = KeysIn(pushed) \ {pushed[Len(pushed)].key}
      BY <1>5, <3>1 DEF SE!Last
    <3>9. /\ Before(evictList') = Before(pushed) \cap (items' \X items')
          /\ ValuesIn(evictList') = Restrict(ValuesIn(pushed), items')
      <4> DEFINE K == items'
      <4>1. K = KeysIn(pushed) \ {pushed[Len(pushed)].key}
        BY <3>8
      <4> HIDE DEF K
      <4>2. /\ Before(evictList') = Before(pushed) \cap (K \X K)
            /\ ValuesIn(evictList') = Restrict(ValuesIn(pushed), K)
        BY <1>5, <3>2, <3>7, <4>1, RemoveAtOrder
      <4>3. QED
        BY <4>2 DEF K
    <3>10. QED
      BY <3>6, <3>9
  <2>3. QED
    BY <2>1, <2>2
<1> HIDE DEF pushed, s, full, kept
<1>8. newerBar' = (used \cap ((items' \ {k}) \X (items' \ {k})))
                     \cup ({k} \X (items' \ {k}))
  <2>1. items' \subseteq Key
    BY <1>2, <1>7
  <2>2. QED
    BY <1>7, <2>1, NowUsedOrder
<1>9. used \cap ((items' \ {k}) \X (items' \ {k}))
        = newerBar \cap ((items' \ {k}) \X (items' \ {k}))
  BY <1>7 DEF newerBar
<1>10. Before(evictList') = (newerBar \cap ((items' \ {k}) \X (items' \ {k})))
                               \cup ({k} \X (items' \ {k}))
  <2>1. newerBar \subseteq items \X items
    BY DEF newerBar
  <2>2. Before(evictList') = (newerBar \cup ({k} \X items)) \cap (items' \X items')
    BY <1>2, <1>6, <1>7
  <2>3. QED
    BY <1>3, <1>7, <2>1, <2>2
<1>11. UseInv'
  BY <1>1, <1>8, <1>9, <1>10 DEF UseInv, InOrderOfUse
<1>12. newerBar' = Abstract!UsedNow(k, kept)
  BY <1>7, <1>8, <1>9 DEF Abstract!UsedNow, Abstract!Among
<1>13. contentBar' = Abstract!With(k, v, kept)
  <2>1. contentBar' = Restrict(ValuesIn(pushed), items')
    BY <1>7, <1>11, MappedStates
  <2>2. \A x \in items' : ValuesIn(pushed)[x] = IF x = k THEN v ELSE contentBar[x]
    BY <1>2, <1>6, <1>7 DEF Updated
  <2>3. QED
    BY <1>7, <2>1, <2>2 DEF Abstract!With, Restrict
<1>14. Abstract!Cardinality(Abstract!Present) = Cardinality(Abstract!Present)
  BY DEF Abstract!Cardinality, Cardinality
<1>15. QED
  BY <1>11, <1>12, <1>13, <1>14 DEF Abstract!Store, full, kept

-----------------------------------------------------------------------------
LEMMA InitUse == UseInit => UseInv /\ Abstract!Init
<1> SUFFICES ASSUME UseInit
             PROVE  UseInv /\ Abstract!Init
  OBVIOUS
<1>1. IInv /\ items = {} /\ used = {} /\ evictList = << >>
  BY InitInv DEF UseInit, Init
<1>2. newerBar = {}
  BY <1>1 DEF newerBar
<1>3. Before(evictList) = {}
  <2>1. DOMAIN evictList = {}
    BY <1>1, EmptySeq
  <2>2. QED
    BY <2>1 DEF Before
<1>4. contentBar = [k \in {} |-> {}]
  BY <1>1 DEF contentBar
<1>5. QED
  BY <1>1, <1>2, <1>3, <1>4 DEF UseInv, InOrderOfUse, Abstract!Init

(* A step that changes neither the list nor the history.                   *)
LEMMA NothingUsed ==
  ASSUME UseInv, UNCHANGED useVars
  PROVE  UseInv' /\ UNCHANGED Abstract!vars
<1>1. IInv' /\ evictList' = evictList /\ items' = items /\ used' = used
  BY NextInv DEF UseInv, useVars, vars
<1>2. newerBar' = newerBar
  BY <1>1 DEF newerBar
<1>3. UseInv'
  BY <1>1, <1>2 DEF UseInv, InOrderOfUse
<1>4. contentBar' = contentBar
  BY <1>1, <1>3, MappedStates
<1>5. QED
  BY <1>2, <1>3, <1>4 DEF Abstract!vars

(***************************************************************************)
(* Every step of the cache keeps its list in the order of use, and is a    *)
(* step of the abstract cache or changes nothing of it.                    *)
(***************************************************************************)
LEMMA NextUse ==
  ASSUME UseInv, [UseNext]_useVars
  PROVE  UseInv' /\ [Abstract!Next]_Abstract!vars
<1>1. CASE UNCHANGED useVars
  BY <1>1, NothingUsed
<1>2. items \subseteq Key /\ Abstract!Present = items
  BY MappedStates DEF UseInv, IInv, TypeOK
<1>3. ASSUME NEW k \in Key, NEW v \in Value, Add(k, v), NowUsed(k)
      PROVE  UseInv' /\ Abstract!Next
  <2>1. CASE AddExisting(k, v)
    <3> DEFINE e == [key |-> k, value |-> v]
    <3>1. /\ k \in items /\ e \in Entry /\ e.key = k /\ e.value = v
          /\ evictList' = <<e>> \o Without(k) /\ items' = items
      BY <2>1 DEF AddExisting, Contains, Entry
    <3> HIDE DEF e
    <3>2. /\ UseInv'
          /\ newerBar' = Abstract!UsedNow(k, items)
          /\ contentBar' = Updated(contentBar, k, v, items)
      BY <1>3, <3>1, MoveToFrontUse
    <3>3. Abstract!Store(k, v)
      <4>1. (items \ {}) \cup {k} = items
        BY <3>1
      <4>2. contentBar' = Abstract!With(k, v, items)
        BY <3>2 DEF Abstract!With, Updated
      <4>3. QED
        BY <1>2, <3>1, <3>2, <4>1, <4>2 DEF Abstract!Store
    <3>4. QED
      BY <3>2, <3>3 DEF Abstract!Next
  <2>2. CASE AddNew(k, v)
    BY <1>3, <2>2, AddNewUse DEF Abstract!Next
  <2>3. QED
    BY <1>3, <2>1, <2>2 DEF Add
<1>4. ASSUME NEW k \in Key, NEW v \in Value, ContainsOrAdd(k, v),
             IF Contains(k) THEN UNCHANGED used ELSE NowUsed(k)
      PROVE  UseInv' /\ [Abstract!Next]_Abstract!vars
  <2>1. CASE Contains(k)
    <3>1. UNCHANGED useVars
      BY <1>4, <2>1 DEF ContainsOrAdd, AddNew, useVars
    <3>2. QED
      BY <3>1, NothingUsed
  <2>2. CASE ~Contains(k)
    <3>1. AddNew(k, v) /\ NowUsed(k)
      BY <1>4, <2>2 DEF ContainsOrAdd
    <3>2. QED
      BY <3>1, AddNewUse DEF Abstract!Next
  <2>3. QED
    BY <2>1, <2>2
<1>5. ASSUME NEW k \in Key, Get(k),
             IF Contains(k) THEN NowUsed(k) ELSE UNCHANGED used
      PROVE  UseInv' /\ [Abstract!Next]_Abstract!vars
  <2>1. CASE Contains(k)
    <3>1. /\ k \in items /\ NowUsed(k) /\ items' = items
          /\ evictList' = <<Element(k)>> \o Without(k)
      BY <1>5, <2>1 DEF Get, Contains
    <3>2. Element(k) \in Entry /\ Element(k).key = k
      BY <3>1, PositionOfKey DEF UseInv, IInv
    <3>3. /\ UseInv'
          /\ newerBar' = Abstract!UsedNow(k, items)
          /\ contentBar' = Updated(contentBar, k, Element(k).value, items)
      BY <3>1, <3>2, MoveToFrontUse
    <3>4. contentBar' = contentBar
      BY <3>1, <3>3 DEF contentBar, Updated
    <3>5. Abstract!Use(k)
      BY <1>2, <3>1, <3>3, <3>4 DEF Abstract!Use
    <3>6. QED
      BY <3>3, <3>5 DEF Abstract!Next
  <2>2. CASE ~Contains(k)
    <3>1. UNCHANGED useVars
      BY <1>5, <2>2 DEF Get, useVars
    <3>2. QED
      BY <3>1, NothingUsed
  <2>3. QED
    BY <2>1, <2>2
<1>6. ASSUME NEW k \in Key, Remove(k), UNCHANGED used
      PROVE  UseInv' /\ [Abstract!Next]_Abstract!vars
  <2>1. CASE Contains(k)
    <3>1. k \in items /\ RemoveElement(k)
      BY <1>6, <2>1 DEF Remove, Contains
    <3>2. UseInv' /\ Abstract!Keep(items \ {k})
      BY <1>6, <3>1, RemoveElementUse
    <3>3. Abstract!Forget(k)
      BY <1>2, <3>1, <3>2 DEF Abstract!Forget
    <3>4. QED
      BY <3>2, <3>3 DEF Abstract!Next
  <2>2. CASE ~Contains(k)
    <3>1. UNCHANGED useVars
      BY <1>6, <2>2 DEF Remove, useVars
    <3>2. QED
      BY <3>1, NothingUsed
  <2>3. QED
    BY <2>1, <2>2
<1>7. ASSUME RemoveOldest, UNCHANGED used
      PROVE  UseInv' /\ [Abstract!Next]_Abstract!vars
  <2>1. CASE evictList # << >>
    <3>1. Len(evictList) # 0
      BY <2>1, EmptySeq, LenProperties DEF UseInv, IInv, TypeOK
    <3>2. /\ SE!Last(evictList).key \in items
          /\ Abstract!Oldest = SE!Last(evictList).key
      BY <3>1, OldestAtTheBack
    <3>3. UseInv' /\ Abstract!Keep(items \ {Abstract!Oldest})
      BY <1>7, <2>1, <3>2, RemoveElementUse DEF RemoveOldest
    <3>4. Abstract!ForgetOldest
      BY <1>2, <3>2, <3>3 DEF Abstract!ForgetOldest
    <3>5. QED
      BY <3>3, <3>4 DEF Abstract!Next
  <2>2. CASE evictList = << >>
    <3>1. UNCHANGED useVars
      BY <1>7, <2>2 DEF RemoveOldest, useVars
    <3>2. QED
      BY <3>1, NothingUsed
  <2>3. QED
    BY <2>1, <2>2
<1>8. ASSUME Purge, UNCHANGED used
      PROVE  UseInv' /\ Abstract!Next
  <2>1. evictList' = << >> /\ items' = {} /\ DOMAIN << >> = {}
    BY <1>8, EmptySeq DEF Purge
  <2>2. [Next]_vars
    BY <1>8 DEF Next
  <2>3. IInv'
    BY <2>2, NextInv DEF UseInv
  <2>4. newerBar' = {} /\ newerBar' = Abstract!Among({})
    BY <2>1 DEF newerBar, Abstract!Among
  <2>5. KeysIn(evictList') = {} /\ Before(evictList') = {}
    BY <2>1 DEF KeysIn, Before
  <2>6. UseInv'
    BY <2>3, <2>4, <2>5 DEF UseInv, InOrderOfUse
  <2>7. contentBar' = [x \in {} |-> contentBar[x]]
    BY <2>5, <2>6, MappedStates DEF ValuesIn
  <2>8. Abstract!ForgetAll
    BY <2>4, <2>7 DEF Abstract!ForgetAll, Abstract!Keep
  <2>9. QED
    BY <2>6, <2>8 DEF Abstract!Next
<1>9. QED
  BY <1>1, <1>3, <1>4, <1>5, <1>6, <1>7, <1>8 DEF UseNext

-----------------------------------------------------------------------------
(***************************************************************************)
(* golang-lru is a least-recently-used cache: what is under a key is what  *)
(* was last added under it, and what it evicts is what was used longest    *)
(* ago, whatever the keys, the values and the capacity.                    *)
(***************************************************************************)
THEOREM ImplementsLeastRecentUse == UseSpec => ImplementsLeastRecent
<1>1. UseInit => UseInv /\ Abstract!Init
  BY InitUse
<1>2. UseInv /\ [UseNext]_useVars => UseInv' /\ [Abstract!Next]_Abstract!vars
  BY NextUse
<1>3. QED
  BY <1>1, <1>2, PTL DEF UseSpec, ImplementsLeastRecent, Abstract!Spec
=============================================================================
