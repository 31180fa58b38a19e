-------------------------- MODULE CacheApartProofs --------------------------
(***************************************************************************)
(* Goroutines that keep to keys of their own: the accounting of diskv is   *)
(* exact, and a Get that fails leaves nothing behind.                      *)
(*                                                                         *)
(* What is needed is that the owner of a key is the only one at work on it *)
(* (KeysAreOwned), and for the second that a key the LRU cache has lost to *)
(* a Get stays lost until the file has gone too: nobody else adds it.      *)
(***************************************************************************)
EXTENDS CacheApart, CacheProviderProofs

AtWork(p) == call[p].at # "idle" /\ call[p].op # "DeleteAll"

OwnersType == owner \in [Keys -> Procs \cup {Nobody, Shared}]

KeysAreOwned == \A p \in Procs : AtWork(p) => owner[call[p].key] = p

RemovedFirst ==
  \A p \in Procs :
    call[p].op = "Get" /\ call[p].at = "DeleteDisk" => ~lru!Contains(call[p].key)

OwnInv == TransientInv /\ PlacesOfGet /\ OnlySetAdds /\ OwnersType

ApartInv == OwnInv /\ (Apart => KeysAreOwned /\ ExactInv /\ RemovedFirst)

LEMMA OwnedIsApart == KeysAreOwned => GetsApart
  BY DEF KeysAreOwned, GetsApart, InGet, AtWork

LEMMA ApartInitInv == ApartInit => ApartInv
<1> SUFFICES ASSUME ApartInit
             PROVE  ApartInv
  OBVIOUS
<1>1. Init /\ TransientInv /\ ExactInv
  BY TransientInit, EmptyDiskIsExact DEF ApartInit, Init
<1>2. \A p \in Procs : call[p].at = "idle" /\ call[p].op = "None"
  BY <1>1 DEF Init, IdleCalls
<1>3. OwnersType
  BY DEF ApartInit, OwnersType
<1>4. QED
  BY <1>1, <1>2, <1>3
     DEF ApartInv, OwnInv, PlacesOfGet, OnlySetAdds, AddingSteps, KeysAreOwned, AtWork,
         RemovedFirst

-----------------------------------------------------------------------------
(* A step of the provider, which leaves the owners alone.                  *)
LEMMA WorkKeepsOwners ==
  ASSUME OwnInv, KeysAreOwned, RemovedFirst, UNCHANGED owner, NEW p \in Procs, Step(p)
  PROVE  KeysAreOwned' /\ RemovedFirst'
<1>1. /\ StaysInCall(p) /\ call[p].at # "idle"
  BY StepStaysInCall, IdleDoesNotStep DEF OwnInv, TransientInv
<1>2. KeysAreOwned'
  BY <1>1 DEF KeysAreOwned, AtWork, StaysInCall
<1>3. ASSUME NEW q \in Procs, (call[q].op = "Get" /\ call[q].at = "DeleteDisk")'
      PROVE  ~lru!Contains(call[q].key)'
  <2>1. CASE q = p
    <3>1. StepInGet(p) /\ call[p].op = "Get"
      BY <1>1, <1>3, <2>1, StepIsInGet DEF OwnInv, StaysInCall
    <3>2. call[p].at = "DeleteLru"
      BY <1>3, <2>1, <3>1, ToDeleteDisk DEF OwnInv, TransientInv
    <3>3. call[p].key \notin items' /\ call'[p].key = call[p].key
      BY <1>1, <3>2, StepOnLruKeys DEF StaysInCall
    <3>4. QED
      BY <2>1, <3>3 DEF lru!Contains
  <2>2. CASE q # p
    <3>1. call'[q] = call[q]
      BY <1>1, <2>2 DEF StaysInCall
    <3>2. call[q].key \notin items
      BY <1>3, <3>1 DEF RemovedFirst, lru!Contains
    <3>3. ~(call[p].at = "SetAdd" /\ call[p].key = call[q].key)
      <4>1. owner[call[q].key] = q
        BY <1>3, <3>1 DEF KeysAreOwned, AtWork
      <4>2. call[p].at = "SetAdd" => owner[call[p].key] = p
        BY DEF KeysAreOwned, AtWork, OwnInv, OnlySetAdds, AddingSteps
      <4>3. QED
        BY <2>2, <4>1, <4>2
    <3>4. call[q].key \notin items'
      BY <3>2, <3>3, StepOnLruKeys
    <3>5. QED
      BY <3>1, <3>4 DEF lru!Contains
  <2>3. QED
    BY <2>1, <2>2
<1>4. QED
  BY <1>2, <1>3 DEF RemovedFirst

(* A call acquires its key, or has it already.                             *)
LEMMA CallKeepsOwners ==
  ASSUME OwnInv, Apart => KeysAreOwned /\ RemovedFirst, NEW p \in Procs, ApartCall(p)
  PROVE  /\ OwnersType'
         /\ Apart' => Apart /\ KeysAreOwned' /\ RemovedFirst'
<1>1. /\ call \in [Procs -> Call] /\ Client(p)
      /\ call[p].at = "idle" /\ UNCHANGED lruVars
      /\ \A q \in Procs \ {p} : call'[q] = call[q]
      /\ call'[p].at # "DeleteDisk"
  BY ClientBegins DEF OwnInv, TransientInv, TypeInv, ApartCall
<1>2. call' \in [Procs -> Call]
  BY <1>1, ClientType DEF OwnInv, TransientInv, TypeInv
<1>3. call'[p].key \in Keys
  BY <1>2 DEF Call
<1> DEFINE k == call'[p].key
<1>4. \/ call'[p].op = "DeleteAll" /\ UNCHANGED owner
      \/ owner[k] \in {Shared, p} /\ UNCHANGED owner
      \/ owner[k] = Nobody /\ owner' = [owner EXCEPT ![k] = p]
  BY DEF ApartCall, Acquire
<1> HIDE DEF k
<1>5. OwnersType'
  BY <1>3, <1>4 DEF OwnInv, OwnersType
<1>6. \A j \in Keys : owner'[j] = owner[j] \/ (owner[j] = Nobody /\ j = k /\ owner'[j] = p)
  BY <1>3, <1>4 DEF OwnInv, OwnersType, k
<1>7. Apart' => Apart
  BY <1>6, OwnersAssumption DEF Apart
<1>8. ASSUME Apart', NEW q \in Procs, AtWork(q)'
      PROVE  (owner[call[q].key] = q)'
  <2>1. CASE q = p
    <3>1. call'[p].op # "DeleteAll" /\ owner[k] # Shared
      BY <1>3, <1>7, <1>8, <2>1 DEF AtWork, Apart, k
    <3>2. owner'[k] = p
      BY <1>3, <1>4, <3>1 DEF OwnInv, OwnersType, k
    <3>3. QED
      BY <2>1, <3>2 DEF k
  <2>2. CASE q # p
    <3>1. call'[q] = call[q] /\ call[q].key \in Keys
      BY <1>1, <2>2, FieldTypes
    <3>2. owner[call[q].key] = q
      BY <1>7, <1>8, <3>1 DEF KeysAreOwned, AtWork
    <3>3. q # Nobody
      BY NamesAssumption
    <3>4. owner'[call[q].key] = q
      BY <1>6, <3>1, <3>2, <3>3
    <3>5. QED
      BY <3>1, <3>4
  <2>3. QED
    BY <2>1, <2>2
<1>9. Apart => RemovedFirst'
  BY <1>1 DEF RemovedFirst, lru!Contains, lruVars
<1>10. QED
  BY <1>5, <1>7, <1>8, <1>9 DEF KeysAreOwned

LEMMA ApartNextInv == ApartInv /\ [ApartNext]_apartVars => ApartInv'
<1> SUFFICES ASSUME ApartInv, [ApartNext]_apartVars
             PROVE  ApartInv'
  OBVIOUS
<1>1. [Next]_vars
  BY DEF ApartNext, ApartCall, Next, apartVars
<1>2. (TransientInv /\ PlacesOfGet /\ OnlySetAdds)'
  BY <1>1, TransientNext, PlacesNext, AddingNext DEF ApartInv, OwnInv, TransientInv
<1>3. Apart => ExactInv'
  BY <1>1, OwnedIsApart, ExactNext DEF ApartInv, OwnInv
<1>4. ASSUME UNCHANGED owner, Apart => KeysAreOwned' /\ RemovedFirst'
      PROVE  ApartInv'
  <2>1. Apart' => Apart
    BY <1>4 DEF Apart
  <2>2. OwnersType'
    BY <1>4 DEF ApartInv, OwnInv, OwnersType
  <2>3. QED
    BY <1>2, <1>3, <1>4, <2>1, <2>2 DEF ApartInv, OwnInv
<1>5. ASSUME UNCHANGED <<owner, call, lruVars>>
      PROVE  ApartInv'
  BY <1>4, <1>5 DEF ApartInv, KeysAreOwned, AtWork, RemovedFirst, lru!Contains, lruVars
<1>6. CASE UNCHANGED apartVars
  BY <1>5, <1>6 DEF apartVars, vars
<1>7. CASE UncacheStep /\ UNCHANGED owner
  BY <1>5, <1>7 DEF UncacheStep
<1>8. CASE Restart /\ UNCHANGED owner
  BY <1>4, <1>8 DEF Restart, IdleCalls, KeysAreOwned, AtWork, RemovedFirst
<1>9. ASSUME NEW p \in Procs, Step(p), UNCHANGED owner
      PROVE  ApartInv'
  BY <1>4, <1>9, WorkKeepsOwners DEF ApartInv
<1>10. ASSUME NEW p \in Procs, ApartCall(p)
       PROVE  ApartInv'
  <2>1. OwnersType' /\ (Apart' => Apart /\ KeysAreOwned' /\ RemovedFirst')
    BY <1>10, CallKeepsOwners DEF ApartInv
  <2>2. QED
    BY <1>2, <1>3, <2>1 DEF ApartInv, OwnInv
<1>11. QED
  BY <1>6, <1>7, <1>8, <1>9, <1>10 DEF ApartNext, Work

-----------------------------------------------------------------------------
(* However many goroutines there are, each with keys of its own, and       *)
(* whatever fails or is restarted, d.cacheSize is the number of chunks in  *)
(* d.cache, and never wraps.                                               *)
THEOREM ApartAlwaysExact == ApartSpec => []ExactWhenApart
<1>1. ApartInv => ExactWhenApart
  BY DEF ApartInv, ExactInv, MemoryIsExact, ExactWhenApart
<1>2. QED
  BY <1>1, ApartInitInv, ApartNextInv, PTL DEF ApartSpec

-----------------------------------------------------------------------------
(* The last step of a Get that fails is that of its Delete: every other    *)
(* way to end it returns an image or panics.                               *)
LEMMA FailsInDelete ==
  ASSUME TypeInv, NEW p \in Procs, StepInGet(p), GetFailsNow(p)
  PROVE  DeleteDisk(p)
<1>0. /\ call \in [Procs -> Call] /\ call[p].ext # "other" /\ call'[p].at = "idle"
      /\ call'[p].ret \in {"nil", "error"}
  BY DEF TypeInv, GetFailsNow
<1>1. ASSUME NEW step, NEW result,
             \/ Goto(p, step) /\ step # "idle"
             \/ DeleteThenReturn(p, result)
             \/ Return(p, "panic")
             \/ \E image : ReturnImage(p, image)
             \/ UNCHANGED call /\ call[p].at # "idle"
      PROVE  FALSE
  BY <1>0, <1>1 DEF Goto, DeleteThenReturn, Return, ReturnImage, Call
<1>2. ~GetLookup(p) /\ ~DeleteLru(p) /\ ~GetReadFails(p) /\ ~GetEOF(p) /\ ~GetLock(p)
  BY <1>1 DEF GetLookup, DeleteLru, GetReadFails, GetEOF, GetLock
<1>3. ~GetHit(p)
  BY <1>1 DEF GetHit
<1>4. ~GetOpen(p)
  <2>1. GetOpen(p) => Goto(p, "GetRead") \/ Return(p, "panic")
    BY <1>0 DEF GetOpen
  <2>2. QED
    BY <1>1, <2>1
<1>5. ~GetRead(p) /\ ~GetDecode(p)
  BY <1>1 DEF GetRead, GetDecode
<1>6. ~GetCache(p)
  BY <1>1 DEF GetCache
<1>7. QED
  BY <1>2, <1>3, <1>4, <1>5, <1>6 DEF StepInGet

LEMMA DeletedIsForgotten ==
  ASSUME TypeInv, RemovedFirst, NEW p \in Procs, DeleteDisk(p), call[p].op = "Get"
  PROVE  /\ ~lru!Contains(call[p].key)' /\ ~InCache(call[p].key)'
         /\ call[p].key \in files' => DiskRefuses(p)
<1> DEFINE k == call[p].key
<1>1. k \in Keys /\ call'[p].key = k /\ call[p].at = "DeleteDisk"
  BY FieldTypes DEF TypeInv, DeleteDisk, Return, Call
<1>2. PICK ok \in BOOLEAN : Erase(k, ok)
  BY DEF DeleteDisk
<1>3. ~lru!Contains(k)'
  BY <1>1 DEF RemovedFirst, DeleteDisk, lru!Contains, lruVars
<1>4. ~InCache(k)'
  BY <1>1, <1>2, UncacheRemoves DEF Erase, TypeInv
<1>5. ASSUME k \in files'
      PROVE  DiskRefuses(p)
  <2>1. ok = FALSE /\ RemoveFails
    BY <1>2, <1>5 DEF Erase, RemoveFiles
  <2>2. QED
    BY <1>1, <1>2, <2>1 DEF DiskRefuses
<1>6. QED
  BY <1>1, <1>3, <1>4, <1>5 DEF lru!Contains, InCache

LEMMA ApartForgets ==
  ASSUME ApartInv, Apart, [ApartNext]_apartVars, NEW p \in Procs
  PROVE  FailedGetForgets(p)
<1> SUFFICES ASSUME GetFailsNow(p)
             PROVE  /\ ~lru!Contains(call[p].key)' /\ ~InCache(call[p].key)'
                    /\ call[p].key \in files' => DiskRefuses(p)
  BY DEF FailedGetForgets
<1>0. TypeInv /\ call'[p].at # call[p].at /\ call[p].op = "Get"
  BY DEF ApartInv, OwnInv, TransientInv, GetFailsNow
<1>1. ~UNCHANGED call
  BY <1>0
<1>2. ~Restart
  BY DEF Restart, IdleCalls, GetFailsNow
<1>3. ASSUME NEW q \in Procs, ApartCall(q)
      PROVE  FALSE
  <2>1. call'[q].at # "idle" /\ \A r \in Procs \ {q} : call'[r] = call[r]
    BY <1>0, <1>3, ClientBegins DEF TypeInv, ApartCall
  <2>2. QED
    BY <1>0, <2>1 DEF GetFailsNow
<1>4. PICK q \in Procs : Step(q)
  BY <1>1, <1>2, <1>3 DEF ApartNext, apartVars, vars, Work, UncacheStep
<1>5. q = p
  BY <1>0, <1>4, StepStaysInCall DEF StaysInCall
<1>6. StepInGet(p)
  BY <1>0, <1>4, <1>5, StepIsInGet DEF ApartInv, OwnInv
<1>7. DeleteDisk(p)
  BY <1>0, <1>6, FailsInDelete
<1>8. QED
  BY <1>0, <1>7, DeletedIsForgotten DEF ApartInv

(* However many goroutines there are, each with keys of its own: a Get     *)
(* that could not decode what it found leaves nothing under its key in the *)
(* LRU cache and in memory, and a file only when it could not be removed.  *)
THEOREM FailedGetAlwaysForgets == ApartSpec => FailedGetForgetsApart
<1>1. ApartInv /\ [ApartNext]_apartVars =>
        [Apart => \A p \in Procs : FailedGetForgets(p)]_apartVars
  BY ApartForgets
<1>2. QED
  BY <1>1, ApartInitInv, ApartNextInv, PTL DEF ApartSpec, FailedGetForgetsApart
=============================================================================
