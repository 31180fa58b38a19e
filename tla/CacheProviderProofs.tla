------------------------ MODULE CacheProviderProofs ------------------------
(***************************************************************************)
(* For any number of goroutines, keys, values and chunks, with failures    *)
(* and restarts: the types of the stores and of the calls, what diskv      *)
(* keeps in memory, what the files hold, what Get returns, and what diskv  *)
(* accounts for while no two goroutines get one key, and what Contains and *)
(* Get say to a goroutine alone.                                           *)
(***************************************************************************)
EXTENDS CacheProvider, SequenceTheorems, FiniteSetTheorems, TLAPS

-----------------------------------------------------------------------------
(***************************************************************************)
(* Every action of the file store keeps its types, whatever the module     *)
(* that composes them.  The two facts that are not immediate: the length   *)
(* subtracted from the accounting is a number, even where the accounting   *)
(* wraps, and a siphon never reads more than a complete value.             *)
(***************************************************************************)

LEMMA ModulusPositive ==
  Modulus \in Nat /\ Modulus > 0 /\ Chunks \in Nat /\ CacheSizeMax \in Nat
  BY SizesAssumption, ChunksAssumption

LEMMA UncacheType ==
  ASSUME TypeOKDisk, NEW k \in Keys, NEW n \in Nat, Uncache(k, n)
  PROVE  cached' \in [Keys -> NotCached..Chunks] /\ cacheSize' \in 0..Modulus - 1
<1>1. NotCached \in NotCached..Chunks
  BY ModulusPositive DEF NotCached
<1>2. cached' \in [Keys -> NotCached..Chunks]
  BY <1>1 DEF Uncache, TypeOKDisk
<1>3. cacheSize - n \in Int
  BY ModulusPositive DEF TypeOKDisk
<1>4. QED
  BY <1>2, <1>3, ModulusPositive DEF Uncache

LEMMA CachedLength ==
  ASSUME TypeOKDisk, NEW k \in Keys, InCache(k)
  PROVE  cached[k] \in 0..Chunks
  BY ModulusPositive DEF TypeOKDisk, InCache, NotCached

LEMMA BustCacheType ==
  ASSUME TypeOKDisk, NEW k \in Keys, BustCache(k)
  PROVE  cached' \in [Keys -> NotCached..Chunks] /\ cacheSize' \in 0..Modulus - 1
<1>1. CASE InCache(k)
  <2>1. cached[k] \in Nat /\ Uncache(k, cached[k])
    BY <1>1, CachedLength DEF BustCache
  <2>2. QED
    BY <2>1, UncacheType
<1>2. CASE ~InCache(k)
  BY <1>2 DEF BustCache, TypeOKDisk
<1>3. QED
  BY <1>1, <1>2

LEMMA EmptyBytes == << >> \in Bytes /\ << >> \in AtMostOneValue
  BY ModulusPositive DEF Bytes, AtMostOneValue

LEMMA NoStreamType == NoStream \in Stream
  BY EmptyBytes DEF NoStream, Stream

LEMMA ContentType ==
  ASSUME TypeOKDisk, NEW p \in Procs
  PROVE  Content(p) \in Bytes
  BY DEF TypeOKDisk, Content, Stream

LEMMA WriteOpenType ==
  ASSUME TypeOKDisk, NEW p \in Procs, NEW k \in Keys, WriteOpen(p, k)
  PROVE  TypeOKDisk'
  BY EmptyBytes DEF WriteOpen, TypeOKDisk

LEMMA WriteChunkType ==
  ASSUME TypeOKDisk, NEW p \in Procs, NEW k \in Keys, NEW v \in Values, WriteChunk(p, k, v)
  PROVE  TypeOKDisk'
<1>1. Append(data[k], v) \in Bytes
  BY DEF TypeOKDisk, Bytes
<1>2. QED
  BY <1>1 DEF WriteChunk, TypeOKDisk

LEMMA WriteCloseType ==
  ASSUME TypeOKDisk, NEW p \in Procs, NEW k \in Keys, WriteClose(p, k)
  PROVE  TypeOKDisk'
<1>1. BustCache(k)
  BY DEF WriteClose
<1>2. QED
  BY <1>1, BustCacheType DEF WriteClose, TypeOKDisk

LEMMA WriteFailsType ==
  ASSUME TypeOKDisk, NEW p \in Procs, WriteFails(p)
  PROVE  TypeOKDisk'
  BY DEF WriteFails, TypeOKDisk

LEMMA OpenStreamType ==
  ASSUME TypeOKDisk, NEW p \in Procs, NEW k \in Keys, NEW found \in BOOLEAN,
         OpenStream(p, k, found)
  PROVE  TypeOKDisk'
<1>1. stream' \in [Procs -> Stream]
  <2>1. [from |-> k, got |-> << >>, left |-> << >>] \in Stream
    BY EmptyBytes DEF Stream
  <2>2. QED
    BY <2>1, NoStreamType DEF OpenStream, TypeOKDisk
<1>2. uncaching' \in [Keys -> [0..Chunks -> Nat]]
  <2>1. CASE InCache(k)
    <3>1. cached[k] \in 0..Chunks
      BY <2>1, CachedLength
    <3>2. uncaching' = [uncaching EXCEPT ![k][cached[k]] = @ + 1]
      BY <2>1 DEF OpenStream
    <3>3. PICK n \in 0..Chunks : n = cached[k]
      BY <3>1
    <3>4. uncaching[k][n] \in Nat
      BY DEF TypeOKDisk
    <3>5. uncaching[k][n] + 1 \in Nat
      BY <3>4
    <3>6. uncaching' = [uncaching EXCEPT ![k][n] = uncaching[k][n] + 1]
      BY <3>2, <3>3
    <3>7. QED
      BY <3>5, <3>6 DEF TypeOKDisk
  <2>2. CASE ~InCache(k)
    BY <2>2 DEF OpenStream, TypeOKDisk
  <2>3. QED
    BY <2>1, <2>2
<1>3. QED
  BY <1>1, <1>2 DEF OpenStream, TypeOKDisk

LEMMA UncacheLaterType ==
  ASSUME TypeOKDisk, NEW k \in Keys, NEW n \in 0..Chunks, UncacheLater(k, n)
  PROVE  TypeOKDisk'
<1>1. cached' \in [Keys -> NotCached..Chunks] /\ cacheSize' \in 0..Modulus - 1
  BY UncacheType DEF UncacheLater
<1>2. uncaching' \in [Keys -> [0..Chunks -> Nat]]
  <2>1. uncaching[k][n] \in Nat /\ uncaching[k][n] > 0
    BY DEF UncacheLater, TypeOKDisk
  <2>2. uncaching[k][n] - 1 \in Nat
    BY <2>1
  <2>3. QED
    BY <2>2 DEF UncacheLater, TypeOKDisk
<1>3. QED
  BY <1>1, <1>2 DEF UncacheLater, TypeOKDisk

LEMMA ReadChunkType ==
  ASSUME TypeOKDisk, NEW p \in Procs, Len(stream[p].got) < Chunks, ReadChunk(p)
  PROVE  TypeOKDisk'
<1> DEFINE got == stream[p].got
           more == Append(got, Content(p)[Len(got) + 1])
<1>1. /\ stream[p] \in Stream /\ got \in Seq(Values) /\ Len(got) \in Nat
      /\ Content(p) \in Seq(Values) /\ Len(Content(p)) \in Nat
  BY ContentType DEF TypeOKDisk, Stream, Bytes, AtMostOneValue
<1>2. Len(got) + 1 \in 1..Len(Content(p))
  BY <1>1 DEF ReadChunk, AtEOF
<1>3. Content(p)[Len(got) + 1] \in Values
  BY <1>1, <1>2, ElementOfSeq
<1>4. more \in Seq(Values) /\ Len(more) = Len(got) + 1
  BY <1>1, <1>3, AppendProperties
<1>5. more \in AtMostOneValue
  <2> HIDE DEF more
  <2>1. Len(more) <= Chunks
    BY <1>1, <1>4, ModulusPositive
  <2>2. QED
    BY <1>4, <2>1 DEF AtMostOneValue, Bytes
<1>6. stream' = [stream EXCEPT ![p].got = more]
  BY DEF ReadChunk
<1> HIDE DEF more
<1>7. stream' \in [Procs -> Stream]
  BY <1>5, <1>6 DEF TypeOKDisk, Stream
<1>8. QED
  BY <1>7 DEF ReadChunk, TypeOKDisk

LEMMA DropStreamType ==
  ASSUME TypeOKDisk, NEW p \in Procs, DropStream(p)
  PROVE  TypeOKDisk'
  BY NoStreamType DEF DropStream, TypeOKDisk

LEMMA LockCacheType ==
  ASSUME TypeOKDisk, NEW p \in Procs, LockCache(p)
  PROVE  TypeOKDisk'
  BY DEF LockCache, TypeOKDisk

LEMMA EvictOneType ==
  ASSUME TypeOKDisk, NEW p \in Procs, NEW n, EvictOne(p, n)
  PROVE  TypeOKDisk'
<1>1. PICK k \in Keys : InCache(k) /\ Uncache(k, cached[k])
  BY DEF EvictOne
<1>2. cached[k] \in Nat
  BY <1>1, CachedLength
<1>3. QED
  BY <1>1, <1>2, UncacheType DEF EvictOne, TypeOKDisk

LEMMA CacheStoreType ==
  ASSUME TypeOKDisk, NEW p \in Procs, NEW k \in Keys, NEW n \in 0..Chunks, CacheStore(p, k, n)
  PROVE  TypeOKDisk'
<1>1. n \in NotCached..Chunks
  BY ModulusPositive DEF NotCached
<1>2. (cacheSize + n) % Modulus \in 0..Modulus - 1
  BY ModulusPositive DEF TypeOKDisk
<1>3. QED
  BY <1>1, <1>2, NoStreamType DEF CacheStore, TypeOKDisk

LEMMA CacheNothingType ==
  ASSUME TypeOKDisk, NEW p \in Procs, CacheNothing(p)
  PROVE  TypeOKDisk'
  BY NoStreamType DEF CacheNothing, TypeOKDisk

LEMMA RemoveFilesType ==
  ASSUME TypeOKDisk, NEW S, RemoveFiles(S)
  PROVE  files' \subseteq Keys /\ data' \in [Keys -> Bytes] /\ stream' \in [Procs -> Stream]
<1>1. ASSUME NEW p \in Procs
      PROVE  [stream[p] EXCEPT !.from = Unlinked, !.left = Content(p)] \in Stream
  BY ContentType DEF TypeOKDisk, Stream
<1>2. stream' \in [Procs -> Stream]
  BY <1>1 DEF RemoveFiles, TypeOKDisk
<1>3. QED
  BY <1>2, EmptyBytes DEF RemoveFiles, TypeOKDisk

LEMMA EraseType ==
  ASSUME TypeOKDisk, NEW k \in Keys, NEW ok, Erase(k, ok)
  PROVE  TypeOKDisk'
<1>1. cached' \in [Keys -> NotCached..Chunks] /\ cacheSize' \in 0..Modulus - 1
  BY BustCacheType DEF Erase
<1>2. files' \subseteq Keys /\ data' \in [Keys -> Bytes] /\ stream' \in [Procs -> Stream]
  BY RemoveFilesType DEF Erase, TypeOKDisk
<1>3. QED
  BY <1>1, <1>2 DEF Erase, TypeOKDisk

LEMMA NothingCachedType ==
  NothingCached \in [Keys -> NotCached..Chunks] /\ 0 \in 0..Modulus - 1
  BY ModulusPositive DEF NothingCached, NotCached

LEMMA EraseAllType ==
  ASSUME TypeOKDisk, NEW ok, EraseAll(ok)
  PROVE  TypeOKDisk'
<1>1. files' \subseteq Keys /\ data' \in [Keys -> Bytes] /\ stream' \in [Procs -> Stream]
  BY RemoveFilesType DEF EraseAll
<1>2. QED
  BY <1>1, NothingCachedType DEF EraseAll, TypeOKDisk

LEMMA EmptyDiskType ==
  NoStreams \in [Procs -> Stream] /\ NoneUncaching \in [Keys -> [0..Chunks -> Nat]]
  BY NoStreamType DEF NoStreams, NoneUncaching

LEMMA RestartDiskType ==
  ASSUME TypeOKDisk, RestartDisk
  PROVE  TypeOKDisk'
  BY NothingCachedType, EmptyDiskType DEF RestartDisk, TypeOKDisk

LEMMA InitDiskType == InitDisk => TypeOKDisk
  BY NothingCachedType, EmptyDiskType, EmptyBytes DEF InitDisk, TypeOKDisk

-----------------------------------------------------------------------------
(* The theorems of the LRU cache, for the cache of this module.            *)
LP == INSTANCE LruProofs WITH Key <- Keys, Value <- Bytes, Size <- LruSize

LEMMA LruStepInv ==
  ASSUME LP!IInv,
         \/ UNCHANGED lruVars
         \/ \E k \in Keys : lru!Get(k) \/ lru!Remove(k)
         \/ \E k \in Keys, v \in Bytes : lru!Add(k, v)
         \/ lru!RemoveOldest \/ lru!Purge
  PROVE  LP!IInv'
<1>1. LP!SizeAssumption
  BY LruSizeAssumption DEF LP!SizeAssumption
<1>2. LP!IInv /\ [LP!Next]_(LP!vars) => LP!IInv'
  BY <1>1, LP!NextInv
<1>3. \A k : lru!Without(k) = LP!Without(k) /\ lru!Element(k) = LP!Element(k)
  BY DEF lru!Without, LP!Without, lru!Position, LP!Position, lru!Element, LP!Element,
         lru!SE!RemoveAt, LP!SE!RemoveAt
<1>4. ASSUME NEW k, lru!RemoveElement(k)
      PROVE  LP!RemoveElement(k)
  BY <1>3, <1>4 DEF lru!RemoveElement, LP!RemoveElement
<1>5. ASSUME NEW k, lru!Get(k)
      PROVE  LP!Get(k)
  BY <1>3, <1>5 DEF lru!Get, LP!Get, lru!Contains, LP!Contains, lru!vars, LP!vars
<1>6. ASSUME NEW k, lru!Remove(k)
      PROVE  LP!Remove(k)
  BY <1>4, <1>6 DEF lru!Remove, LP!Remove, lru!Contains, LP!Contains, lru!vars, LP!vars
<1>7. ASSUME NEW k, NEW v, lru!Add(k, v)
      PROVE  LP!Add(k, v)
  <2>1. ASSUME lru!AddExisting(k, v)
        PROVE  LP!AddExisting(k, v)
    BY <1>3, <2>1 DEF lru!AddExisting, LP!AddExisting, lru!Contains, LP!Contains
  <2>2. ASSUME lru!AddNew(k, v)
        PROVE  LP!AddNew(k, v)
    BY <2>2 DEF lru!AddNew, LP!AddNew, lru!Contains, LP!Contains, lru!SE!Front,
                LP!SE!Front, lru!SE!Last, LP!SE!Last
  <2>3. QED
    BY <1>7, <2>1, <2>2 DEF lru!Add, LP!Add
<1>8. ASSUME lru!RemoveOldest
      PROVE  LP!RemoveOldest
  BY <1>4, <1>8 DEF lru!RemoveOldest, LP!RemoveOldest, lru!SE!Last, LP!SE!Last, lru!vars,
                    LP!vars
<1>9. ASSUME lru!Purge
      PROVE  LP!Purge
  BY <1>9 DEF lru!Purge, LP!Purge
<1>10. QED
  BY <1>2, <1>5, <1>6, <1>7, <1>8, <1>9 DEF LP!Next, LP!vars, lruVars

-----------------------------------------------------------------------------
(***************************************************************************)
(* The type invariant.  lru!TypeOK is not inductive on its own: an element *)
(* leaves the list at the position of its key, which exists only while the *)
(* list and the map agree.                                                 *)
(***************************************************************************)
TypeInv == TypeOKDisk /\ LP!IInv /\ call \in [Procs -> Call]

LEMMA GotoType ==
  ASSUME call \in [Procs -> Call], NEW p \in Procs, NEW step \in Steps, Goto(p, step)
  PROVE  call' \in [Procs -> Call]
  BY DEF Goto, Call

LEMMA ReturnType ==
  ASSUME call \in [Procs -> Call], NEW p \in Procs, NEW result \in Results,
         Return(p, result)
  PROVE  call' \in [Procs -> Call]
<1>1. call' = [call EXCEPT ![p] = [call[p] EXCEPT !.at = "idle", !.ret = result]]
  BY DEF Return
<1>2. [call[p] EXCEPT !.at = "idle", !.ret = result] \in Call
  BY DEF Call, Steps
<1>3. QED
  BY <1>1, <1>2

LEMMA ReturnImageType ==
  ASSUME call \in [Procs -> Call], NEW p \in Procs, NEW image \in Values \cup {Garbled},
         ReturnImage(p, image)
  PROVE  call' \in [Procs -> Call]
<1>1. call' = [call EXCEPT ![p] = [call[p] EXCEPT !.at = "idle", !.ret = "image", !.img = image]]
  BY DEF ReturnImage
<1>2. [call[p] EXCEPT !.at = "idle", !.ret = "image", !.img = image] \in Call
  BY DEF Call, Steps, Results
<1>3. QED
  BY <1>1, <1>2

LEMMA DeleteThenReturnType ==
  ASSUME call \in [Procs -> Call], NEW p \in Procs, NEW result \in Results,
         DeleteThenReturn(p, result)
  PROVE  call' \in [Procs -> Call]
<1>1. call' = [call EXCEPT ![p] = [call[p] EXCEPT !.at = "DeleteLru", !.ret = result]]
  BY DEF DeleteThenReturn
<1>2. [call[p] EXCEPT !.at = "DeleteLru", !.ret = result] \in Call
  BY DEF Call, Steps
<1>3. QED
  BY <1>1, <1>2

LEMMA BeginType ==
  ASSUME call \in [Procs -> Call], NEW p \in Procs, NEW operation \in Operations,
         NEW step \in Steps, NEW k \in Keys, NEW ext \in Extensions,
         NEW src \in AtMostOneValue, Begin(p, operation, step, k, ext, src)
  PROVE  call' \in [Procs -> Call]
  BY DEF Begin, Call, Results

LEMMA FieldTypes ==
  ASSUME call \in [Procs -> Call], NEW p \in Procs
  PROVE  /\ call[p].key \in Keys /\ call[p].ext \in Extensions
         /\ call[p].src \in AtMostOneValue /\ call[p].ret \in Results
  BY DEF Call

LEMMA AnyKeyType == AnyKey \in Keys
  BY ClientAssumption DEF AnyKey

LEMMA IdleCallsType == IdleCalls \in [Procs -> Call]
  BY AnyKeyType, EmptyBytes DEF IdleCalls, Call, Steps, Operations, Extensions, Results

LEMMA WholeType ==
  ASSUME NEW v \in Values
  PROVE  Whole(v) \in AtMostOneValue /\ Len(Whole(v)) = Chunks
  BY ModulusPositive DEF Whole, AtMostOneValue, Bytes

LEMMA DecodedType ==
  ASSUME NEW encoding, NEW bytes, NEW image \in Decoded(encoding, bytes)
  PROVE  image \in Values \cup {Garbled}
  BY DEF Decoded, Decodable

LEMMA DiskUnchanged == TypeOKDisk /\ UNCHANGED diskVars => TypeOKDisk'
  BY DEF TypeOKDisk, diskVars

LEMMA LruUnchanged == LP!IInv /\ UNCHANGED lruVars => LP!IInv'
  BY LruStepInv

(***************************************************************************)
(* A step of an operation keeps the types of the stores and of the calls.  *)
(***************************************************************************)
LEMMA StepType ==
  ASSUME TypeInv, NEW p \in Procs, Step(p)
  PROVE  TypeInv'
<1> DEFINE c == call[p]
<1> USE DEF TypeInv
<1>0. /\ c \in Call /\ c.key \in Keys /\ c.ext \in Extensions
      /\ c.src \in AtMostOneValue /\ c.src \in Bytes /\ c.ret \in Results
      /\ stream[p].got \in AtMostOneValue /\ Len(stream[p].got) \in 0..Chunks
  <2>1. stream[p].got \in AtMostOneValue
    BY DEF TypeOKDisk, Stream
  <2>2. Len(stream[p].got) \in 0..Chunks
    BY <2>1, LenProperties, ModulusPositive DEF AtMostOneValue, Bytes
  <2>3. QED
    BY <2>1, <2>2, FieldTypes DEF AtMostOneValue
<1> HIDE DEF c
<1>1. CASE ContainsLru(p)
  <2>1. Return(p, "true") \/ Goto(p, "ContainsDisk")
    BY <1>1 DEF ContainsLru
  <2>2. QED
    BY <1>1, <2>1, DiskUnchanged, LruUnchanged, ReturnType, GotoType
       DEF ContainsLru, Results, Steps
<1>2. CASE ContainsDisk(p)
  <2>1. Return(p, "true") \/ Return(p, "false")
    BY <1>2 DEF ContainsDisk
  <2>2. QED
    BY <1>2, <2>1, DiskUnchanged, LruUnchanged, ReturnType DEF ContainsDisk, Results
<1>3. CASE GetLookup(p)
  <2>1. Goto(p, "GetHit") \/ Goto(p, "GetOpen")
    BY <1>3 DEF GetLookup
  <2>2. QED
    BY <1>3, <2>1, DiskUnchanged, LruUnchanged, GotoType DEF GetLookup, Steps
<1>4. CASE GetHit(p)
  <2>1. \/ Return(p, "panic") \/ DeleteThenReturn(p, "nil")
        \/ \E image \in Values \cup {Garbled} : ReturnImage(p, image)
    BY <1>4, DecodedType DEF GetHit
  <2>2. call' \in [Procs -> Call]
    BY <2>1, ReturnType, ReturnImageType, DeleteThenReturnType DEF Results
  <2>3. LP!IInv'
    BY <1>0, <1>4, LruStepInv DEF GetHit, c
  <2>4. QED
    BY <1>4, <2>2, <2>3, DiskUnchanged DEF GetHit
<1>5. CASE GetOpen(p)
  <2>1. \E found \in BOOLEAN : OpenStream(p, c.key, found)
    BY <1>5 DEF GetOpen, c
  <2>2. \/ Goto(p, "GetRead") \/ Return(p, "panic") \/ Return(p, "nil")
        \/ DeleteThenReturn(p, "error")
    BY <1>5 DEF GetOpen
  <2>3. call' \in [Procs -> Call]
    BY <2>2, GotoType, ReturnType, DeleteThenReturnType DEF Results, Steps
  <2>4. QED
    BY <1>0, <1>5, <2>1, <2>3, OpenStreamType, LruUnchanged DEF GetOpen
<1>6. CASE GetRead(p)
  <2>1. Len(stream[p].got) < Chunks
    BY <1>0, <1>6, ModulusPositive DEF GetRead, DecoderDone
  <2>2. QED
    BY <1>6, <2>1, ReadChunkType, LruUnchanged DEF GetRead
<1>7. CASE GetDecode(p)
  <2>1. \/ DeleteThenReturn(p, "error")
        \/ \E image \in Values \cup {Garbled} : ReturnImage(p, image)
    BY <1>7, DecodedType DEF GetDecode
  <2>2. call' \in [Procs -> Call]
    BY <2>1, ReturnImageType, DeleteThenReturnType DEF Results
  <2>3. QED
    BY <1>7, <2>2, DropStreamType, LruUnchanged DEF GetDecode
<1>8. CASE GetReadFails(p) \/ GetEOF(p) \/ GetLock(p)
  <2>1. CASE GetReadFails(p)
    <3>1. call' \in [Procs -> Call]
      BY <2>1, DeleteThenReturnType DEF GetReadFails, Results
    <3>2. QED
      BY <2>1, <3>1, DropStreamType, LruUnchanged DEF GetReadFails, ReadRefused
  <2>2. CASE GetEOF(p)
    <3>1. call' \in [Procs -> Call]
      BY <2>2, GotoType DEF GetEOF, Steps
    <3>2. QED
      BY <2>2, <3>1, DiskUnchanged, LruUnchanged DEF GetEOF
  <2>3. CASE GetLock(p)
    BY <2>3, LockCacheType, LruUnchanged, GotoType DEF GetLock, Steps
  <2>4. QED
    BY <1>8, <2>1, <2>2, <2>3
<1>9. CASE GetCache(p)
  <2>1. UNCHANGED call \/ DeleteThenReturn(p, "error") \/ Return(p, "panic")
    BY <1>9 DEF GetCache
  <2>2. call' \in [Procs -> Call]
    BY <2>1, ReturnType, DeleteThenReturnType DEF Results
  <2>3. \/ EvictOne(p, Len(stream[p].got)) \/ CacheNothing(p)
        \/ CacheStore(p, c.key, Len(stream[p].got))
    BY <1>9 DEF GetCache, c
  <2>4. TypeOKDisk'
    BY <1>0, <2>3, EvictOneType, CacheNothingType, CacheStoreType
  <2>5. QED
    BY <1>9, <2>2, <2>4, LruUnchanged DEF GetCache
<1>10. CASE SetLookup(p)
  <2>1. Goto(p, "SetOpen") \/ Goto(p, "SetAdd")
    BY <1>10 DEF SetLookup
  <2>2. QED
    BY <1>10, <2>1, DiskUnchanged, LruUnchanged, GotoType DEF SetLookup, Steps
<1>11. CASE SetAdd(p)
  <2>1. call' = [call EXCEPT ![p] = [c EXCEPT !.at = "SetOpen", !.src = << >>]]
    BY <1>11 DEF SetAdd, c
  <2>2. [c EXCEPT !.at = "SetOpen", !.src = << >>] \in Call
    BY <1>0, EmptyBytes DEF Call, Steps
  <2>3. LP!IInv'
    BY <1>0, <1>11, LruStepInv DEF SetAdd, c
  <2>4. QED
    BY <1>11, <2>1, <2>2, <2>3, DiskUnchanged DEF SetAdd
<1>12. CASE SetOpen(p)
  <2>1. \/ WriteOpen(p, c.key) /\ Goto(p, "SetCopy")
        \/ WriteRefused /\ Return(p, "error")
    BY <1>12 DEF SetOpen, c
  <2>2. call' \in [Procs -> Call]
    BY <2>1, GotoType, ReturnType DEF Steps, Results
  <2>3. TypeOKDisk'
    BY <1>0, <2>1, WriteOpenType, DiskUnchanged DEF WriteRefused
  <2>4. QED
    BY <1>12, <2>2, <2>3, LruUnchanged DEF SetOpen
<1>13. CASE SetCopy(p)
  <2>1. CASE /\ c.src # << >>
             /\ WriteChunk(p, c.key, Head(c.src))
             /\ call' = [call EXCEPT ![p].src = Tail(@)]
    <3>1. Head(c.src) \in Values /\ Tail(c.src) \in AtMostOneValue
      BY <1>0, <2>1, ModulusPositive, HeadTailProperties DEF AtMostOneValue, Bytes
    <3>2. [c EXCEPT !.src = Tail(c.src)] \in Call
      BY <1>0, <3>1 DEF Call
    <3>3. call' = [call EXCEPT ![p] = [c EXCEPT !.src = Tail(c.src)]]
      BY <2>1 DEF c
    <3>4. QED
      BY <1>0, <1>13, <2>1, <3>1, <3>2, <3>3, WriteChunkType, LruUnchanged DEF SetCopy
  <2>2. CASE WriteClose(p, c.key) /\ Return(p, "ok")
    BY <1>0, <1>13, <2>2, WriteCloseType, ReturnType, LruUnchanged DEF SetCopy, Results
  <2>3. CASE WriteFails(p) /\ Return(p, "error")
    BY <1>13, <2>3, WriteFailsType, ReturnType, LruUnchanged DEF SetCopy, Results
  <2>4. QED
    BY <1>13, <2>1, <2>2, <2>3 DEF SetCopy, c
<1>14. CASE DeleteLru(p)
  <2>1. LP!IInv'
    BY <1>0, <1>14, LruStepInv DEF DeleteLru, c
  <2>2. QED
    BY <1>14, <2>1, DiskUnchanged, GotoType DEF DeleteLru, Steps
<1>15. CASE DeleteDisk(p)
  <2>1. PICK ok \in BOOLEAN : Erase(c.key, ok)
    BY <1>15 DEF DeleteDisk, c
  <2>2. Return(p, c.ret) \/ Return(p, "ok") \/ Return(p, "error")
    BY <1>15 DEF DeleteDisk, c
  <2>3. call' \in [Procs -> Call]
    BY <1>0, <2>2, ReturnType DEF Results
  <2>4. QED
    BY <1>0, <1>15, <2>1, <2>3, EraseType, LruUnchanged DEF DeleteDisk
<1>16. CASE DeleteAllLru(p)
  <2>1. LP!IInv'
    BY <1>16, LruStepInv DEF DeleteAllLru
  <2>2. QED
    BY <1>16, <2>1, DiskUnchanged, GotoType DEF DeleteAllLru, Steps
<1>17. CASE DeleteAllDisk(p)
  <2>1. PICK ok \in BOOLEAN : EraseAll(ok)
    BY <1>17 DEF DeleteAllDisk
  <2>2. Return(p, "ok") \/ Return(p, "error")
    BY <1>17 DEF DeleteAllDisk
  <2>3. QED
    BY <1>17, <2>1, <2>2, EraseAllType, ReturnType, LruUnchanged DEF DeleteAllDisk, Results
<1>18. QED
  BY <1>1, <1>2, <1>3, <1>4, <1>5, <1>6, <1>7, <1>8, <1>9, <1>10, <1>11, <1>12, <1>13,
     <1>14, <1>15, <1>16, <1>17 DEF Step

LEMMA ClientType ==
  ASSUME TypeInv, NEW p \in Procs, Client(p)
  PROVE  TypeInv'
<1> USE DEF TypeInv
<1> DEFINE Begins == \E operation \in Operations, step \in Steps, k \in Keys,
                       ext \in Extensions, src \in AtMostOneValue :
                       Begin(p, operation, step, k, ext, src)
<1>1. Begins
  <2>1. CASE BeginDeleteAll(p)
    BY <2>1, AnyKeyType, EmptyBytes DEF BeginDeleteAll, Operations, Steps, Extensions
  <2>2. ASSUME NEW k \in KeysOf[p], BeginContains(p, k) \/ BeginDelete(p, k)
        PROVE  Begins
    BY <2>2, ClientAssumption, EmptyBytes
       DEF BeginContains, BeginDelete, Operations, Steps, Extensions
  <2>3. ASSUME NEW k \in KeysOf[p], NEW ext \in Extensions, BeginGet(p, k, ext)
        PROVE  Begins
    BY <2>3, ClientAssumption, EmptyBytes DEF BeginGet, Operations, Steps
  <2>4. ASSUME NEW k \in KeysOf[p], NEW src \in AtMostOneValue, BeginSet(p, k, src)
        PROVE  Begins
    BY <2>4, ClientAssumption DEF BeginSet, Operations, Steps, Extensions
  <2>5. ASSUME NEW k \in KeysOf[p], NEW v \in StoredFor[k]
        PROVE  Whole(v) \in AtMostOneValue
    BY <2>5, ClientAssumption, WholeType
  <2> HIDE DEF Begins
  <2>6. QED
    BY <2>1, <2>2, <2>3, <2>4, <2>5, EmptyBytes DEF Client
<1>2. PICK operation \in Operations, step \in Steps, k \in Keys,
           ext \in Extensions, src \in AtMostOneValue :
           Begin(p, operation, step, k, ext, src)
  BY <1>1
<1>3. call' \in [Procs -> Call]
  BY <1>2, BeginType
<1>4. UNCHANGED diskVars /\ UNCHANGED lruVars
  BY <1>2 DEF Begin
<1>5. QED
  BY <1>3, <1>4, DiskUnchanged, LruUnchanged

LEMMA InitType == Init => TypeInv
<1> SUFFICES ASSUME Init
             PROVE  TypeInv
  OBVIOUS
<1>1. LP!SizeAssumption
  BY LruSizeAssumption DEF LP!SizeAssumption
<1>2. LP!Init
  BY DEF Init, lru!Init, LP!Init
<1>3. QED
  BY <1>1, <1>2, LP!InitInv, InitDiskType, IdleCallsType DEF Init, TypeInv

LEMMA NextType == TypeInv /\ [Next]_vars => TypeInv'
<1> SUFFICES ASSUME TypeInv, [Next]_vars
             PROVE  TypeInv'
  OBVIOUS
<1>1. CASE UNCHANGED vars
  BY <1>1, DiskUnchanged, LruUnchanged DEF TypeInv, vars
<1>2. ASSUME UncacheStep
      PROVE  TypeInv'
  <2>1. PICK k \in Keys, n \in 0..Chunks : UncacheLater(k, n)
    BY <1>2 DEF UncacheStep
  <2>2. QED
    BY <1>2, <2>1, UncacheLaterType, LruUnchanged DEF UncacheStep, TypeInv
<1>3. ASSUME Restart
      PROVE  TypeInv'
  <2>1. LP!IInv'
    BY <1>3, LruStepInv DEF Restart, TypeInv
  <2>2. QED
    BY <1>3, <2>1, RestartDiskType, IdleCallsType DEF Restart, TypeInv
<1>4. QED
  BY <1>1, <1>2, <1>3, StepType, ClientType DEF Next, Work

LEMMA TypeInvImpliesTypeOK == TypeInv => TypeOK
  BY DEF TypeInv, TypeOK, LP!IInv, LP!TypeOK, lru!TypeOK, LP!Entry, lru!Entry

(* No interleaving of operations, failures and restarts takes a store or a *)
(* call out of its type: the unsigned size stays in its range, a siphon    *)
(* reads one value at most, the LRU cache holds entries.                   *)
THEOREM TypeCorrect == Spec => []TypeOK
<1>1. Spec => []TypeInv
  BY InitType, NextType, PTL DEF Spec
<1>2. QED
  BY <1>1, TypeInvImpliesTypeOK, PTL

-----------------------------------------------------------------------------
(***************************************************************************)
(* diskv's in-memory cache.  What makes MemoryCacheIsTransient inductive:  *)
(* only a Get reaches the siphon's end of file.                            *)
(***************************************************************************)
GetSteps == {"GetLookup", "GetHit", "GetOpen", "GetRead", "GetLock", "GetCache"}

StepsOfGet == \A p \in Procs : call[p].at \in GetSteps => call[p].op = "Get"

TransientInv == TypeInv /\ StepsOfGet /\ MemoryCacheIsTransient

(* What a step of p does to the calls: it stays in the operation, enters   *)
(* no Get, and goes from DeleteLru to DeleteDisk.                          *)
StaysInCall(p) ==
  /\ \A q \in Procs \ {p} : call'[q] = call[q]
  /\ call'[p].op = call[p].op /\ call'[p].key = call[p].key
  /\ call'[p].at \in GetSteps => call[p].at \in GetSteps
  /\ call[p].at = "DeleteLru" => call'[p].at = "DeleteDisk"

LEMMA UpdateStaysInCall ==
  ASSUME call \in [Procs -> Call], NEW p \in Procs, NEW step, NEW result, NEW image,
         NEW src,
         \/ Goto(p, step) \/ Return(p, result) \/ ReturnImage(p, image)
         \/ DeleteThenReturn(p, result)
         \/ call' = [call EXCEPT ![p].src = src]
         \/ call' = [call EXCEPT ![p].at = step, ![p].src = src],
         call'[p].at \in GetSteps => call[p].at \in GetSteps,
         call[p].at = "DeleteLru" => call'[p].at = "DeleteDisk"
  PROVE  StaysInCall(p)
<1>1. /\ \A q \in Procs \ {p} : call'[q] = call[q]
      /\ call'[p].op = call[p].op /\ call'[p].key = call[p].key
  BY DEF Goto, Return, ReturnImage, DeleteThenReturn, Call
<1>2. QED
  BY <1>1 DEF StaysInCall

(* The step after each update.                                             *)
LEMMA NextStep ==
  ASSUME call \in [Procs -> Call], NEW p \in Procs, NEW step, NEW result, NEW image
  PROVE  /\ Goto(p, step) => call'[p].at = step
         /\ Return(p, result) => call'[p].at = "idle"
         /\ ReturnImage(p, image) => call'[p].at = "idle"
         /\ DeleteThenReturn(p, result) => call'[p].at = "DeleteLru"
  BY DEF Goto, Return, ReturnImage, DeleteThenReturn, Call

LEMMA StepStaysInCall ==
  ASSUME TypeInv, NEW p \in Procs, Step(p)
  PROVE  StaysInCall(p)
<1> USE DEF TypeInv
<1>0. call \in [Procs -> Call]
  OBVIOUS
<1>1. ASSUME NEW step, Goto(p, step),
             step \in GetSteps => call[p].at \in GetSteps,
             call[p].at = "DeleteLru" => step = "DeleteDisk"
      PROVE  StaysInCall(p)
  BY <1>0, <1>1, NextStep, UpdateStaysInCall
<1>2. ASSUME NEW result, Return(p, result), call[p].at # "DeleteLru"
      PROVE  StaysInCall(p)
  BY <1>0, <1>2, NextStep, UpdateStaysInCall DEF GetSteps
<1>3. ASSUME NEW image, ReturnImage(p, image), call[p].at # "DeleteLru"
      PROVE  StaysInCall(p)
  BY <1>0, <1>3, NextStep, UpdateStaysInCall DEF GetSteps
<1>4. ASSUME NEW result, DeleteThenReturn(p, result), call[p].at # "DeleteLru"
      PROVE  StaysInCall(p)
  BY <1>0, <1>4, NextStep, UpdateStaysInCall DEF GetSteps
<1>5. ASSUME UNCHANGED call, call[p].at # "DeleteLru"
      PROVE  StaysInCall(p)
  BY <1>5 DEF StaysInCall
<1>6. CASE ContainsLru(p) \/ ContainsDisk(p)
  BY <1>1, <1>2, <1>6 DEF ContainsLru, ContainsDisk, GetSteps
<1>7. CASE GetLookup(p) \/ GetHit(p)
  BY <1>1, <1>2, <1>3, <1>4, <1>7 DEF GetLookup, GetHit, GetSteps
<1>8. CASE GetOpen(p) \/ GetRead(p)
  BY <1>1, <1>2, <1>4, <1>5, <1>8 DEF GetOpen, GetRead, GetSteps
<1>9. CASE GetDecode(p) \/ GetReadFails(p) \/ GetEOF(p) \/ GetLock(p) \/ GetCache(p)
  BY <1>1, <1>2, <1>3, <1>4, <1>5, <1>9 DEF GetDecode, GetReadFails, GetEOF, GetLock,
                                            GetCache, GetSteps
<1>10. CASE SetLookup(p) \/ SetOpen(p)
  BY <1>1, <1>2, <1>10 DEF SetLookup, SetOpen, GetSteps
<1>11. CASE SetAdd(p)
  <2>1. call[p].at = "SetAdd"
        /\ call' = [call EXCEPT ![p].at = "SetOpen", ![p].src = << >>]
    BY <1>11 DEF SetAdd
  <2>2. call'[p].at = "SetOpen"
    BY <1>0, <2>1 DEF Call
  <2>3. QED
    BY <1>0, <2>1, <2>2, UpdateStaysInCall DEF GetSteps
<1>12. CASE SetCopy(p)
  <2>1. CASE call' = [call EXCEPT ![p].src = Tail(@)]
    <3>1. call' = [call EXCEPT ![p].src = Tail(call[p].src)]
      BY <1>0, <2>1 DEF Call
    <3>2. call'[p].at = call[p].at /\ call[p].at = "SetCopy"
      BY <1>0, <1>12, <3>1 DEF SetCopy, Call
    <3>3. QED
      BY <1>0, <3>1, <3>2, UpdateStaysInCall DEF GetSteps
  <2>2. QED
    BY <1>2, <1>12, <2>1 DEF SetCopy
<1>13. CASE DeleteLru(p) \/ DeleteDisk(p)
  BY <1>1, <1>2, <1>13 DEF DeleteLru, DeleteDisk, GetSteps
<1>14. CASE DeleteAllLru(p) \/ DeleteAllDisk(p)
  BY <1>1, <1>2, <1>14 DEF DeleteAllLru, DeleteAllDisk, GetSteps
<1>15. QED
  BY <1>6, <1>7, <1>8, <1>9, <1>10, <1>11, <1>12, <1>13, <1>14 DEF Step

(* What a step of p does to the in-memory cache: only CacheStore adds to   *)
(* it, on the way to Delete, and Delete ends without the key in it.        *)
LEMMA UncacheRemoves ==
  ASSUME TypeOKDisk, NEW k \in Keys, NEW n, Uncache(k, n) \/ BustCache(k)
  PROVE  ~InCache(k)' /\ \A j \in Keys : InCache(j)' => InCache(j)
  BY DEF Uncache, BustCache, InCache, TypeOKDisk

LEMMA StepOnMemory ==
  ASSUME TypeInv, NEW p \in Procs, Step(p)
  PROVE  /\ \A k \in Keys : InCache(k)' =>
              \/ InCache(k)
              \/ /\ call[p].at = "GetCache" /\ call[p].key = k
                 /\ call'[p].at = "DeleteLru"
         /\ \A k \in Keys : call[p].at = "DeleteDisk" /\ call[p].key = k => ~InCache(k)'
<1> DEFINE Goal == /\ \A k \in Keys : InCache(k)' =>
                        \/ InCache(k)
                        \/ /\ call[p].at = "GetCache" /\ call[p].key = k
                           /\ call'[p].at = "DeleteLru"
                   /\ \A k \in Keys : call[p].at = "DeleteDisk" /\ call[p].key = k => ~InCache(k)'
<1>0. call[p].key \in Keys /\ call \in [Procs -> Call] /\ TypeOKDisk
  BY FieldTypes DEF TypeInv
<1>1. ASSUME UNCHANGED cached, call[p].at # "DeleteDisk"
      PROVE  Goal
  BY <1>1 DEF InCache
<1>2. CASE ContainsLru(p) \/ ContainsDisk(p) \/ GetLookup(p) \/ GetHit(p)
  BY <1>1, <1>2 DEF ContainsLru, ContainsDisk, GetLookup, GetHit, diskVars
<1>3. CASE GetOpen(p)
  BY <1>1, <1>3 DEF GetOpen, OpenStream
<1>4. CASE GetRead(p) \/ GetDecode(p) \/ GetReadFails(p) \/ GetEOF(p) \/ GetLock(p)
  BY <1>1, <1>4 DEF GetRead, GetDecode, GetReadFails, GetEOF, GetLock, ReadChunk,
                    DropStream, LockCache, ReadRefused, diskVars
<1>5. CASE GetCache(p)
  <2>1. CASE EvictOne(p, Len(stream[p].got))
    BY <1>0, <1>5, <2>1, UncacheRemoves DEF EvictOne, GetCache
  <2>2. CASE /\ CacheStore(p, call[p].key, Len(stream[p].got))
             /\ DeleteThenReturn(p, "error")
    <3>1. call'[p].at = "DeleteLru" /\ call[p].at = "GetCache"
      BY <1>0, <1>5, <2>2, NextStep DEF GetCache
    <3>2. \A k \in Keys \ {call[p].key} : InCache(k)' => InCache(k)
      BY <1>0, <2>2 DEF CacheStore, InCache, TypeOKDisk
    <3>3. QED
      BY <3>1, <3>2
  <2>3. CASE CacheNothing(p)
    BY <1>1, <1>5, <2>3 DEF CacheNothing, GetCache
  <2>4. QED
    BY <1>5, <2>1, <2>2, <2>3 DEF GetCache
<1>6. CASE SetLookup(p) \/ SetAdd(p)
  BY <1>1, <1>6 DEF SetLookup, SetAdd, diskVars
<1>7. CASE SetOpen(p)
  BY <1>1, <1>7 DEF SetOpen, WriteOpen, WriteRefused, diskVars
<1>8. CASE SetCopy(p)
  <2>1. CASE WriteClose(p, call[p].key)
    BY <1>0, <1>8, <2>1, UncacheRemoves DEF WriteClose, SetCopy
  <2>2. QED
    BY <1>1, <1>8, <2>1 DEF SetCopy, WriteChunk, WriteFails
<1>9. CASE DeleteLru(p) \/ DeleteAllLru(p)
  BY <1>1, <1>9 DEF DeleteLru, DeleteAllLru, diskVars
<1>10. CASE DeleteDisk(p)
  <2>1. PICK k \in Keys : k = call[p].key /\ BustCache(k)
    BY <1>0, <1>10 DEF DeleteDisk, Erase
  <2>2. ~InCache(k)' /\ \A j \in Keys : InCache(j)' => InCache(j)
    BY <1>0, <2>1, UncacheRemoves
  <2>3. QED
    BY <2>1, <2>2
<1>11. CASE DeleteAllDisk(p)
  <2>1. \A k \in Keys : ~InCache(k)'
    BY <1>11 DEF DeleteAllDisk, EraseAll, NothingCached, InCache
  <2>2. QED
    BY <1>11, <2>1 DEF DeleteAllDisk
<1>12. QED
  BY <1>2, <1>3, <1>4, <1>5, <1>6, <1>7, <1>8, <1>9, <1>10, <1>11 DEF Step

LEMMA TransientInit == Init => TransientInv
<1> SUFFICES ASSUME Init
             PROVE  TransientInv
  OBVIOUS
<1>1. \A p \in Procs : call[p].at = "idle"
  BY DEF Init, IdleCalls
<1>2. \A k \in Keys : ~InCache(k)
  BY DEF Init, InitDisk, NothingCached, InCache
<1>3. QED
  BY <1>1, <1>2, InitType DEF TransientInv, StepsOfGet, GetSteps, MemoryCacheIsTransient

LEMMA TransientStep ==
  ASSUME TransientInv, NEW p \in Procs, Step(p)
  PROVE  StepsOfGet' /\ MemoryCacheIsTransient'
<1>1. StaysInCall(p)
  BY StepStaysInCall DEF TransientInv
<1>2. StepsOfGet'
  BY <1>1 DEF TransientInv, StepsOfGet, StaysInCall
<1>3. ASSUME NEW k \in Keys, InCache(k)'
      PROVE  \E q \in Procs : AboutToDelete(q, k)'
  <2>1. \/ InCache(k)
        \/ /\ call[p].at = "GetCache" /\ call[p].key = k
           /\ call'[p].at = "DeleteLru"
    BY <1>3, StepOnMemory DEF TransientInv
  <2>2. ~(call[p].at = "DeleteDisk" /\ call[p].key = k)
    BY <1>3, StepOnMemory DEF TransientInv
  <2>3. CASE InCache(k)
    <3>1. PICK q \in Procs : AboutToDelete(q, k)
      BY <2>3 DEF TransientInv, MemoryCacheIsTransient
    <3>2. AboutToDelete(q, k)'
      BY <1>1, <2>2, <3>1 DEF AboutToDelete, StaysInCall
    <3>3. QED
      BY <3>2
  <2>4. CASE /\ call[p].at = "GetCache" /\ call[p].key = k
             /\ call'[p].at = "DeleteLru"
    <3>1. call[p].op = "Get"
      BY <2>4 DEF TransientInv, StepsOfGet, GetSteps
    <3>2. AboutToDelete(p, k)'
      BY <1>1, <2>4, <3>1 DEF AboutToDelete, StaysInCall
    <3>3. QED
      BY <3>2
  <2>5. QED
    BY <2>1, <2>3, <2>4
<1>4. QED
  BY <1>2, <1>3 DEF MemoryCacheIsTransient

(* A process that begins an operation was not about to delete anything.    *)
LEMMA TransientClient ==
  ASSUME TransientInv, NEW p \in Procs, Client(p)
  PROVE  StepsOfGet' /\ MemoryCacheIsTransient'
<1>1. \E operation, step, k, ext, src :
        /\ Begin(p, operation, step, k, ext, src)
        /\ step \in GetSteps => operation = "Get"
  BY DEF Client, BeginContains, BeginGet, BeginSet, BeginDelete, BeginDeleteAll, GetSteps
<1>2. /\ call[p].at = "idle" /\ UNCHANGED cached
      /\ \A q \in Procs \ {p} : call'[q] = call[q]
      /\ call'[p].at \in GetSteps => call'[p].op = "Get"
  BY <1>1 DEF Begin, diskVars, TransientInv, TypeInv
<1>3. StepsOfGet'
  BY <1>2 DEF TransientInv, StepsOfGet
<1>4. \A k \in Keys, q \in Procs : AboutToDelete(q, k) => AboutToDelete(q, k)'
  BY <1>2 DEF AboutToDelete
<1>5. QED
  BY <1>2, <1>3, <1>4 DEF TransientInv, MemoryCacheIsTransient, InCache

LEMMA TransientNext == TransientInv /\ [Next]_vars => TransientInv'
<1> SUFFICES ASSUME TransientInv, [Next]_vars
             PROVE  TransientInv'
  OBVIOUS
<1>1. TypeInv'
  BY NextType DEF TransientInv
<1>2. CASE UNCHANGED vars
  <2>1. UNCHANGED <<cached, call>>
    BY <1>2 DEF vars, diskVars
  <2>2. QED
    BY <1>1, <2>1
       DEF TransientInv, StepsOfGet, MemoryCacheIsTransient, InCache, AboutToDelete
<1>3. ASSUME UncacheStep
      PROVE  TransientInv'
  <2>1. PICK k \in Keys, n \in 0..Chunks : UncacheLater(k, n)
    BY <1>3 DEF UncacheStep
  <2>2. UNCHANGED call /\ \A j \in Keys : InCache(j)' => InCache(j)
    BY <1>3, <2>1, UncacheRemoves DEF UncacheStep, UncacheLater, TransientInv, TypeInv
  <2>3. QED
    BY <1>1, <2>2 DEF TransientInv, StepsOfGet, MemoryCacheIsTransient, AboutToDelete
<1>4. ASSUME Restart
      PROVE  TransientInv'
  <2>1. \A k \in Keys : ~InCache(k)'
    BY <1>4 DEF Restart, RestartDisk, NothingCached, InCache
  <2>2. \A p \in Procs : call'[p].at = "idle"
    BY <1>4 DEF Restart, IdleCalls
  <2>3. QED
    BY <1>1, <2>1, <2>2 DEF TransientInv, StepsOfGet, GetSteps, MemoryCacheIsTransient
<1>5. QED
  BY <1>1, <1>2, <1>3, <1>4, TransientStep, TransientClient DEF Next, Work, TransientInv

(* Whatever the number of requests, keys and chunks, and however often     *)
(* diskv's accounting goes wrong: a value in its memory is about to be     *)
(* deleted by the Get that put it there, so that Contains never answers    *)
(* from a file that is long gone.                                          *)
THEOREM MemoryCacheAlwaysTransient == Spec => []MemoryCacheIsTransient
<1>1. Spec => []TransientInv
  BY TransientInit, TransientNext, PTL DEF Spec
<1>2. TransientInv => MemoryCacheIsTransient
  BY DEF TransientInv
<1>3. QED
  BY <1>1, <1>2, PTL
-----------------------------------------------------------------------------
(***************************************************************************)
(* What the files hold.  A process between SetOpen and the end of SetCopy  *)
(* holds d.mu, and everything else that changes a file waits for it; so    *)
(* what is in the file and what is still to be written are pieces of one   *)
(* value.                                                                  *)
(***************************************************************************)
AllOf(s, x) == \A i \in DOMAIN s : s[i] = x

LockedSteps == {"SetCopy", "GetCache"}

LockHeld == \A p \in Procs : call[p].at \in LockedSteps => mu = p

SetSteps == {"SetLookup", "SetAdd", "SetOpen", "SetCopy"}

(* What p, in a Set, has written of its value already.                     *)
Written(p) == IF call[p].at = "SetCopy" THEN data[call[p].key] ELSE << >>

Pending(p) ==
  call[p].at \in SetSteps /\ call[p].src # << >> =>
    /\ Len(Written(p)) + Len(call[p].src) <= Chunks
    /\ \E x \in StoredFor[call[p].key] : AllOf(call[p].src, x) /\ AllOf(Written(p), x)

PendingWrites == \A p \in Procs : Pending(p)

OneValue(k, s) == Len(s) <= Chunks /\ (s # << >> => \E x \in StoredFor[k] : AllOf(s, x))

FilesHoldOneValue == \A k \in Keys : OneValue(k, data[k])

ContentInv == TypeInv /\ LockHeld /\ PendingWrites /\ FilesHoldOneValue

LEMMA EmptyIsOneValue == \A k : OneValue(k, << >>)
  BY ModulusPositive, EmptySeq DEF OneValue

-----------------------------------------------------------------------------
(* What a step of p does to the mutex and to the files.                    *)
LEMMA StepOnMutex ==
  ASSUME TypeInv, LockHeld, NEW p \in Procs, Step(p)
  PROVE  /\ mu' = mu \/ mu \in {Nobody, p}
         /\ call'[p].at \in LockedSteps => mu' = p
<1> DEFINE Goal == /\ mu' = mu \/ mu \in {Nobody, p}
                   /\ call'[p].at \in LockedSteps => mu' = p
<1>0. call \in [Procs -> Call]
  BY DEF TypeInv
<1>1. ASSUME UNCHANGED mu, NEW step, Goto(p, step), step \notin LockedSteps
      PROVE  Goal
  BY <1>0, <1>1, NextStep
<1>2. ASSUME mu' = mu \/ mu \in {Nobody, p}, NEW result, NEW image,
             Return(p, result) \/ ReturnImage(p, image) \/ DeleteThenReturn(p, result)
      PROVE  Goal
  BY <1>0, <1>2, NextStep DEF LockedSteps
<1>3. CASE ContainsLru(p) \/ ContainsDisk(p)
  BY <1>1, <1>2, <1>3 DEF ContainsLru, ContainsDisk, LockedSteps, diskVars
<1>4. CASE GetLookup(p) \/ GetHit(p)
  BY <1>1, <1>2, <1>4 DEF GetLookup, GetHit, LockedSteps, diskVars
<1>5. CASE GetOpen(p)
  BY <1>1, <1>2, <1>5 DEF GetOpen, OpenStream, LockedSteps
<1>6. CASE GetRead(p)
  BY <1>6 DEF GetRead, ReadChunk, LockedSteps
<1>7. CASE GetDecode(p)
  BY <1>1, <1>2, <1>7 DEF GetDecode, DropStream, LockedSteps
<1>8. CASE GetReadFails(p) \/ GetEOF(p) \/ GetLock(p)
  <2>1. CASE GetReadFails(p)
    BY <1>2, <2>1 DEF GetReadFails, ReadRefused, DropStream
  <2>2. CASE GetEOF(p)
    BY <1>1, <2>2 DEF GetEOF, diskVars, LockedSteps
  <2>3. CASE GetLock(p)
    BY <2>3 DEF GetLock, LockCache, Unlocked
  <2>4. QED
    BY <1>8, <2>1, <2>2, <2>3
<1>9. CASE GetCache(p)
  <2>1. mu = p
    BY <1>9 DEF LockHeld, GetCache, LockedSteps
  <2>2. CASE EvictOne(p, Len(stream[p].got)) /\ UNCHANGED call
    BY <2>1, <2>2 DEF EvictOne
  <2>3. QED
    BY <1>2, <1>9, <2>1, <2>2 DEF GetCache
<1>10. CASE SetLookup(p)
  BY <1>1, <1>10 DEF SetLookup, LockedSteps, diskVars
<1>11. CASE SetAdd(p)
  <2>1. call'[p].at = "SetOpen"
    BY <1>0, <1>11 DEF SetAdd, Call
  <2>2. QED
    BY <1>11, <2>1 DEF SetAdd, LockedSteps, diskVars
<1>12. CASE SetOpen(p)
  <2>1. CASE WriteOpen(p, call[p].key)
    BY <2>1 DEF WriteOpen, Unlocked
  <2>2. QED
    BY <1>2, <1>12, <2>1 DEF SetOpen, WriteRefused, diskVars
<1>13. CASE SetCopy(p)
  <2>1. mu = p
    BY <1>13 DEF LockHeld, SetCopy, LockedSteps
  <2>2. CASE WriteChunk(p, call[p].key, Head(call[p].src))
    BY <2>1, <2>2 DEF WriteChunk
  <2>3. QED
    BY <1>2, <1>13, <2>1, <2>2 DEF SetCopy
<1>14. CASE DeleteLru(p) \/ DeleteAllLru(p)
  BY <1>1, <1>14 DEF DeleteLru, DeleteAllLru, LockedSteps, diskVars
<1>15. CASE DeleteDisk(p)
  BY <1>2, <1>15 DEF DeleteDisk, Erase
<1>16. CASE DeleteAllDisk(p)
  BY <1>2, <1>16 DEF DeleteAllDisk, EraseAll
<1>17. QED
  BY <1>3, <1>4, <1>5, <1>6, <1>7, <1>8, <1>9, <1>10, <1>11, <1>12, <1>13, <1>14, <1>15,
     <1>16 DEF Step

(* A file is left alone, emptied while nobody holds the mutex, or gets one *)
(* chunk of the value that p, which holds it, is writing.                  *)
LEMMA StepOnFiles ==
  ASSUME TypeInv, NEW p \in Procs, Step(p)
  PROVE  \/ UNCHANGED data
         \/ mu = Nobody /\ \A k \in Keys : data'[k] \in {data[k], << >>}
         \/ /\ call[p].at = "SetCopy" /\ call[p].src # << >>
            /\ WriteChunk(p, call[p].key, Head(call[p].src))
            /\ call' = [call EXCEPT ![p].src = Tail(@)]
<1>0. data \in [Keys -> Bytes] /\ call[p].key \in Keys
  BY FieldTypes DEF TypeInv, TypeOKDisk
<1>1. ASSUME NEW S, RemoveFiles(S)
      PROVE  \A k \in Keys : data'[k] \in {data[k], << >>}
  BY <1>1 DEF RemoveFiles
<1>2. CASE ContainsLru(p) \/ ContainsDisk(p) \/ GetLookup(p) \/ GetHit(p)
  BY <1>2 DEF ContainsLru, ContainsDisk, GetLookup, GetHit, diskVars
<1>3. CASE GetOpen(p) \/ GetRead(p)
  BY <1>3 DEF GetOpen, OpenStream, GetRead, ReadChunk
<1>4. CASE GetDecode(p) \/ GetReadFails(p) \/ GetEOF(p) \/ GetLock(p)
  BY <1>4 DEF GetDecode, DropStream, GetReadFails, GetEOF, GetLock, LockCache, ReadRefused,
              diskVars
<1>5. CASE GetCache(p)
  BY <1>5 DEF GetCache, EvictOne, CacheStore, CacheNothing
<1>6. CASE SetLookup(p) \/ SetAdd(p)
  BY <1>6 DEF SetLookup, SetAdd, diskVars
<1>7. CASE SetOpen(p)
  BY <1>0, <1>7 DEF SetOpen, WriteOpen, WriteRefused, Unlocked, diskVars
<1>8. CASE SetCopy(p)
  BY <1>8 DEF SetCopy, WriteClose, WriteFails
<1>9. CASE DeleteLru(p) \/ DeleteAllLru(p)
  BY <1>9 DEF DeleteLru, DeleteAllLru, diskVars
<1>10. CASE DeleteDisk(p)
  BY <1>1, <1>10 DEF DeleteDisk, Erase, Unlocked
<1>11. CASE DeleteAllDisk(p)
  BY <1>1, <1>11 DEF DeleteAllDisk, EraseAll, Unlocked
<1>12. QED
  BY <1>2, <1>3, <1>4, <1>5, <1>6, <1>7, <1>8, <1>9, <1>10, <1>11 DEF Step

(* A process that is in a Set after a step, with something left to write,  *)
(* was in it before, with as much left and nothing written yet, or has     *)
(* written one chunk.                                                      *)
LEMMA StepOnPending ==
  ASSUME TypeInv, NEW p \in Procs, Step(p), call'[p].at \in SetSteps, call'[p].src # << >>
  PROVE  \/ /\ call[p].at \in SetSteps /\ call'[p].src = call[p].src
            /\ Written(p)' = << >>
         \/ /\ call[p].at = "SetCopy" /\ call[p].src # << >>
            /\ WriteChunk(p, call[p].key, Head(call[p].src))
            /\ call' = [call EXCEPT ![p].src = Tail(@)]
<1> DEFINE Goal == \/ /\ call[p].at \in SetSteps /\ call'[p].src = call[p].src
                      /\ Written(p)' = << >>
                   \/ /\ call[p].at = "SetCopy" /\ call[p].src # << >>
                      /\ WriteChunk(p, call[p].key, Head(call[p].src))
                      /\ call' = [call EXCEPT ![p].src = Tail(@)]
<1>0. call \in [Procs -> Call] /\ data \in [Keys -> Bytes] /\ call[p].key \in Keys
  BY FieldTypes DEF TypeInv, TypeOKDisk
<1>1. ASSUME NEW step, Goto(p, step), step \notin SetSteps
      PROVE  FALSE
  BY <1>0, <1>1, NextStep
<1>2. ASSUME NEW result, NEW image,
             Return(p, result) \/ ReturnImage(p, image) \/ DeleteThenReturn(p, result)
      PROVE  FALSE
  BY <1>0, <1>2, NextStep DEF SetSteps
<1>3. CASE ContainsLru(p) \/ ContainsDisk(p)
  BY <1>1, <1>2, <1>3 DEF ContainsLru, ContainsDisk, SetSteps
<1>4. CASE GetLookup(p) \/ GetHit(p)
  BY <1>1, <1>2, <1>4 DEF GetLookup, GetHit, SetSteps
<1>5. CASE GetOpen(p) \/ GetRead(p)
  BY <1>1, <1>2, <1>5 DEF GetOpen, GetRead, SetSteps
<1>6. CASE GetDecode(p) \/ GetReadFails(p) \/ GetEOF(p) \/ GetLock(p)
  BY <1>1, <1>2, <1>6 DEF GetDecode, GetReadFails, GetEOF, GetLock, SetSteps
<1>7. CASE GetCache(p)
  BY <1>2, <1>7 DEF GetCache, SetSteps
<1>8. CASE SetLookup(p)
  <2>1. PICK step \in {"SetOpen", "SetAdd"} : Goto(p, step)
    BY <1>8 DEF SetLookup
  <2>2. call'[p].at = step /\ call'[p].src = call[p].src
    BY <1>0, <2>1 DEF Goto, Call
  <2>3. QED
    BY <1>8, <2>1, <2>2 DEF SetLookup, SetSteps, Written
<1>9. CASE SetAdd(p)
  <2>1. call'[p].src = << >>
    BY <1>0, <1>9 DEF SetAdd, Call
  <2>2. QED
    BY <2>1
<1>10. CASE SetOpen(p)
  <2>1. WriteOpen(p, call[p].key) /\ Goto(p, "SetCopy")
    BY <1>2, <1>10 DEF SetOpen
  <2>2. /\ call'[p].at = "SetCopy" /\ call'[p].src = call[p].src
        /\ call'[p].key = call[p].key
    BY <1>0, <2>1 DEF Goto, Call
  <2>3. Written(p)' = << >>
    BY <1>0, <2>1, <2>2 DEF Written, WriteOpen
  <2>4. QED
    BY <1>10, <2>2, <2>3 DEF SetOpen, SetSteps
<1>11. CASE SetCopy(p)
  BY <1>2, <1>11 DEF SetCopy
<1>12. CASE DeleteLru(p) \/ DeleteDisk(p)
  BY <1>1, <1>2, <1>12 DEF DeleteLru, DeleteDisk, SetSteps
<1>13. CASE DeleteAllLru(p) \/ DeleteAllDisk(p)
  BY <1>1, <1>2, <1>13 DEF DeleteAllLru, DeleteAllDisk, SetSteps
<1>14. QED
  BY <1>3, <1>4, <1>5, <1>6, <1>7, <1>8, <1>9, <1>10, <1>11, <1>12, <1>13 DEF Step

(***************************************************************************)
(* A chunk written goes from what is left to what is in the file.          *)
(***************************************************************************)
LEMMA ChunkMoves ==
  ASSUME NEW s \in Bytes, NEW t \in Bytes, t # << >>, NEW x, AllOf(s, x), AllOf(t, x)
  PROVE  /\ AllOf(Append(s, Head(t)), x) /\ AllOf(Tail(t), x)
         /\ Len(Append(s, Head(t))) + Len(Tail(t)) = Len(s) + Len(t)
         /\ Len(Append(s, Head(t))) <= Len(s) + Len(t)
<1>1. /\ s \in Seq(Values) /\ t \in Seq(Values) /\ Len(s) \in Nat /\ Len(t) \in Nat
      /\ Len(t) > 0 /\ DOMAIN s = 1..Len(s) /\ DOMAIN t = 1..Len(t)
  BY LenProperties, EmptySeq DEF Bytes
<1>2. /\ Head(t) \in Values /\ Head(t) = t[1] /\ Tail(t) \in Seq(Values)
      /\ Len(Tail(t)) = Len(t) - 1
      /\ \A i \in 1..Len(Tail(t)) : Tail(t)[i] = t[i + 1]
  BY <1>1, HeadTailProperties
<1>3. Head(t) = x
  BY <1>1, <1>2 DEF AllOf
<1>4. AllOf(Tail(t), x)
  <2>1. DOMAIN Tail(t) = 1..Len(t) - 1
    BY <1>1, <1>2, LenProperties
  <2>2. \A i \in 1..Len(t) - 1 : i + 1 \in DOMAIN t /\ Tail(t)[i] = t[i + 1]
    BY <1>1, <1>2
  <2>3. QED
    BY <2>1, <2>2 DEF AllOf
<1>5. /\ Append(s, Head(t)) \in Seq(Values) /\ Len(Append(s, Head(t))) = Len(s) + 1
      /\ \A i \in 1..Len(s) : Append(s, Head(t))[i] = s[i]
      /\ Append(s, Head(t))[Len(s) + 1] = Head(t)
  BY <1>1, <1>2, AppendProperties
<1>6. AllOf(Append(s, Head(t)), x)
  <2>1. DOMAIN Append(s, Head(t)) = 1..Len(s) + 1
    BY <1>1, <1>5, LenProperties
  <2>2. \A i \in 1..Len(s) + 1 : i \in 1..Len(s) \/ i = Len(s) + 1
    BY <1>1
  <2>3. QED
    BY <1>1, <1>3, <1>5, <2>1, <2>2 DEF AllOf
<1>7. QED
  BY <1>1, <1>2, <1>4, <1>5, <1>6

LEMMA ContentStep ==
  ASSUME ContentInv, NEW p \in Procs, Step(p)
  PROVE  LockHeld' /\ PendingWrites' /\ FilesHoldOneValue'
<1> DEFINE k == call[p].key
           Chunk == /\ call[p].at = "SetCopy" /\ call[p].src # << >>
                    /\ WriteChunk(p, k, Head(call[p].src))
                    /\ call' = [call EXCEPT ![p].src = Tail(@)]
<1>0. /\ TypeInv /\ LockHeld /\ PendingWrites /\ FilesHoldOneValue
      /\ k \in Keys /\ call[p].src \in Bytes /\ data \in [Keys -> Bytes]
      /\ Nobody \notin Procs /\ call \in [Procs -> Call]
  BY FieldTypes, NamesAssumption DEF ContentInv, TypeInv, TypeOKDisk, AtMostOneValue
<1> HIDE DEF k
<1>1. /\ \A q \in Procs \ {p} : call'[q] = call[q]
      /\ call'[p].key = k
  BY <1>0, StepStaysInCall DEF StaysInCall, k
<1>2. LockHeld'
  <2>1. /\ mu' = mu \/ mu \in {Nobody, p}
        /\ call'[p].at \in LockedSteps => mu' = p
    BY <1>0, StepOnMutex
  <2>2. \A q \in Procs \ {p} : call[q].at \in LockedSteps => mu' = q
    BY <1>0, <2>1 DEF LockHeld
  <2>3. QED
    BY <1>1, <2>1, <2>2 DEF LockHeld
<1>3. CASE Chunk
  <2>1. mu = p /\ data' = [data EXCEPT ![k] = Append(data[k], Head(call[p].src))]
    BY <1>0, <1>3 DEF WriteChunk
  <2>2. PICK x \in StoredFor[k] :
          /\ AllOf(call[p].src, x) /\ AllOf(data[k], x)
          /\ Len(data[k]) + Len(call[p].src) <= Chunks
    BY <1>0, <1>3 DEF PendingWrites, Pending, Written, SetSteps, k
  <2>3. /\ AllOf(data'[k], x) /\ AllOf(Tail(call[p].src), x)
        /\ Len(data'[k]) + Len(Tail(call[p].src)) = Len(data[k]) + Len(call[p].src)
        /\ Len(data'[k]) <= Len(data[k]) + Len(call[p].src)
    BY <1>0, <1>3, <2>1, <2>2, ChunkMoves
  <2>4. OneValue(k, data'[k])
    <3>1. Len(data'[k]) \in Nat /\ Len(data[k]) \in Nat /\ Len(call[p].src) \in Nat
      <4>1. Append(data[k], Head(call[p].src)) \in Seq(Values)
        BY <1>0, <1>3, HeadTailProperties, AppendProperties DEF Bytes
      <4>2. QED
        BY <1>0, <2>1, <4>1, LenProperties DEF Bytes
    <3>2. \A a, b, c \in Nat : a <= b + c /\ b + c <= Chunks => a <= Chunks
      BY ModulusPositive
    <3>3. Len(data'[k]) <= Chunks
      BY <2>2, <2>3, <3>1, <3>2
    <3>4. QED
      BY <2>3, <3>3 DEF OneValue
  <2>5. FilesHoldOneValue'
    BY <1>0, <2>1, <2>4 DEF FilesHoldOneValue
  <2>6. Pending(p)'
    <3>1. call'[p].src = Tail(call[p].src) /\ call'[p].at = "SetCopy"
      BY <1>0, <1>3 DEF Call
    <3>2. Written(p)' = data'[k]
      BY <1>1, <3>1 DEF Written
    <3>3. QED
      BY <1>1, <2>2, <2>3, <3>1, <3>2 DEF Pending
  <2>7. ASSUME NEW q \in Procs \ {p}
        PROVE  Pending(q)'
    <3>1. call[q].at # "SetCopy"
      BY <1>0, <2>1 DEF LockHeld, LockedSteps
    <3>2. Written(q)' = << >> /\ Written(q) = << >>
      BY <1>1, <3>1 DEF Written
    <3>3. Pending(q)
      BY <1>0 DEF PendingWrites
    <3>4. QED
      BY <1>1, <3>2, <3>3 DEF Pending
  <2>8. QED
    BY <1>2, <2>5, <2>6, <2>7 DEF PendingWrites
<1>4. CASE ~Chunk
  <2>1. \/ UNCHANGED data
        \/ mu = Nobody /\ \A j \in Keys : data'[j] \in {data[j], << >>}
    BY <1>0, <1>4, StepOnFiles DEF k
  <2>2. FilesHoldOneValue'
    BY <1>0, <2>1, EmptyIsOneValue DEF FilesHoldOneValue
  <2>3. Pending(p)'
    <3>1. SUFFICES ASSUME call'[p].at \in SetSteps, call'[p].src # << >>
                   PROVE  /\ Len(Written(p)') + Len(call'[p].src) <= Chunks
                          /\ \E x \in StoredFor[k] :
                               AllOf(call'[p].src, x) /\ AllOf(Written(p)', x)
      BY <1>1 DEF Pending
    <3>2. /\ call[p].at \in SetSteps /\ call'[p].src = call[p].src
          /\ Written(p)' = << >>
      BY <1>0, <1>4, <3>1, StepOnPending DEF k
    <3>3. /\ Len(Written(p)) + Len(call[p].src) <= Chunks
          /\ \E x \in StoredFor[k] : AllOf(call[p].src, x)
      BY <1>0, <3>1, <3>2 DEF PendingWrites, Pending, k
    <3>4. Len(Written(p)) \in Nat /\ Len(call[p].src) \in Nat
      BY <1>0, LenProperties, EmptySeq DEF Written, Bytes, k
    <3>5. Len(<< >>) = 0 /\ \A x : AllOf(<< >>, x)
      BY EmptySeq DEF AllOf
    <3>6. Len(call[p].src) <= Chunks
      BY <3>3, <3>4, ModulusPositive
    <3>7. QED
      BY <3>2, <3>3, <3>4, <3>5, <3>6
  <2>4. ASSUME NEW q \in Procs \ {p}
        PROVE  Pending(q)'
    <3>1. call[q].at = "SetCopy" => mu = q /\ UNCHANGED data
      BY <1>0, <2>1 DEF LockHeld, LockedSteps
    <3>2. Written(q)' = Written(q)
      BY <1>1, <3>1 DEF Written
    <3>3. Pending(q)
      BY <1>0 DEF PendingWrites
    <3>4. QED
      BY <1>1, <3>2, <3>3 DEF Pending
  <2>5. QED
    BY <1>2, <2>2, <2>3, <2>4 DEF PendingWrites
<1>5. QED
  BY <1>3, <1>4

LEMMA ContentInit == Init => ContentInv
<1> SUFFICES ASSUME Init
             PROVE  ContentInv
  OBVIOUS
<1>1. \A p \in Procs : call[p].at = "idle"
  BY DEF Init, IdleCalls
<1>2. \A k \in Keys : data[k] = << >>
  BY DEF Init, InitDisk
<1>3. LockHeld /\ PendingWrites
  BY <1>1 DEF LockHeld, LockedSteps, PendingWrites, Pending, SetSteps
<1>4. FilesHoldOneValue
  BY <1>2, EmptyIsOneValue DEF FilesHoldOneValue
<1>5. QED
  BY <1>3, <1>4, InitType DEF ContentInv

(* An operation begins outside the mutex, and a Set with nothing written.  *)
LEMMA ContentClient ==
  ASSUME ContentInv, NEW p \in Procs, Client(p)
  PROVE  LockHeld' /\ PendingWrites' /\ FilesHoldOneValue'
<1>0. TypeInv /\ LockHeld /\ PendingWrites /\ FilesHoldOneValue /\ call \in [Procs -> Call]
  BY DEF ContentInv, TypeInv
<1>1. /\ UNCHANGED <<data, mu>>
      /\ \A q \in Procs \ {p} : call'[q] = call[q]
      /\ call'[p].at \notin LockedSteps
  BY <1>0 DEF Client, BeginContains, BeginGet, BeginSet, BeginDelete, BeginDeleteAll, Begin,
              diskVars, LockedSteps
<1>2. LockHeld'
  BY <1>0, <1>1 DEF LockHeld
<1>3. FilesHoldOneValue'
  BY <1>0, <1>1 DEF FilesHoldOneValue
<1>4. ASSUME NEW q \in Procs \ {p}
      PROVE  Pending(q)'
  <2>1. Pending(q) /\ Written(q)' = Written(q)
    BY <1>0, <1>1 DEF PendingWrites, Written
  <2>2. QED
    BY <1>1, <2>1 DEF Pending
<1>5. ASSUME call'[p].at \in SetSteps, call'[p].src # << >>
      PROVE  \E v \in StoredFor[call'[p].key] : call'[p].src = Whole(v) /\ v \in Values
  <2>1. PICK k \in KeysOf[p] : \/ BeginSet(p, k, << >>)
                               \/ \E v \in StoredFor[k] : BeginSet(p, k, Whole(v))
    BY <1>0, <1>5 DEF Client, BeginContains, BeginGet, BeginDelete, BeginDeleteAll, Begin,
                      SetSteps
  <2>2. PICK v \in StoredFor[k] : BeginSet(p, k, Whole(v))
    BY <1>0, <1>5, <2>1 DEF BeginSet, Begin
  <2>3. call'[p].key = k /\ call'[p].src = Whole(v)
    BY <1>0, <2>2 DEF BeginSet, Begin
  <2>4. QED
    BY <2>2, <2>3, ClientAssumption
<1>6. Pending(p)'
  <2>1. SUFFICES ASSUME call'[p].at \in SetSteps, call'[p].src # << >>
                 PROVE  /\ Len(Written(p)') + Len(call'[p].src) <= Chunks
                        /\ \E x \in StoredFor[call'[p].key] :
                             AllOf(call'[p].src, x) /\ AllOf(Written(p)', x)
    BY DEF Pending
  <2>2. PICK v \in StoredFor[call'[p].key] : call'[p].src = Whole(v) /\ v \in Values
    BY <1>5, <2>1
  <2>3. Written(p)' = << >>
    BY <1>1 DEF Written, LockedSteps
  <2>4. Len(<< >>) = 0 /\ AllOf(<< >>, v)
    BY EmptySeq DEF AllOf
  <2>5. Len(call'[p].src) = Chunks /\ AllOf(call'[p].src, v)
    BY <2>2, WholeType DEF AllOf, Whole
  <2>6. QED
    BY <2>3, <2>4, <2>5, ModulusPositive
<1>7. QED
  BY <1>2, <1>3, <1>4, <1>6 DEF PendingWrites

LEMMA ContentNext == ContentInv /\ [Next]_vars => ContentInv'
<1> SUFFICES ASSUME ContentInv, [Next]_vars
             PROVE  ContentInv'
  OBVIOUS
<1>0. TypeInv'
  BY NextType DEF ContentInv
<1>1. ASSUME UNCHANGED <<data, mu, call>>
      PROVE  ContentInv'
  <2>1. \A p \in Procs : Pending(p) => Pending(p)'
    BY <1>1 DEF Pending, Written
  <2>2. QED
    BY <1>0, <1>1, <2>1 DEF ContentInv, LockHeld, PendingWrites, FilesHoldOneValue
<1>2. CASE UNCHANGED vars
  BY <1>1, <1>2 DEF vars, diskVars
<1>3. CASE UncacheStep
  BY <1>1, <1>3 DEF UncacheStep, UncacheLater
<1>4. CASE Restart
  <2>1. UNCHANGED data /\ \A p \in Procs : call'[p].at = "idle"
    BY <1>4 DEF Restart, RestartDisk, IdleCalls
  <2>2. LockHeld' /\ PendingWrites'
    BY <2>1 DEF LockHeld, LockedSteps, PendingWrites, Pending, SetSteps
  <2>3. FilesHoldOneValue'
    BY <2>1 DEF ContentInv, FilesHoldOneValue
  <2>4. QED
    BY <1>0, <2>2, <2>3 DEF ContentInv
<1>5. QED
  BY <1>0, <1>2, <1>3, <1>4, ContentStep, ContentClient DEF ContentInv, Next, Work

(* For any number of requests that write, remove, truncate and fail to     *)
(* write the files of any number of keys, restarts included: no file ever  *)
(* holds pieces of two values, or of a value that was not stored under its *)
(* key, or more than one value's worth of them.                            *)
THEOREM WritesNeverMix == Spec => []WritesDoNotMix
<1>1. Spec => []ContentInv
  BY ContentInit, ContentNext, PTL DEF Spec
<1>2. ContentInv => WritesDoNotMix
  BY DEF ContentInv, FilesHoldOneValue, OneValue, AllOf, WritesDoNotMix
<1>3. QED
  BY <1>1, <1>2, PTL

-----------------------------------------------------------------------------
(***************************************************************************)
(* The mutex.  That a goroutine in a section holds it is LockHeld; the     *)
(* other direction is that every step out of a section gives it back.      *)
(***************************************************************************)
HolderInSection == \A p \in Procs : mu = p => call[p].at \in LockedSteps

LEMMA StepChangesMutex ==
  ASSUME NEW p \in Procs, Step(p)
  PROVE  mu' = mu \/ mu' \in {Nobody, p}
<1>1. CASE ContainsLru(p) \/ ContainsDisk(p) \/ GetLookup(p) \/ GetHit(p) \/ GetOpen(p)
             \/ GetRead(p) \/ GetDecode(p) \/ GetReadFails(p)
             \/ GetEOF(p) \/ GetLock(p) \/ GetCache(p)
  BY <1>1 DEF ContainsLru, ContainsDisk, GetLookup, GetHit, GetOpen, OpenStream, GetRead,
              ReadChunk, GetDecode, DropStream, GetReadFails, ReadRefused, GetEOF, GetLock,
              LockCache, GetCache, EvictOne, CacheStore, CacheNothing, diskVars
<1>2. CASE SetLookup(p) \/ SetAdd(p) \/ SetOpen(p) \/ SetCopy(p)
  BY <1>2 DEF SetLookup, SetAdd, SetOpen, WriteOpen, WriteRefused, SetCopy, WriteChunk,
              WriteClose, WriteFails, diskVars
<1>3. CASE DeleteLru(p) \/ DeleteDisk(p) \/ DeleteAllLru(p) \/ DeleteAllDisk(p)
  BY <1>3 DEF DeleteLru, DeleteDisk, Erase, DeleteAllLru, DeleteAllDisk, EraseAll, diskVars
<1>4. QED
  BY <1>1, <1>2, <1>3 DEF Step

LEMMA StepReleases ==
  ASSUME TypeInv, LockHeld, HolderInSection, NEW p \in Procs, Step(p), mu' = p
  PROVE  call'[p].at \in LockedSteps
<1>0. call \in [Procs -> Call] /\ Nobody # p
  BY NamesAssumption DEF TypeInv
<1>1. mu = p => call[p].at \in LockedSteps
  BY DEF HolderInSection
<1>2. CASE ContainsLru(p) \/ ContainsDisk(p) \/ GetLookup(p) \/ GetHit(p) \/ GetOpen(p)
             \/ GetRead(p) \/ GetDecode(p) \/ GetReadFails(p) \/ GetEOF(p)
             \/ SetLookup(p) \/ SetAdd(p)
             \/ DeleteLru(p) \/ DeleteDisk(p) \/ DeleteAllLru(p) \/ DeleteAllDisk(p)
  <2>1. call[p].at \notin LockedSteps /\ UNCHANGED mu
    BY <1>2 DEF ContainsLru, ContainsDisk, GetLookup, GetHit, GetOpen, OpenStream, GetRead,
                ReadChunk, GetDecode, DropStream, GetReadFails, ReadRefused, GetEOF,
                SetLookup,
                SetAdd, DeleteLru, DeleteDisk, Erase, DeleteAllLru, DeleteAllDisk, EraseAll,
                LockedSteps, diskVars
  <2>2. QED
    BY <1>1, <2>1
<1>3. CASE GetLock(p)
  BY <1>0, <1>3, NextStep DEF GetLock, LockedSteps
<1>4. CASE GetCache(p)
  BY <1>0, <1>4 DEF GetCache, EvictOne, CacheStore, CacheNothing, LockedSteps
<1>5. CASE SetOpen(p)
  <2>1. CASE WriteOpen(p, call[p].key) /\ Goto(p, "SetCopy")
    BY <1>0, <2>1, NextStep DEF LockedSteps
  <2>2. CASE WriteRefused
    BY <1>0, <2>2 DEF WriteRefused, Unlocked, diskVars
  <2>3. QED
    BY <1>5, <2>1, <2>2 DEF SetOpen
<1>6. CASE SetCopy(p)
  <2>1. CASE call' = [call EXCEPT ![p].src = Tail(@)]
    BY <1>0, <1>6, <2>1 DEF SetCopy, LockedSteps, Call
  <2>2. QED
    BY <1>0, <1>6, <2>1 DEF SetCopy, WriteClose, WriteFails
<1>7. QED
  BY <1>2, <1>3, <1>4, <1>5, <1>6 DEF Step

LEMMA HolderNext == ContentInv /\ HolderInSection /\ [Next]_vars => HolderInSection'
<1> SUFFICES ASSUME ContentInv, HolderInSection, [Next]_vars
             PROVE  HolderInSection'
  OBVIOUS
<1>0. TypeInv /\ LockHeld /\ Nobody \notin Procs /\ call \in [Procs -> Call]
  BY NamesAssumption DEF ContentInv, TypeInv
<1>1. CASE UNCHANGED vars \/ UncacheStep
  BY <1>1 DEF vars, diskVars, UncacheStep, UncacheLater, HolderInSection
<1>2. CASE Restart
  BY <1>0, <1>2 DEF Restart, RestartDisk, HolderInSection
<1>3. ASSUME NEW p \in Procs, Client(p)
      PROVE  HolderInSection'
  <2>1. UNCHANGED mu /\ call[p].at = "idle" /\ \A q \in Procs \ {p} : call'[q] = call[q]
    BY <1>0, <1>3 DEF Client, BeginContains, BeginGet, BeginSet, BeginDelete,
                      BeginDeleteAll,
                      Begin, diskVars
  <2>2. QED
    BY <2>1 DEF HolderInSection, LockedSteps
<1>4. ASSUME NEW p \in Procs, Step(p)
      PROVE  HolderInSection'
  <2>1. \A q \in Procs \ {p} : call'[q] = call[q]
    BY <1>0, <1>4, StepStaysInCall DEF StaysInCall
  <2>2. mu' = mu \/ mu' \in {Nobody, p}
    BY <1>0, <1>4, StepChangesMutex
  <2>3. mu' = p => call'[p].at \in LockedSteps
    BY <1>0, <1>4, StepReleases
  <2>4. QED
    BY <1>0, <2>1, <2>2, <2>3 DEF HolderInSection
<1>5. QED
  BY <1>1, <1>2, <1>3, <1>4 DEF Next, Work

(* Whatever fails, panics or dies, the mutex of the store is with the      *)
(* goroutine in the middle of a write or an eviction, which waits for      *)
(* nobody, or it is free.                                                  *)
THEOREM MutexAlwaysFollowsSections == Spec => []MutexFollowsSections
<1>1. ContentInv /\ HolderInSection => MutexFollowsSections
  BY DEF ContentInv, LockHeld, HolderInSection, LockedSteps, MutexFollowsSections
<1>2. Init => HolderInSection
  BY NamesAssumption DEF Init, InitDisk, HolderInSection
<1>3. QED
  BY <1>1, <1>2, ContentInit, ContentNext, HolderNext, PTL DEF Spec

-----------------------------------------------------------------------------
(***************************************************************************)
(* What Get returns.  The LRU cache holds complete values, or nothing,     *)
(* stored under the key of their entry; an open stream reads the file of   *)
(* its key, or what that file held when it was removed.  A reader may be   *)
(* overtaken by writers, so it may read pieces of several values of its    *)
(* key; what passes for a picture then is made of two JPEGs of that key.   *)
(***************************************************************************)
From(k, s) == \A i \in DOMAIN s : s[i] \in StoredFor[k]

Complete(k, s) == s = << >> \/ \E x \in StoredFor[k] : s = Whole(x)

StoredEntry == {e \in LP!Entry : Complete(e.key, e.value)}

LruHoldsStored == evictList \in Seq(StoredEntry)

ReadsItsKey(p) ==
  call[p].at = "GetRead" =>
    /\ stream[p].from \in {call[p].key, Unlinked}
    /\ From(call[p].key, stream[p].got) /\ From(call[p].key, stream[p].left)

SetsItsKey(p) ==
  call[p].at \in {"SetLookup", "SetAdd"} => Complete(call[p].key, call[p].src)

GetInv ==
  /\ ContentInv
  /\ LruHoldsStored
  /\ \A p \in Procs : ReadsItsKey(p) /\ SetsItsKey(p)
  /\ GetReturnsStored

-----------------------------------------------------------------------------
LEMMA WholeElements ==
  ASSUME NEW x
  PROVE  DOMAIN Whole(x) = 1..Chunks /\ 1 \in DOMAIN Whole(x)
         /\ \A i \in DOMAIN Whole(x) : Whole(x)[i] = x
<1>1. Chunks \in Nat /\ 1 \in 1..Chunks
  BY ChunksAssumption
<1>2. QED
  BY <1>1 DEF Whole

LEMMA CompleteIsFrom ==
  ASSUME NEW k, NEW s, Complete(k, s)
  PROVE  From(k, s)
  BY WholeElements, EmptySeq DEF Complete, From

(* A decoder given pieces of values of one key returns one of them, in its *)
(* own encoding, or a mixture of two JPEGs, or fails.                      *)
LEMMA DecodedIsStored ==
  ASSUME NEW k \in Keys, NEW encoding, NEW bytes \in Bytes, From(k, bytes),
         NEW image \in Decoded(encoding, bytes)
  PROVE  \/ image \in StoredFor[k] /\ Format[image] = encoding
         \/ /\ image = Garbled /\ encoding = "jpg"
            /\ MayPassForJpeg(bytes) /\ TwoJpegs(k)
<1>1. CASE image \in Decodable(encoding, bytes)
  <2>1. Format[image] = encoding /\ bytes = Whole(image)
    BY <1>1 DEF Decodable
  <2>2. 1 \in DOMAIN bytes /\ bytes[1] = image
    BY <2>1, WholeElements
  <2>3. QED
    BY <2>1, <2>2 DEF From
<1>2. CASE image = Garbled /\ encoding = "jpg" /\ MayPassForJpeg(bytes)
  <2>1. DOMAIN bytes = 1..Chunks
    BY <1>2, LenProperties DEF MayPassForJpeg, Bytes
  <2>2. \A i \in 1..Chunks : bytes[i] \in StoredFor[k] /\ Format[bytes[i]] = "jpg"
    BY <1>2, <2>1 DEF From, MayPassForJpeg
  <2>3. PICK i, j \in 1..Chunks : bytes[i] # bytes[j]
    BY <1>2 DEF MayPassForJpeg
  <2>4. TwoJpegs(k)
    BY <2>2, <2>3 DEF TwoJpegs
  <2>5. QED
    BY <1>2, <2>4
<1>3. QED
  BY <1>1, <1>2 DEF Decoded

(* What the LRU cache holds is never a mixture.                            *)
LEMMA CompleteIsNoMixture ==
  ASSUME NEW k, NEW s, Complete(k, s)
  PROVE  ~MayPassForJpeg(s)
<1>1. CASE s = << >>
  <2>1. Len(s) = 0 /\ Chunks \in Nat \ {0}
    BY <1>1, EmptySeq, ChunksAssumption
  <2>2. QED
    BY <2>1 DEF MayPassForJpeg
<1>2. ASSUME NEW x, s = Whole(x)
      PROVE  ~MayPassForJpeg(s)
  BY <1>2 DEF MayPassForJpeg, Whole
<1>3. QED
  BY <1>1, <1>2 DEF Complete

-----------------------------------------------------------------------------
(***************************************************************************)
(* The LRU cache moves and drops entries, and adds the one it is given: a  *)
(* set that holds all its entries before holds them afterwards.            *)
(***************************************************************************)
LEMMA PieceIn ==
  ASSUME NEW S, NEW s \in Seq(S), NEW m \in 1..Len(s) + 1, NEW n \in 0..Len(s)
  PROVE  SubSeq(s, m, n) \in Seq(S)
<1>1. Len(s) \in Nat /\ DOMAIN s = 1..Len(s)
  BY LenProperties
<1>2. \A i \in m..n : s[i] \in S
  BY <1>1, ElementOfSeq
<1>3. QED
  BY <1>1, <1>2, SubSeqProperties

LEMMA WithoutIn ==
  ASSUME NEW S, evictList \in Seq(S), LP!IInv, NEW k \in items
  PROVE  lru!Without(k) \in Seq(S) /\ lru!Element(k) \in S /\ lru!Element(k).key = k
<1> DEFINE n == LP!Position(k)
<1>0. LP!SizeAssumption
  BY LruSizeAssumption DEF LP!SizeAssumption
<1>1. n \in 1..Len(evictList) /\ LP!Element(k).key = k
  BY <1>0, LP!PositionOfKey DEF LP!IInv
<1>2. lru!Position(k) = n /\ lru!Element(k) = LP!Element(k) /\ LP!Element(k) = evictList[n]
  BY DEF lru!Position, LP!Position, lru!Element, LP!Element
<1> HIDE DEF n
<1>3. Len(evictList) \in Nat
  BY LenProperties
<1>4. /\ SubSeq(evictList, 1, n - 1) \in Seq(S)
      /\ SubSeq(evictList, n + 1, Len(evictList)) \in Seq(S)
  <2>1. 1 \in 1..Len(evictList) + 1 /\ n - 1 \in 0..Len(evictList)
    BY <1>1, <1>3
  <2>2. n + 1 \in 1..Len(evictList) + 1 /\ Len(evictList) \in 0..Len(evictList)
    BY <1>1, <1>3
  <2>3. QED
    BY <2>1, <2>2, PieceIn
<1>5. lru!Without(k) \in Seq(S)
  BY <1>2, <1>4, ConcatProperties DEF lru!Without, lru!SE!RemoveAt
<1>6. lru!Element(k) \in S /\ lru!Element(k).key = k
  BY <1>1, <1>2, ElementOfSeq
<1>7. QED
  BY <1>5, <1>6

LEMMA LruKeepsEntries ==
  ASSUME NEW S, evictList \in Seq(S), LP!IInv,
         \/ UNCHANGED lruVars
         \/ \E k \in Keys : lru!Get(k) \/ lru!Remove(k)
         \/ \E k \in Keys : \E v : [key |-> k, value |-> v] \in S /\ lru!Add(k, v)
         \/ lru!RemoveOldest \/ lru!Purge
  PROVE  evictList' \in Seq(S)
<1>1. ASSUME NEW e \in S, NEW s \in Seq(S)
      PROVE  <<e>> \o s \in Seq(S)
  BY <1>1, ConcatProperties
<1>2. CASE UNCHANGED lruVars
  BY <1>2 DEF lruVars
<1>3. ASSUME NEW k \in Keys, lru!Get(k)
      PROVE  evictList' \in Seq(S)
  <2>1. CASE k \in items
    BY <1>1, <1>3, <2>1, WithoutIn DEF lru!Get, lru!Contains
  <2>2. QED
    BY <1>3, <2>1 DEF lru!Get, lru!Contains, lru!vars
<1>4. ASSUME NEW k \in Keys, lru!Remove(k)
      PROVE  evictList' \in Seq(S)
  BY <1>4, WithoutIn DEF lru!Remove, lru!RemoveElement, lru!Contains, lru!vars
<1>5. ASSUME NEW k \in Keys, NEW v, [key |-> k, value |-> v] \in S, lru!Add(k, v)
      PROVE  evictList' \in Seq(S)
  <2>1. CASE lru!AddExisting(k, v)
    BY <1>1, <1>5, <2>1, WithoutIn DEF lru!AddExisting, lru!Contains
  <2>2. CASE lru!AddNew(k, v)
    <3> DEFINE pushed == <<[key |-> k, value |-> v]>> \o evictList
    <3>1. pushed \in Seq(S) /\ Len(pushed) \in Nat
      BY <1>1, <1>5, LenProperties
    <3>2. Len(pushed) = Len(evictList) + 1 /\ Len(evictList) \in Nat
      BY <1>5, LenProperties, ConcatProperties
    <3>3. evictList' = pushed \/ evictList' = SubSeq(pushed, 1, Len(pushed) - 1)
      BY <2>2 DEF lru!AddNew, lru!SE!Front
    <3> HIDE DEF pushed
    <3>4. 1 \in 1..Len(pushed) + 1 /\ Len(pushed) - 1 \in 0..Len(pushed)
      BY <3>1, <3>2
    <3>5. SubSeq(pushed, 1, Len(pushed) - 1) \in Seq(S)
      BY <3>1, <3>4, PieceIn
    <3>6. QED
      BY <3>1, <3>3, <3>5
  <2>3. QED
    BY <1>5, <2>1, <2>2 DEF lru!Add
<1>6. CASE lru!RemoveOldest
  <2>1. CASE evictList # << >> /\ lru!RemoveElement(lru!SE!Last(evictList).key)
    <3>1. lru!SE!Last(evictList).key \in items
      <4>1. Len(evictList) \in DOMAIN evictList
        BY <2>1, EmptySeq, LenProperties
      <4>2. QED
        BY <4>1 DEF LP!IInv, LP!ListMatchesMap, lru!SE!Last
    <3>2. QED
      BY <2>1, <3>1, WithoutIn DEF lru!RemoveElement
  <2>2. QED
    BY <1>6, <2>1 DEF lru!RemoveOldest, lru!vars
<1>7. CASE lru!Purge
  BY <1>7, EmptySeq DEF lru!Purge
<1>8. QED
  BY <1>2, <1>3, <1>4, <1>5, <1>6, <1>7

(* So a set that has the entry each Set adds has the entries at all times. *)
LEMMA StepKeepsEntries ==
  ASSUME TypeInv, NEW S, evictList \in Seq(S), NEW p \in Procs, Step(p),
         call[p].at = "SetAdd" => [key |-> call[p].key, value |-> call[p].src] \in S
  PROVE  evictList' \in Seq(S)
<1>0. call[p].key \in Keys /\ LP!IInv
  BY FieldTypes DEF TypeInv
<1>1. CASE UNCHANGED lruVars
  BY <1>0, <1>1, LruKeepsEntries
<1>2. CASE GetHit(p)
  BY <1>0, <1>2, LruKeepsEntries DEF GetHit
<1>3. CASE SetAdd(p)
  BY <1>0, <1>3, LruKeepsEntries DEF SetAdd
<1>4. CASE DeleteLru(p) \/ DeleteAllLru(p)
  BY <1>0, <1>4, LruKeepsEntries DEF DeleteLru, DeleteAllLru
<1>5. QED
  BY <1>1, <1>2, <1>3, <1>4
     DEF Step, ContainsLru, ContainsDisk, GetLookup, GetOpen, GetRead, GetDecode,
         GetReadFails, GetEOF, GetLock,
         GetCache, SetLookup, SetOpen, SetCopy, DeleteDisk, DeleteAllDisk

LEMMA LruStep ==
  ASSUME GetInv, NEW p \in Procs, Step(p)
  PROVE  LruHoldsStored'
<1>0. /\ TypeInv /\ call[p].key \in Keys /\ call[p].src \in Bytes
      /\ evictList \in Seq(StoredEntry)
  BY FieldTypes DEF GetInv, ContentInv, TypeInv, LruHoldsStored, AtMostOneValue
<1>1. ASSUME call[p].at = "SetAdd"
      PROVE  [key |-> call[p].key, value |-> call[p].src] \in StoredEntry
  <2>1. Complete(call[p].key, call[p].src)
    BY <1>1 DEF GetInv, SetsItsKey
  <2>2. QED
    BY <1>0, <2>1 DEF StoredEntry, LP!Entry
<1>2. QED
  BY <1>0, <1>1, StepKeepsEntries DEF LruHoldsStored

-----------------------------------------------------------------------------
(* What a step of p does to the streams of the other processes: it may     *)
(* unlink the file under them.                                             *)
LEMMA StepOnOthers ==
  ASSUME TypeInv, NEW p \in Procs, Step(p), NEW q \in Procs \ {p}
  PROVE  \/ stream'[q] = stream[q]
         \/ stream'[q] = [stream[q] EXCEPT !.from = Unlinked, !.left = Content(q)]
<1>0. stream \in [Procs -> Stream]
  BY DEF TypeInv, TypeOKDisk
<1>1. CASE ContainsLru(p) \/ ContainsDisk(p) \/ GetLookup(p) \/ GetHit(p)
  BY <1>1 DEF ContainsLru, ContainsDisk, GetLookup, GetHit, diskVars
<1>2. CASE GetOpen(p) \/ GetRead(p)
  BY <1>0, <1>2 DEF GetOpen, OpenStream, GetRead, ReadChunk
<1>3. CASE GetDecode(p) \/ GetReadFails(p) \/ GetEOF(p) \/ GetLock(p)
  BY <1>0, <1>3 DEF GetDecode, DropStream, GetReadFails, GetEOF, GetLock, LockCache,
                    ReadRefused, diskVars
<1>4. CASE GetCache(p)
  BY <1>0, <1>4 DEF GetCache, EvictOne, CacheStore, CacheNothing
<1>5. CASE SetLookup(p) \/ SetAdd(p) \/ DeleteLru(p) \/ DeleteAllLru(p)
  BY <1>5 DEF SetLookup, SetAdd, DeleteLru, DeleteAllLru, diskVars
<1>6. CASE SetOpen(p)
  BY <1>6 DEF SetOpen, WriteOpen, WriteRefused, diskVars
<1>7. CASE SetCopy(p)
  BY <1>7 DEF SetCopy, WriteChunk, WriteClose, WriteFails
<1>8. CASE DeleteDisk(p) \/ DeleteAllDisk(p)
  BY <1>8 DEF DeleteDisk, Erase, DeleteAllDisk, EraseAll, RemoveFiles
<1>9. QED
  BY <1>1, <1>2, <1>3, <1>4, <1>5, <1>6, <1>7, <1>8 DEF Step

(* Where p is after its step, and what it holds there: a fresh stream, a   *)
(* stream with one chunk more, or the source of its Set as it was.         *)
LEMMA StepOnOwn ==
  ASSUME TypeInv, NEW p \in Procs, Step(p)
  PROVE  /\ call'[p].at = "GetRead" =>
              \/ stream'[p] = [from |-> call[p].key, got |-> << >>, left |-> << >>]
              \/ call[p].at = "GetRead" /\ ReadChunk(p)
         /\ call'[p].at \in {"SetLookup", "SetAdd"} =>
              call[p].at \in {"SetLookup", "SetAdd"} /\ call'[p].src = call[p].src
<1> DEFINE Here == {"GetRead", "SetLookup", "SetAdd"}
           Goal == /\ call'[p].at = "GetRead" =>
                        \/ stream'[p] = [from |-> call[p].key, got |-> << >>, left |-> << >>]
                        \/ call[p].at = "GetRead" /\ ReadChunk(p)
                   /\ call'[p].at \in {"SetLookup", "SetAdd"} =>
                        call[p].at \in {"SetLookup", "SetAdd"} /\ call'[p].src = call[p].src
<1>0. call \in [Procs -> Call] /\ stream \in [Procs -> Stream]
  BY DEF TypeInv, TypeOKDisk
<1>1. ASSUME call'[p].at \notin Here
      PROVE  Goal
  BY <1>1
<1>2. ASSUME NEW step, Goto(p, step), step \notin Here
      PROVE  Goal
  BY <1>0, <1>1, <1>2, NextStep
<1>3. ASSUME NEW result, NEW image,
             Return(p, result) \/ ReturnImage(p, image) \/ DeleteThenReturn(p, result)
      PROVE  Goal
  <2>1. call'[p].at \in {"idle", "DeleteLru"}
    BY <1>0, <1>3, NextStep
  <2>2. QED
    BY <1>1, <2>1
<1>4. CASE ContainsLru(p) \/ ContainsDisk(p)
  BY <1>2, <1>3, <1>4 DEF ContainsLru, ContainsDisk
<1>5. CASE GetLookup(p) \/ GetHit(p)
  BY <1>2, <1>3, <1>5 DEF GetLookup, GetHit
<1>6. CASE GetOpen(p)
  <2>1. CASE OpenStream(p, call[p].key, TRUE) /\ Goto(p, "GetRead")
    <3>1. call'[p].at = "GetRead"
      BY <1>0, <2>1, NextStep
    <3>2. stream'[p] = [from |-> call[p].key, got |-> << >>, left |-> << >>]
      BY <1>0, <2>1 DEF OpenStream
    <3>3. QED
      BY <3>1, <3>2
  <2>2. QED
    BY <1>3, <1>6, <2>1 DEF GetOpen
<1>7. CASE GetRead(p)
  BY <1>7 DEF GetRead
<1>8. CASE GetDecode(p) \/ GetReadFails(p) \/ GetEOF(p) \/ GetLock(p)
  BY <1>2, <1>3, <1>8 DEF GetDecode, GetReadFails, GetEOF, GetLock
<1>9. CASE GetCache(p)
  <2>1. CASE UNCHANGED call
    BY <1>1, <1>9, <2>1 DEF GetCache
  <2>2. QED
    BY <1>3, <1>9, <2>1 DEF GetCache
<1>10. CASE SetLookup(p)
  <2>1. PICK step \in {"SetOpen", "SetAdd"} : Goto(p, step)
    BY <1>10 DEF SetLookup
  <2>2. call'[p].at = step /\ call'[p].src = call[p].src
    BY <1>0, <2>1 DEF Goto, Call
  <2>3. QED
    BY <1>10, <2>1, <2>2 DEF SetLookup
<1>11. CASE SetAdd(p)
  <2>1. call'[p].at = "SetOpen"
    BY <1>0, <1>11 DEF SetAdd, Call
  <2>2. QED
    BY <1>1, <2>1
<1>12. CASE SetOpen(p)
  BY <1>2, <1>3, <1>12 DEF SetOpen
<1>13. CASE SetCopy(p)
  <2>1. CASE call' = [call EXCEPT ![p].src = Tail(@)]
    <3>1. call'[p].at = "SetCopy"
      BY <1>0, <1>13, <2>1 DEF SetCopy, Call
    <3>2. QED
      BY <1>1, <3>1
  <2>2. QED
    BY <1>3, <1>13, <2>1 DEF SetCopy
<1>14. CASE DeleteLru(p) \/ DeleteDisk(p)
  BY <1>2, <1>3, <1>14 DEF DeleteLru, DeleteDisk
<1>15. CASE DeleteAllLru(p) \/ DeleteAllDisk(p)
  BY <1>2, <1>3, <1>15 DEF DeleteAllLru, DeleteAllDisk
<1>16. QED
  BY <1>4, <1>5, <1>6, <1>7, <1>8, <1>9, <1>10, <1>11, <1>12, <1>13, <1>14, <1>15 DEF Step

(* What the file behind a stream holds is pieces of values of the key.     *)
LEMMA ContentFrom ==
  ASSUME GetInv, NEW q \in Procs, call[q].at = "GetRead"
  PROVE  From(call[q].key, Content(q))
<1>1. ReadsItsKey(q) /\ call[q].key \in Keys /\ Unlinked \notin Keys
  BY FieldTypes, NamesAssumption DEF GetInv, ContentInv, TypeInv
<1>2. CASE stream[q].from \in Keys
  <2>1. stream[q].from = call[q].key /\ Content(q) = data[call[q].key]
    BY <1>1, <1>2 DEF ReadsItsKey, Content
  <2>2. OneValue(call[q].key, data[call[q].key])
    BY <1>1 DEF GetInv, ContentInv, FilesHoldOneValue
  <2>3. From(call[q].key, data[call[q].key])
    <3>1. CASE data[call[q].key] = << >>
      BY <3>1, EmptySeq DEF From
    <3>2. QED
      BY <2>2, <3>1 DEF OneValue, AllOf, From
  <2>4. QED
    BY <2>1, <2>3
<1>3. CASE stream[q].from \notin Keys
  BY <1>1, <1>3 DEF ReadsItsKey, Content
<1>4. QED
  BY <1>2, <1>3

LEMMA ChunkReadFrom ==
  ASSUME GetInv, NEW p \in Procs, call[p].at = "GetRead", ReadChunk(p)
  PROVE  /\ From(call[p].key, stream'[p].got)
         /\ stream'[p].from = stream[p].from /\ stream'[p].left = stream[p].left
<1> DEFINE got == stream[p].got
           chunk == Content(p)[Len(got) + 1]
<1>1. /\ TypeOKDisk /\ stream \in [Procs -> Stream] /\ got \in Seq(Values)
      /\ Content(p) \in Seq(Values) /\ Len(got) \in Nat /\ Len(Content(p)) \in Nat
      /\ From(call[p].key, got) /\ From(call[p].key, Content(p))
  BY ContentType, ContentFrom
     DEF GetInv, ContentInv, TypeInv, TypeOKDisk, Stream, Bytes, AtMostOneValue, ReadsItsKey
<1>2. stream' = [stream EXCEPT ![p].got = Append(got, chunk)]
  BY DEF ReadChunk
<1>3. Len(got) + 1 \in 1..Len(Content(p)) /\ DOMAIN Content(p) = 1..Len(Content(p))
  BY <1>1, LenProperties DEF ReadChunk, AtEOF
<1>4. chunk \in Values /\ chunk \in StoredFor[call[p].key]
  BY <1>1, <1>3, ElementOfSeq DEF From
<1> HIDE DEF got, chunk
<1>5. /\ stream'[p].got = Append(got, chunk)
      /\ stream'[p].from = stream[p].from /\ stream'[p].left = stream[p].left
  BY <1>1, <1>2 DEF Stream
<1>6. /\ Append(got, chunk) \in Seq(Values) /\ Len(Append(got, chunk)) = Len(got) + 1
      /\ \A i \in 1..Len(got) : Append(got, chunk)[i] = got[i]
      /\ Append(got, chunk)[Len(got) + 1] = chunk
  BY <1>1, <1>4, AppendProperties
<1>7. /\ DOMAIN Append(got, chunk) = 1..Len(got) + 1 /\ DOMAIN got = 1..Len(got)
      /\ \A i \in 1..Len(got) + 1 : i \in 1..Len(got) \/ i = Len(got) + 1
  BY <1>1, <1>6, LenProperties
<1>8. From(call[p].key, Append(got, chunk))
  BY <1>1, <1>4, <1>6, <1>7 DEF From
<1>9. QED
  BY <1>5, <1>8

LEMMA StreamStep ==
  ASSUME GetInv, NEW p \in Procs, Step(p), NEW q \in Procs
  PROVE  ReadsItsKey(q)' /\ SetsItsKey(q)'
<1>0. /\ TypeInv /\ ReadsItsKey(q) /\ SetsItsKey(q) /\ stream \in [Procs -> Stream]
      /\ \A r \in Procs \ {p} : call'[r] = call[r]
      /\ call'[p].key = call[p].key
  BY StepStaysInCall DEF GetInv, ContentInv, TypeInv, TypeOKDisk, StaysInCall
<1>1. CASE q # p
  <2>1. \/ stream'[q] = stream[q]
        \/ stream'[q] = [stream[q] EXCEPT !.from = Unlinked, !.left = Content(q)]
    BY <1>0, <1>1, StepOnOthers
  <2>2. call[q].at = "GetRead" => From(call[q].key, Content(q))
    BY ContentFrom
  <2>3. stream[q] \in Stream
    BY <1>0
  <2>4. ReadsItsKey(q)'
    BY <1>0, <1>1, <2>1, <2>2, <2>3 DEF ReadsItsKey, Stream
  <2>5. SetsItsKey(q)'
    BY <1>0, <1>1 DEF SetsItsKey
  <2>6. QED
    BY <2>4, <2>5
<1>2. CASE q = p
  <2>1. ReadsItsKey(p)'
    <3>1. CASE stream'[p] = [from |-> call[p].key, got |-> << >>, left |-> << >>]
      <4>1. From(call[p].key, << >>)
        BY EmptySeq DEF From
      <4>2. QED
        BY <1>0, <3>1, <4>1 DEF ReadsItsKey
    <3>2. CASE call[p].at = "GetRead" /\ ReadChunk(p)
      BY <1>0, <1>2, <3>2, ChunkReadFrom DEF ReadsItsKey
    <3>3. QED
      BY <1>0, <3>1, <3>2, StepOnOwn DEF ReadsItsKey
  <2>2. SetsItsKey(p)'
    BY <1>0, <1>2, StepOnOwn DEF SetsItsKey
  <2>3. QED
    BY <1>2, <2>1, <2>2
<1>3. QED
  BY <1>1, <1>2

-----------------------------------------------------------------------------
LEMMA NextResult ==
  ASSUME call \in [Procs -> Call], NEW p \in Procs, NEW step, NEW result, NEW image
  PROVE  /\ Goto(p, step) =>
              call'[p].ext = call[p].ext /\ call'[p].ret = call[p].ret /\ call'[p].img = call[p].img
         /\ Return(p, result) \/ DeleteThenReturn(p, result) =>
              call'[p].ext = call[p].ext /\ call'[p].ret = result /\ call'[p].img = call[p].img
         /\ ReturnImage(p, image) =>
              call'[p].ext = call[p].ext /\ call'[p].ret = "image" /\ call'[p].img = image
  BY DEF Goto, Return, ReturnImage, DeleteThenReturn, Call

(* An image is returned from the LRU cache or from a stream.               *)
FromLru(p) ==
  /\ lru!Contains(call[p].key)
  /\ call'[p].img \in Decoded(LruDecoder(call[p].ext), lru!Element(call[p].key).value)

FromStream(p) ==
  call[p].at = "GetRead" /\ call'[p].img \in Decoded(call[p].ext, stream[p].got)

LEMMA StepOnResult ==
  ASSUME TypeInv, NEW p \in Procs, Step(p)
  PROVE  /\ call'[p].ext = call[p].ext
         /\ call'[p].ret = "image" =>
              \/ call[p].ret = "image" /\ call'[p].img = call[p].img
              \/ FromLru(p) \/ FromStream(p)
<1> DEFINE Goal == /\ call'[p].ext = call[p].ext
                   /\ call'[p].ret = "image" =>
                        \/ call[p].ret = "image" /\ call'[p].img = call[p].img
                        \/ FromLru(p) \/ FromStream(p)
<1>0. call \in [Procs -> Call]
  BY DEF TypeInv
<1>1. ASSUME NEW step, Goto(p, step)
      PROVE  Goal
  BY <1>0, <1>1, NextResult
<1>2. ASSUME NEW result, Return(p, result) \/ DeleteThenReturn(p, result),
             result = "image" => call[p].ret = "image"
      PROVE  Goal
  BY <1>0, <1>2, NextResult
<1>3. ASSUME UNCHANGED call
      PROVE  Goal
  BY <1>3
<1>4. CASE ContainsLru(p) \/ ContainsDisk(p)
  BY <1>1, <1>2, <1>4 DEF ContainsLru, ContainsDisk
<1>5. CASE GetLookup(p)
  BY <1>1, <1>5 DEF GetLookup
<1>6. CASE GetHit(p)
  <2>1. ASSUME lru!Contains(call[p].key),
               NEW image \in Decoded(LruDecoder(call[p].ext), lru!Element(call[p].key).value),
               ReturnImage(p, image)
        PROVE  Goal
    BY <1>0, <2>1, NextResult DEF FromLru
  <2>2. QED
    BY <1>2, <1>6, <2>1 DEF GetHit
<1>7. CASE GetOpen(p)
  BY <1>1, <1>2, <1>7 DEF GetOpen
<1>8. CASE GetRead(p)
  BY <1>3, <1>8 DEF GetRead
<1>9. CASE GetDecode(p)
  <2>1. ASSUME NEW image \in Decoded(call[p].ext, stream[p].got), ReturnImage(p, image)
        PROVE  Goal
    BY <1>0, <1>9, <2>1, NextResult DEF FromStream, GetDecode
  <2>2. QED
    BY <1>2, <1>9, <2>1 DEF GetDecode
<1>10. CASE GetReadFails(p) \/ GetEOF(p) \/ GetLock(p)
  BY <1>1, <1>2, <1>10 DEF GetReadFails, GetEOF, GetLock
<1>11. CASE GetCache(p)
  BY <1>2, <1>3, <1>11 DEF GetCache
<1>12. CASE SetLookup(p)
  BY <1>1, <1>12 DEF SetLookup
<1>13. CASE SetAdd(p)
  BY <1>0, <1>13 DEF SetAdd, Call
<1>14. CASE SetOpen(p)
  BY <1>1, <1>2, <1>14 DEF SetOpen
<1>15. CASE SetCopy(p)
  <2>1. CASE call' = [call EXCEPT ![p].src = Tail(call[p].src)]
    BY <1>0, <2>1 DEF Call
  <2>2. QED
    BY <1>2, <1>15, <2>1 DEF SetCopy
<1>16. CASE DeleteLru(p)
  BY <1>1, <1>16 DEF DeleteLru
<1>17. CASE DeleteDisk(p)
  <2>1. Return(p, call[p].ret) \/ Return(p, "ok") \/ Return(p, "error")
    BY <1>17 DEF DeleteDisk
  <2>2. QED
    BY <1>2, <2>1
<1>18. CASE DeleteAllLru(p)
  BY <1>1, <1>18 DEF DeleteAllLru
<1>19. CASE DeleteAllDisk(p)
  <2>1. Return(p, "ok") \/ Return(p, "error")
    BY <1>19 DEF DeleteAllDisk
  <2>2. QED
    BY <1>2, <2>1
<1>20. QED
  BY <1>4, <1>5, <1>6, <1>7, <1>8, <1>9, <1>10, <1>11, <1>12, <1>13, <1>14, <1>15, <1>16,
     <1>17, <1>18, <1>19 DEF Step

LEMMA ResultStep ==
  ASSUME GetInv, NEW p \in Procs, Step(p)
  PROVE  GetReturnsStored'
<1> DEFINE k == call[p].key
<1>0. /\ TypeInv /\ GetReturnsStored /\ LP!IInv /\ k \in Keys
      /\ \A q \in Procs \ {p} : call'[q] = call[q]
      /\ call'[p].op = call[p].op /\ call'[p].key = k
      /\ call'[p].ext = call[p].ext
  BY StepStaysInCall, StepOnResult, FieldTypes DEF GetInv, ContentInv, TypeInv, StaysInCall
<1>1. CASE FromLru(p)
  <2>1. lru!Element(k) \in StoredEntry /\ lru!Element(k).key = k
    BY <1>0, <1>1, WithoutIn DEF GetInv, LruHoldsStored, FromLru, lru!Contains
  <2>2. /\ From(k, lru!Element(k).value) /\ lru!Element(k).value \in Bytes
        /\ ~MayPassForJpeg(lru!Element(k).value)
    BY <2>1, CompleteIsFrom, CompleteIsNoMixture DEF StoredEntry, LP!Entry
  <2>3. /\ call'[p].img \in StoredFor[k]
        /\ Format[call'[p].img] = LruDecoder(call[p].ext)
    BY <1>0, <1>1, <2>2, DecodedIsStored DEF FromLru
  <2>4. QED
    BY <1>0, <2>3 DEF GetReturnsStored, LruDecoder, TwoJpegs
<1>2. CASE FromStream(p)
  <2>1. From(k, stream[p].got) /\ stream[p].got \in Bytes
    BY <1>0, <1>2
       DEF GetInv, ReadsItsKey, FromStream, TypeInv, TypeOKDisk, Stream, AtMostOneValue
  <2>2. \/ call'[p].img \in StoredFor[k] /\ Format[call'[p].img] = call[p].ext
        \/ call'[p].img = Garbled /\ call[p].ext = "jpg" /\ TwoJpegs(k)
    BY <1>0, <1>2, <2>1, DecodedIsStored DEF FromStream
  <2>3. CASE call'[p].img = Garbled /\ call[p].ext = "jpg" /\ TwoJpegs(k)
    BY <1>0, <2>3 DEF GetReturnsStored, LruDecoder, TwoJpegs
  <2>4. CASE call'[p].img \in StoredFor[k] /\ Format[call'[p].img] = call[p].ext
    <3>1. call[p].ext \in {"png", "jpg"}
      BY <1>0, <2>4, FormatAssumption, ClientAssumption
    <3>2. QED
      BY <1>0, <2>4, <3>1 DEF GetReturnsStored, LruDecoder, TwoJpegs
  <2>5. QED
    BY <2>2, <2>3, <2>4
<1>3. CASE call'[p].ret = "image" => call[p].ret = "image" /\ call'[p].img = call[p].img
  BY <1>0, <1>3 DEF GetReturnsStored, LruDecoder, TwoJpegs
<1>4. QED
  BY <1>0, <1>1, <1>2, <1>3, StepOnResult

-----------------------------------------------------------------------------
LEMMA GetInit == Init => GetInv
<1> SUFFICES ASSUME Init
             PROVE  GetInv
  OBVIOUS
<1>1. \A p \in Procs : call[p].at = "idle" /\ call[p].op = "None"
  BY DEF Init, IdleCalls
<1>2. LruHoldsStored
  BY EmptySeq DEF Init, lru!Init, LruHoldsStored
<1>3. QED
  BY <1>1, <1>2, ContentInit DEF GetInv, ReadsItsKey, SetsItsKey, GetReturnsStored

(* An operation begins with no stream, a complete source, and no result.   *)
LEMMA GetClient ==
  ASSUME GetInv, NEW p \in Procs, Client(p)
  PROVE  /\ LruHoldsStored' /\ GetReturnsStored'
         /\ \A q \in Procs : ReadsItsKey(q)' /\ SetsItsKey(q)'
<1>0. /\ call \in [Procs -> Call] /\ LruHoldsStored /\ GetReturnsStored
      /\ \A q \in Procs : ReadsItsKey(q) /\ SetsItsKey(q)
  BY DEF GetInv, ContentInv, TypeInv
<1>1. \E operation, step, k, ext, src :
        /\ Begin(p, operation, step, k, ext, src)
        /\ step # "GetRead" /\ (step \in {"SetLookup", "SetAdd"} => Complete(k, src))
  BY DEF Client, BeginContains, BeginGet, BeginSet, BeginDelete, BeginDeleteAll, Complete
<1>2. /\ UNCHANGED <<stream, evictList>>
      /\ \A q \in Procs \ {p} : call'[q] = call[q]
      /\ call'[p].at # "GetRead" /\ call'[p].ret = "none"
      /\ call'[p].at \in {"SetLookup", "SetAdd"} => Complete(call'[p].key, call'[p].src)
  BY <1>0, <1>1 DEF Begin, diskVars, lruVars
<1>3. LruHoldsStored' /\ GetReturnsStored'
  BY <1>0, <1>2 DEF LruHoldsStored, GetReturnsStored, LruDecoder, TwoJpegs
<1>4. ASSUME NEW q \in Procs
      PROVE  ReadsItsKey(q)' /\ SetsItsKey(q)'
  BY <1>0, <1>2 DEF ReadsItsKey, SetsItsKey
<1>5. QED
  BY <1>3, <1>4

LEMMA GetNext == GetInv /\ [Next]_vars => GetInv'
<1> SUFFICES ASSUME GetInv, [Next]_vars
             PROVE  GetInv'
  OBVIOUS
<1>0. ContentInv'
  BY ContentNext DEF GetInv
<1>1. ASSUME UNCHANGED <<stream, evictList, call>>
      PROVE  GetInv'
  <2>1. \A p \in Procs : ReadsItsKey(p)' /\ SetsItsKey(p)'
    BY <1>1 DEF GetInv, ReadsItsKey, SetsItsKey
  <2>2. LruHoldsStored' /\ GetReturnsStored'
    BY <1>1 DEF GetInv, LruHoldsStored, GetReturnsStored, LruDecoder, TwoJpegs
  <2>3. QED
    BY <1>0, <2>1, <2>2 DEF GetInv
<1>2. CASE UNCHANGED vars
  BY <1>1, <1>2 DEF vars, diskVars, lruVars
<1>3. CASE UncacheStep
  BY <1>1, <1>3 DEF UncacheStep, UncacheLater, lruVars
<1>4. CASE Restart
  <2>1. evictList' = << >> /\ \A p \in Procs : call'[p].at = "idle" /\ call'[p].op = "None"
    BY <1>4 DEF Restart, IdleCalls, lru!Purge
  <2>2. LruHoldsStored'
    BY <2>1, EmptySeq DEF LruHoldsStored
  <2>3. QED
    BY <1>0, <2>1, <2>2 DEF GetInv, ReadsItsKey, SetsItsKey, GetReturnsStored
<1>5. ASSUME NEW p \in Procs, Step(p)
      PROVE  GetInv'
  BY <1>0, <1>5, LruStep, StreamStep, ResultStep DEF GetInv
<1>6. ASSUME NEW p \in Procs, Client(p)
      PROVE  GetInv'
  BY <1>0, <1>6, GetClient DEF GetInv
<1>7. QED
  BY <1>2, <1>3, <1>4, <1>5, <1>6 DEF Next, Work

(* No interleaving of requests, no eviction, no half-written or unlinked   *)
(* file and no restart makes Get return an image of another key or another *)
(* encoding.  A picture made of two is returned only for a key that two    *)
(* different JPEGs are stored under.                                       *)
THEOREM GetAlwaysReturnsStored == Spec => []GetReturnsStored
<1>1. GetInv => GetReturnsStored
  BY DEF GetInv
<1>2. QED
  BY <1>1, GetInit, GetNext, PTL DEF Spec

-----------------------------------------------------------------------------
(***************************************************************************)
(* The accounting of diskv, as long as no two goroutines are in a Get of   *)
(* one key.  Then a key that is opened, or stored in memory, is not there  *)
(* already, because what is there is about to be deleted by another Get:   *)
(* no goroutine is started that subtracts a length a second time, and no   *)
(* length is added without its predecessor having been subtracted.         *)
(***************************************************************************)
InGet(p) == call[p].op = "Get" /\ call[p].at # "idle"

GetsApart ==
  \A p, q \in Procs : p # q /\ InGet(p) /\ InGet(q) => call[p].key # call[q].key

NothingUncaching == \A k \in Keys, n \in 0..Chunks : uncaching[k][n] = 0

MemoryIsExact ==
  IsFiniteSet(ChunksInMemory) /\ AccountingIsExact /\ cacheSize <= CacheSizeMax

ExactInv == NothingUncaching /\ MemoryIsExact

ChunksOf(k, n) == {k} \X (1..n)

LEMMA SizeOfValue ==
  ASSUME NEW k, NEW n \in Nat
  PROVE  IsFiniteSet(ChunksOf(k, n)) /\ Cardinality(ChunksOf(k, n)) = n
<1>1. IsFiniteSet({k}) /\ Cardinality({k}) = 1
  BY FS_Singleton
<1>2. IsFiniteSet(1..n) /\ Cardinality(1..n) = n
  BY FS_Interval
<1>3. /\ IsFiniteSet({k} \X (1..n))
      /\ Cardinality({k} \X (1..n)) = Cardinality({k}) * Cardinality(1..n)
  BY <1>1, <1>2, FS_Product
<1>4. QED
  BY <1>1, <1>2, <1>3 DEF ChunksOf

LEMMA NotInMemory ==
  ASSUME TransientInv, GetsApart, NEW p \in Procs, call[p].at \in {"GetOpen", "GetCache"}
  PROVE  ~InCache(call[p].key)
<1> SUFFICES ASSUME InCache(call[p].key)
             PROVE  FALSE
  OBVIOUS
<1>1. InGet(p) /\ call[p].key \in Keys
  BY FieldTypes DEF TransientInv, TypeInv, StepsOfGet, GetSteps, InGet
<1>2. PICK q \in Procs : AboutToDelete(q, call[p].key)
  BY <1>1 DEF TransientInv, MemoryCacheIsTransient
<1>3. q # p /\ InGet(q) /\ call[q].key = call[p].key
  BY <1>2 DEF AboutToDelete, InGet
<1>4. QED
  BY <1>1, <1>3 DEF GetsApart

(* When the length of one value changes, the chunks of the others stay.    *)
LEMMA ChunksAfter ==
  ASSUME TypeOKDisk, NEW k \in Keys, NEW n \in NotCached..Chunks,
         cached' = [cached EXCEPT ![k] = n]
  PROVE  /\ n = NotCached => ChunksInMemory' = ChunksInMemory \ ChunksOf(k, cached[k])
         /\ ~InCache(k) => ChunksInMemory' = ChunksInMemory \cup ChunksOf(k, n)
<1>1. Chunks \in Nat /\ cached \in [Keys -> NotCached..Chunks]
  BY ModulusPositive DEF TypeOKDisk
<1>2. ASSUME NEW j \in Keys, NEW i \in 1..Chunks
      PROVE  <<j, i>> \in ChunksInMemory' <=> IF j = k THEN i <= n ELSE <<j, i>> \in ChunksInMemory
  BY <1>1 DEF ChunksInMemory
<1>3. ASSUME NEW j \in Keys, NEW i \in 1..Chunks, NEW m \in NotCached..Chunks
      PROVE  <<j, i>> \in ChunksOf(k, m) <=> j = k /\ i <= m
  BY <1>1 DEF ChunksOf, NotCached
<1>4. /\ ChunksInMemory \subseteq Keys \X (1..Chunks)
      /\ ChunksInMemory' \subseteq Keys \X (1..Chunks)
  BY DEF ChunksInMemory
<1>5. ChunksOf(k, n) \subseteq Keys \X (1..Chunks)
  BY <1>1 DEF ChunksOf, NotCached
<1>6. ASSUME n = NotCached, NEW j \in Keys, NEW i \in 1..Chunks
      PROVE  <<j, i>> \in ChunksInMemory' <=> <<j, i>> \in ChunksInMemory \ ChunksOf(k, cached[k])
  <2>1. ~(i <= n)
    BY <1>1, <1>6 DEF NotCached
  <2>2. j = k /\ <<j, i>> \in ChunksInMemory => i <= cached[k]
    BY DEF ChunksInMemory
  <2>3. QED
    BY <1>1, <1>2, <1>3, <2>1, <2>2
<1>7. ASSUME ~InCache(k), NEW j \in Keys, NEW i \in 1..Chunks
      PROVE  <<j, i>> \in ChunksInMemory' <=> <<j, i>> \in ChunksInMemory \cup ChunksOf(k, n)
  <2>1. j = k => <<j, i>> \notin ChunksInMemory
    BY <1>1, <1>7 DEF ChunksInMemory, InCache, NotCached
  <2>2. QED
    BY <1>2, <1>3, <2>1
<1> HIDE DEF ChunksInMemory
<1>8. QED
  BY <1>4, <1>5, <1>6, <1>7

LEMMA UncacheExact ==
  ASSUME TypeOKDisk, MemoryIsExact, NEW k \in Keys, InCache(k), Uncache(k, cached[k])
  PROVE  MemoryIsExact'
<1> DEFINE n == cached[k]
           old == ChunksInMemory
<1>1. n \in 0..Chunks /\ Chunks \in Nat
  BY CachedLength, ModulusPositive
<1>2. cached' = [cached EXCEPT ![k] = NotCached] /\ cacheSize' = (cacheSize - n) % Modulus
  BY DEF Uncache
<1>3. ChunksInMemory' = old \ ChunksOf(k, n)
  <2>1. NotCached \in NotCached..Chunks
    BY <1>1 DEF NotCached
  <2>2. ChunksInMemory' = ChunksInMemory \ ChunksOf(k, cached[k])
    BY <1>2, <2>1, ChunksAfter
  <2>3. QED
    BY <2>2
<1>4. ChunksOf(k, n) \subseteq old
  BY <1>1 DEF ChunksInMemory, ChunksOf
<1>5. IsFiniteSet(old) /\ cacheSize = Cardinality(old) /\ cacheSize \in Nat
      /\ cacheSize <= CacheSizeMax /\ CacheSizeMax < Modulus /\ CacheSizeMax \in Nat
      /\ Modulus \in Nat
  <2>1. cacheSize \in Nat /\ CacheSizeMax < Modulus /\ CacheSizeMax \in Nat /\ Modulus \in Nat
    BY ModulusPositive, SizesAssumption DEF TypeOKDisk
  <2>2. QED
    BY <2>1 DEF MemoryIsExact, AccountingIsExact
<1>6. IsFiniteSet(ChunksOf(k, n)) /\ Cardinality(ChunksOf(k, n)) = n
  BY <1>1, SizeOfValue
<1> HIDE DEF n, old
<1>7. /\ IsFiniteSet(ChunksInMemory')
      /\ Cardinality(ChunksInMemory') = cacheSize - n
  <2>1. old \cap ChunksOf(k, n) = ChunksOf(k, n)
    BY <1>4
  <2>2. /\ IsFiniteSet(old \ ChunksOf(k, n))
        /\ Cardinality(old \ ChunksOf(k, n)) = Cardinality(old) - Cardinality(old \cap ChunksOf(k, n))
    BY <1>5, FS_Difference
  <2>3. QED
    BY <1>3, <1>5, <1>6, <2>1, <2>2
<1>8. Cardinality(ChunksInMemory') \in Nat
  BY <1>7, FS_CardinalityType
<1>9. cacheSize - n \in 0..Modulus - 1
  BY <1>1, <1>5, <1>7, <1>8
<1>10. cacheSize' = cacheSize - n
  BY <1>2, <1>5, <1>9
<1>11. QED
  BY <1>1, <1>5, <1>7, <1>10 DEF MemoryIsExact, AccountingIsExact

LEMMA BustCacheExact ==
  ASSUME TypeOKDisk, MemoryIsExact, NEW k \in Keys, BustCache(k)
  PROVE  MemoryIsExact'
<1>1. CASE InCache(k)
  BY <1>1, UncacheExact DEF BustCache
<1>2. CASE ~InCache(k)
  BY <1>2 DEF BustCache, MemoryIsExact, AccountingIsExact, ChunksInMemory
<1>3. QED
  BY <1>1, <1>2

LEMMA CacheStoreExact ==
  ASSUME TypeOKDisk, MemoryIsExact, NEW p, NEW k \in Keys, NEW n \in 0..Chunks,
         ~InCache(k), CacheStore(p, k, n)
  PROVE  MemoryIsExact'
<1> DEFINE old == ChunksInMemory
<1>1. /\ Chunks \in Nat /\ n \in Nat /\ n <= CacheSizeMax /\ cacheSize \in Nat
      /\ CacheSizeMax \in Nat /\ Modulus \in Nat /\ CacheSizeMax + Chunks < Modulus
  BY ModulusPositive, SizesAssumption DEF CacheStore, TypeOKDisk
<1>2. /\ cached' = [cached EXCEPT ![k] = n] /\ cacheSize' = (cacheSize + n) % Modulus
      /\ (cacheSize + n) % Modulus <= CacheSizeMax
  BY DEF CacheStore, Fits
<1>3. ChunksInMemory' = old \cup ChunksOf(k, n)
  <2>1. n \in NotCached..Chunks
    BY <1>1 DEF NotCached
  <2>2. ChunksInMemory' = ChunksInMemory \cup ChunksOf(k, n)
    BY <1>2, <2>1, ChunksAfter
  <2>3. QED
    BY <2>2
<1>4. old \cap ChunksOf(k, n) = {}
  BY <1>1 DEF ChunksInMemory, ChunksOf, InCache, NotCached
<1>5. IsFiniteSet(old) /\ cacheSize = Cardinality(old) /\ cacheSize <= CacheSizeMax
  BY DEF MemoryIsExact, AccountingIsExact
<1>6. IsFiniteSet(ChunksOf(k, n)) /\ Cardinality(ChunksOf(k, n)) = n
  BY <1>1, SizeOfValue
<1> HIDE DEF old
<1>7. /\ IsFiniteSet(ChunksInMemory')
      /\ Cardinality(ChunksInMemory') = cacheSize + n
  BY <1>1, <1>3, <1>4, <1>5, <1>6, FS_Union, FS_EmptySet
<1>8. cacheSize + n \in 0..Modulus - 1
  BY <1>1, <1>5
<1>9. cacheSize' = cacheSize + n
  BY <1>1, <1>2, <1>8
<1>10. QED
  BY <1>2, <1>7, <1>9 DEF MemoryIsExact, AccountingIsExact

LEMMA EmptyIsExact ==
  ASSUME NEW memory, memory = NothingCached
  PROVE  {chunk \in Keys \X (1..Chunks) : chunk[2] <= memory[chunk[1]]} = {}
  BY ModulusPositive DEF NothingCached, NotCached

(* Where nothing is in memory, whatever is not too large fits: the panic   *)
(* of ensureCacheSpaceWithLock is out of reach.                            *)
LEMMA EmptyHasRoom ==
  ASSUME TypeOKDisk, MemoryIsExact, NEW n \in 0..Chunks
  PROVE  ~NoRoom(n)
<1> SUFFICES ASSUME ~TooLarge(n), \A k \in Keys : ~InCache(k)
             PROVE  Fits(n)
  BY DEF NoRoom
<1>1. ChunksInMemory = {}
  BY ModulusPositive DEF ChunksInMemory, InCache, NotCached
<1>2. cacheSize = 0
  BY <1>1, FS_EmptySet DEF MemoryIsExact, AccountingIsExact
<1>3. n \in 0..Modulus - 1 /\ n <= CacheSizeMax
  BY ModulusPositive, SizesAssumption DEF TooLarge
<1>4. QED
  BY <1>2, <1>3, ModulusPositive DEF Fits

LEMMA ExactStep ==
  ASSUME TransientInv, ExactInv, GetsApart, NEW p \in Procs, Step(p)
  PROVE  ExactInv'
<1>0. /\ TypeOKDisk /\ call[p].key \in Keys
      /\ Len(stream[p].got) \in 0..Chunks
  <2>1. stream[p].got \in AtMostOneValue
    BY DEF TransientInv, TypeInv, TypeOKDisk, Stream
  <2>2. Len(stream[p].got) \in 0..Chunks
    BY <2>1, LenProperties, ModulusPositive DEF AtMostOneValue, Bytes
  <2>3. QED
    BY <2>2, FieldTypes DEF TransientInv, TypeInv
<1>1. ASSUME UNCHANGED uncaching, MemoryIsExact'
      PROVE  ExactInv'
  BY <1>1 DEF ExactInv, NothingUncaching
<1>2. ASSUME UNCHANGED <<cached, cacheSize, uncaching>>
      PROVE  ExactInv'
  BY <1>2 DEF ExactInv, NothingUncaching, MemoryIsExact, AccountingIsExact, ChunksInMemory
<1>3. CASE ContainsLru(p) \/ ContainsDisk(p) \/ GetLookup(p) \/ GetHit(p)
  BY <1>2, <1>3 DEF ContainsLru, ContainsDisk, GetLookup, GetHit, diskVars
<1>4. CASE GetOpen(p)
  <2>1. ~InCache(call[p].key)
    BY <1>4, NotInMemory DEF GetOpen
  <2>2. QED
    BY <1>2, <1>4, <2>1 DEF GetOpen, OpenStream
<1>5. CASE GetRead(p) \/ GetDecode(p) \/ GetReadFails(p) \/ GetEOF(p) \/ GetLock(p)
  BY <1>2, <1>5 DEF GetRead, GetDecode, GetReadFails, GetEOF, GetLock, ReadChunk,
                    DropStream, LockCache, ReadRefused, diskVars
<1>6. CASE GetCache(p)
  <2>1. CASE EvictOne(p, Len(stream[p].got))
    <3>1. UNCHANGED uncaching /\ \E k \in Keys : InCache(k) /\ Uncache(k, cached[k])
      BY <2>1 DEF EvictOne
    <3>2. QED
      BY <1>0, <1>1, <3>1, UncacheExact DEF ExactInv
  <2>2. CASE CacheStore(p, call[p].key, Len(stream[p].got))
    <3>1. ~InCache(call[p].key)
      BY <1>6, NotInMemory DEF GetCache
    <3>2. MemoryIsExact'
      BY <1>0, <2>2, <3>1, CacheStoreExact DEF ExactInv
    <3>3. QED
      BY <1>1, <2>2, <3>2 DEF CacheStore
  <2>3. CASE CacheNothing(p)
    BY <1>2, <2>3 DEF CacheNothing
  <2>4. QED
    BY <1>6, <2>1, <2>2, <2>3 DEF GetCache
<1>7. CASE SetLookup(p) \/ SetAdd(p) \/ DeleteLru(p) \/ DeleteAllLru(p)
  BY <1>2, <1>7 DEF SetLookup, SetAdd, DeleteLru, DeleteAllLru, diskVars
<1>8. CASE SetOpen(p)
  BY <1>2, <1>8 DEF SetOpen, WriteOpen, WriteRefused, diskVars
<1>9. CASE SetCopy(p)
  <2>1. CASE WriteClose(p, call[p].key)
    BY <1>0, <1>1, <2>1, BustCacheExact DEF WriteClose, ExactInv
  <2>2. QED
    BY <1>2, <1>9, <2>1 DEF SetCopy, WriteChunk, WriteFails
<1>10. CASE DeleteDisk(p)
  <2>1. UNCHANGED uncaching /\ BustCache(call[p].key)
    BY <1>10 DEF DeleteDisk, Erase
  <2>2. QED
    BY <1>0, <1>1, <2>1, BustCacheExact DEF ExactInv
<1>11. CASE DeleteAllDisk(p)
  <2>1. cached' = NothingCached /\ cacheSize' = 0 /\ UNCHANGED uncaching
    BY <1>11 DEF DeleteAllDisk, EraseAll
  <2>2. MemoryIsExact'
    BY <2>1, EmptyIsExact, FS_EmptySet, ModulusPositive
       DEF MemoryIsExact, AccountingIsExact, ChunksInMemory
  <2>3. QED
    BY <1>1, <2>1, <2>2
<1>12. QED
  BY <1>3, <1>4, <1>5, <1>6, <1>7, <1>8, <1>9, <1>10, <1>11 DEF Step

LEMMA EmptyDiskIsExact ==
  /\ InitDisk => ExactInv
  /\ RestartDisk => ExactInv'
<1>1. ASSUME InitDisk
      PROVE  ExactInv
  BY <1>1, EmptyIsExact, FS_EmptySet, ModulusPositive
     DEF InitDisk, ExactInv, NothingUncaching, NoneUncaching, MemoryIsExact,
         AccountingIsExact,
         ChunksInMemory
<1>2. ASSUME RestartDisk
      PROVE  ExactInv'
  BY <1>2, EmptyIsExact, FS_EmptySet, ModulusPositive
     DEF RestartDisk, ExactInv, NothingUncaching, NoneUncaching, MemoryIsExact,
         AccountingIsExact, ChunksInMemory
<1>3. QED
  BY <1>1, <1>2

LEMMA ExactNext == TransientInv /\ ExactInv /\ GetsApart /\ [Next]_vars => ExactInv'
<1> SUFFICES ASSUME TransientInv, ExactInv, GetsApart, [Next]_vars
             PROVE  ExactInv'
  OBVIOUS
<1>1. ASSUME UNCHANGED <<cached, cacheSize, uncaching>>
      PROVE  ExactInv'
  BY <1>1 DEF ExactInv, NothingUncaching, MemoryIsExact, AccountingIsExact, ChunksInMemory
<1>2. CASE UNCHANGED vars
  BY <1>1, <1>2 DEF vars, diskVars
<1>3. ~UncacheStep
  BY DEF UncacheStep, UncacheLater, ExactInv, NothingUncaching
<1>4. CASE Restart
  BY <1>4, EmptyDiskIsExact DEF Restart
<1>5. ASSUME NEW p \in Procs, Client(p)
      PROVE  ExactInv'
  BY <1>1, <1>5 DEF Client, BeginContains, BeginGet, BeginSet, BeginDelete, BeginDeleteAll,
                    Begin, diskVars
<1>6. QED
  BY <1>2, <1>3, <1>4, <1>5, ExactStep DEF Next, Work
-----------------------------------------------------------------------------
(***************************************************************************)
(* The places of a Get, the operation that adds to the LRU cache, and what *)
(* a step may do to its keys: it adds none but the one a Set is to add.    *)
(***************************************************************************)
GetPlaces == GetSteps \cup {"DeleteLru", "DeleteDisk", "idle"}

PlacesOfGet == \A p \in Procs : call[p].op = "Get" => call[p].at \in GetPlaces

AddingSteps == {"SetLookup", "SetAdd"}

OnlySetAdds == \A p \in Procs : call[p].at \in AddingSteps => call[p].op = "Set"

StepInGet(p) ==
  \/ GetLookup(p) \/ GetHit(p) \/ GetOpen(p) \/ GetRead(p) \/ GetDecode(p)
  \/ GetReadFails(p) \/ GetEOF(p) \/ GetLock(p)
  \/ GetCache(p) \/ DeleteLru(p) \/ DeleteDisk(p)

LEMMA StepIsInGet ==
  ASSUME PlacesOfGet, NEW p \in Procs, Step(p), call[p].op = "Get"
  PROVE  StepInGet(p)
<1>1. call[p].at \in GetPlaces
  BY DEF PlacesOfGet
<1>2. ~ContainsLru(p) /\ ~ContainsDisk(p)
  BY <1>1 DEF ContainsLru, ContainsDisk, GetPlaces, GetSteps
<1>3. ~SetLookup(p) /\ ~SetAdd(p) /\ ~SetOpen(p) /\ ~SetCopy(p)
  BY <1>1 DEF SetLookup, SetAdd, SetOpen, SetCopy, GetPlaces, GetSteps
<1>4. ~DeleteAllLru(p) /\ ~DeleteAllDisk(p)
  BY <1>1 DEF DeleteAllLru, DeleteAllDisk, GetPlaces, GetSteps
<1>5. QED
  BY <1>2, <1>3, <1>4 DEF Step, StepInGet

LEMMA IdleDoesNotStep ==
  ASSUME NEW p, Step(p)
  PROVE  call[p].at # "idle"
BY DEF Step, ContainsLru, ContainsDisk, GetLookup, GetHit, GetOpen, GetRead, GetDecode,
       GetReadFails, GetEOF, GetLock,
       GetCache, SetLookup, SetAdd, SetOpen, SetCopy, DeleteLru, DeleteDisk, DeleteAllLru,
       DeleteAllDisk

LEMMA StepStaysInGet ==
  ASSUME TypeInv, NEW p \in Procs, StepInGet(p)
  PROVE  call'[p].at \in GetPlaces
<1>0. call \in [Procs -> Call]
  BY DEF TypeInv
<1>1. CASE GetLookup(p) \/ GetHit(p) \/ GetOpen(p)
  BY <1>0, <1>1, NextStep DEF GetLookup, GetHit, GetOpen, GetPlaces, GetSteps
<1>2. CASE GetRead(p) \/ GetDecode(p) \/ GetReadFails(p) \/ GetEOF(p) \/ GetLock(p) \/ GetCache(p)
  BY <1>0, <1>2, NextStep DEF GetRead, GetDecode, GetReadFails, GetEOF, GetLock, GetCache,
                              GetPlaces, GetSteps
<1>3. CASE DeleteLru(p) \/ DeleteDisk(p)
  BY <1>0, <1>3, NextStep DEF DeleteLru, DeleteDisk, GetPlaces, GetSteps
<1>4. QED
  BY <1>1, <1>2, <1>3 DEF StepInGet

LEMMA ToDeleteDisk ==
  ASSUME TypeInv, NEW p \in Procs, StepInGet(p), call'[p].at = "DeleteDisk"
  PROVE  call[p].at = "DeleteLru"
<1>0. call \in [Procs -> Call]
  BY DEF TypeInv
<1>1. ~GetLookup(p) /\ ~GetHit(p) /\ ~GetOpen(p)
  BY <1>0, NextStep DEF GetLookup, GetHit, GetOpen
<1>2. ~GetRead(p) /\ ~GetDecode(p) /\ ~GetReadFails(p) /\ ~GetEOF(p) /\ ~GetLock(p) /\ ~GetCache(p)
  BY <1>0, NextStep DEF GetRead, GetDecode, GetReadFails, GetEOF, GetLock, GetCache
<1>3. ~DeleteDisk(p)
  BY <1>0, NextStep DEF DeleteDisk
<1>4. QED
  BY <1>1, <1>2, <1>3 DEF StepInGet, DeleteLru

(* What a client begins.                                                   *)
LEMMA ClientBegins ==
  ASSUME call \in [Procs -> Call], NEW p \in Procs, Client(p)
  PROVE  /\ call[p].at = "idle" /\ UNCHANGED <<diskVars, lruVars>>
         /\ \A q \in Procs \ {p} : call'[q] = call[q]
         /\ call'[p].at # "idle" /\ call'[p].at # "DeleteDisk" /\ call'[p].ret = "none"
         /\ call'[p].op = "Get" => call'[p].at = "GetLookup"
         /\ call'[p].at \in AddingSteps => call'[p].op = "Set"
<1>1. \E operation, step, k, ext, src :
        /\ Begin(p, operation, step, k, ext, src)
        /\ step # "idle" /\ step # "DeleteDisk" /\ (operation = "Get" => step = "GetLookup")
        /\ step \in AddingSteps => operation = "Set"
  BY DEF AddingSteps, Client, BeginContains, BeginGet, BeginSet, BeginDelete, BeginDeleteAll
<1>2. QED
  BY <1>1 DEF Begin

LEMMA PlacesNext == TypeInv /\ PlacesOfGet /\ [Next]_vars => PlacesOfGet'
<1> SUFFICES ASSUME TypeInv, PlacesOfGet, [Next]_vars
             PROVE  PlacesOfGet'
  OBVIOUS
<1>1. ASSUME UNCHANGED call
      PROVE  PlacesOfGet'
  BY <1>1 DEF PlacesOfGet
<1>2. CASE UNCHANGED vars \/ UncacheStep
  BY <1>1, <1>2 DEF vars, UncacheStep
<1>3. CASE Restart
  BY <1>3 DEF Restart, IdleCalls, PlacesOfGet
<1>4. ASSUME NEW p \in Procs, Client(p)
      PROVE  PlacesOfGet'
  BY <1>4, ClientBegins DEF TypeInv, PlacesOfGet, GetPlaces, GetSteps
<1>5. ASSUME NEW p \in Procs, Step(p)
      PROVE  PlacesOfGet'
  <2>1. StaysInCall(p)
    BY <1>5, StepStaysInCall
  <2>2. call[p].op = "Get" => call'[p].at \in GetPlaces
    BY <1>5, StepIsInGet, StepStaysInGet
  <2>3. QED
    BY <2>1, <2>2 DEF StaysInCall, PlacesOfGet
<1>6. QED
  BY <1>2, <1>3, <1>4, <1>5 DEF Next, Work

LEMMA AddingNext == TypeInv /\ OnlySetAdds /\ [Next]_vars => OnlySetAdds'
<1> SUFFICES ASSUME TypeInv, OnlySetAdds, [Next]_vars
             PROVE  OnlySetAdds'
  OBVIOUS
<1>1. CASE UNCHANGED vars \/ UncacheStep
  BY <1>1 DEF vars, UncacheStep, OnlySetAdds
<1>2. CASE Restart
  BY <1>2 DEF Restart, IdleCalls, OnlySetAdds, AddingSteps
<1>3. ASSUME NEW p \in Procs, Client(p)
      PROVE  OnlySetAdds'
  BY <1>3, ClientBegins DEF TypeInv, OnlySetAdds
<1>4. ASSUME NEW p \in Procs, Step(p)
      PROVE  OnlySetAdds'
  <2>1. StaysInCall(p)
    BY <1>4, StepStaysInCall
  <2>2. call'[p].at \in AddingSteps => call[p].at \in AddingSteps
    BY <1>4, StepOnOwn DEF AddingSteps
  <2>3. QED
    BY <2>1, <2>2 DEF StaysInCall, OnlySetAdds
<1>5. QED
  BY <1>1, <1>2, <1>3, <1>4 DEF Next, Work

LEMMA StepOnLruKeys ==
  ASSUME NEW p \in Procs, Step(p)
  PROVE  /\ \A k : k \in items' => k \in items \/ (call[p].at = "SetAdd" /\ call[p].key = k)
         /\ call[p].at = "DeleteLru" => call[p].key \notin items'
<1> DEFINE Goal ==
      /\ \A k : k \in items' => k \in items \/ (call[p].at = "SetAdd" /\ call[p].key = k)
      /\ call[p].at = "DeleteLru" => call[p].key \notin items'
<1>1. ASSUME UNCHANGED lruVars, call[p].at # "DeleteLru"
      PROVE  Goal
  BY <1>1 DEF lruVars
<1>2. CASE ContainsLru(p) \/ ContainsDisk(p) \/ GetLookup(p) \/ GetOpen(p)
  BY <1>1, <1>2 DEF ContainsLru, ContainsDisk, GetLookup, GetOpen
<1>3. CASE GetHit(p)
  BY <1>3 DEF GetHit, lru!Get, lru!vars
<1>4. CASE GetRead(p) \/ GetDecode(p) \/ GetReadFails(p) \/ GetEOF(p) \/ GetLock(p) \/ GetCache(p)
  BY <1>1, <1>4 DEF GetRead, GetDecode, GetReadFails, GetEOF, GetLock, GetCache
<1>5. CASE SetLookup(p) \/ SetOpen(p) \/ SetCopy(p)
  BY <1>1, <1>5 DEF SetLookup, SetOpen, SetCopy
<1>6. CASE SetAdd(p)
  BY <1>6 DEF SetAdd, lru!Add, lru!AddExisting, lru!AddNew
<1>7. CASE DeleteLru(p)
  BY <1>7 DEF DeleteLru, lru!Remove, lru!RemoveElement, lru!Contains, lru!vars
<1>8. CASE DeleteAllLru(p)
  BY <1>8 DEF DeleteAllLru, lru!RemoveOldest, lru!RemoveElement, lru!vars
<1>9. CASE DeleteDisk(p) \/ DeleteAllDisk(p)
  BY <1>1, <1>9 DEF DeleteDisk, DeleteAllDisk
<1>10. QED
  BY <1>2, <1>3, <1>4, <1>5, <1>6, <1>7, <1>8, <1>9 DEF Step
-----------------------------------------------------------------------------
(***************************************************************************)
(* A goroutine alone, on a disk that never fails.  What Contains has found *)
(* is there when Get looks for it, in the LRU cache or in a file: diskv's  *)
(* memory, which Has would answer from, holds nothing by then.  So a Get   *)
(* of an entry that the LRU cache's decoder accepts does not panic, and    *)
(* returns no nil image without an error.                                  *)
(***************************************************************************)
Alone(p) == Procs = {p} /\ ~DiskFails

InStore(k) == k \in items \/ k \in files

FindsIt(p) ==
  LET k == call[p].key IN
  /\ call[p].at = "GetLookup" => InStore(k)
  /\ call[p].at = "GetHit" => k \in items
  /\ call[p].at = "GetOpen" => k \in files

HasAnswered(p) ==
  /\ call[p].at \in {"ContainsLru", "ContainsDisk", "idle"}
  /\ call[p].at = "idle" /\ call[p].ret = "true" => InStore(call[p].key)

Faultless(p) == call[p].ret \notin {"nil", "panic"}

LEMMA ContainsTellsTruth ==
  ASSUME TransientInv, NEW p \in Procs, Alone(p), Step(p), HasAnswered(p)
  PROVE  HasAnswered(p)'
<1>0. call \in [Procs -> Call] /\ call[p].key \in Keys /\ call'[p].key = call[p].key
  BY FieldTypes, StepStaysInCall DEF TransientInv, TypeInv, StaysInCall
<1>1. ContainsLru(p) \/ ContainsDisk(p)
  BY IdleDoesNotStep
     DEF HasAnswered, Step, GetLookup, GetHit, GetOpen, GetRead, GetDecode, GetReadFails,
         GetEOF, GetLock, GetCache,
         SetLookup, SetAdd, SetOpen, SetCopy, DeleteLru, DeleteDisk, DeleteAllLru,
         DeleteAllDisk
<1>2. CASE ContainsLru(p)
  BY <1>0, <1>2, NextStep, NextResult
     DEF ContainsLru, HasAnswered, InStore, lru!Contains, lruVars, diskVars
<1>3. CASE ContainsDisk(p)
  <2>1. ~InCache(call[p].key)
    BY <1>0, <1>3 DEF ContainsDisk, TransientInv, MemoryCacheIsTransient, AboutToDelete,
                      Alone
  <2>2. /\ Return(p, IF call[p].key \in files THEN "true" ELSE "false")
        /\ UNCHANGED <<diskVars, lruVars>>
    BY <1>3, <2>1 DEF ContainsDisk, HasAnswers, Has, Alone
  <2>3. /\ call'[p].at = "idle"
        /\ call'[p].ret = (IF call[p].key \in files THEN "true" ELSE "false")
    BY <1>0, <2>2, NextStep, NextResult
  <2>4. QED
    BY <1>0, <2>2, <2>3 DEF HasAnswered, InStore, diskVars
<1>4. QED
  BY <1>1, <1>2, <1>3

LEMMA LoneGetIsFaultless ==
  ASSUME TransientInv, PlacesOfGet, MemoryIsExact, NEW p \in Procs, Alone(p), Step(p),
         call[p].op = "Get", call[p].ext # "other", FindsIt(p), Faultless(p),
         call[p].at = "GetHit" =>
           ~DecodeFails(LruDecoder(call[p].ext), lru!Element(call[p].key).value)
  PROVE  FindsIt(p)' /\ Faultless(p)'
<1> DEFINE k == call[p].key
           Far == {"GetRead", "GetLock", "GetCache", "DeleteLru", "DeleteDisk", "idle"}
<1>0. /\ call \in [Procs -> Call] /\ StepInGet(p) /\ call'[p].key = k
  BY StepIsInGet, StepStaysInCall DEF TransientInv, TypeInv, StaysInCall
<1>1. ASSUME NEW step \in Far, NEW result, NEW image, result \notin {"nil", "panic"},
             Goto(p, step) \/ Return(p, result) \/ DeleteThenReturn(p, result)
               \/ ReturnImage(p, image)
      PROVE  FindsIt(p)' /\ Faultless(p)'
  BY <1>0, <1>1, NextStep, NextResult DEF FindsIt, Faultless
<1>2. CASE GetLookup(p)
  <2>1. /\ Goto(p, IF k \in items THEN "GetHit" ELSE "GetOpen")
        /\ UNCHANGED <<items, files>> /\ InStore(k)
    BY <1>2 DEF GetLookup, FindsIt, lru!Contains, lruVars, diskVars
  <2>2. call'[p].at = (IF k \in items THEN "GetHit" ELSE "GetOpen") /\ call'[p].ret = call[p].ret
    BY <1>0, <2>1, NextStep, NextResult
  <2>3. QED
    BY <1>0, <2>1, <2>2 DEF FindsIt, Faultless, InStore
<1>3. CASE GetHit(p)
  <2>1. \E image : ReturnImage(p, image)
    BY <1>3 DEF GetHit, FindsIt, lru!Contains
  <2>2. QED
    BY <1>1, <2>1
<1>4. CASE GetOpen(p)
  <2>1. Goto(p, "GetRead")
    BY <1>4 DEF GetOpen, OpenStream, FindsIt, Alone
  <2>2. QED
    BY <1>1, <2>1
<1>5. CASE GetRead(p)
  BY <1>5 DEF GetRead, FindsIt, Faultless
<1>6. CASE GetDecode(p) \/ GetReadFails(p) \/ GetEOF(p) \/ GetLock(p)
  BY <1>1, <1>6 DEF GetDecode, GetReadFails, GetEOF, GetLock
<1>7. CASE GetCache(p)
  <2>1. Len(stream[p].got) \in 0..Chunks
    <3>1. stream[p].got \in AtMostOneValue
      BY DEF TransientInv, TypeInv, TypeOKDisk, Stream
    <3>2. QED
      BY <3>1, LenProperties, ModulusPositive DEF AtMostOneValue, Bytes
  <2>2. ~NoRoom(Len(stream[p].got))
    BY <2>1, EmptyHasRoom DEF TransientInv, TypeInv
  <2>3. CASE UNCHANGED call
    BY <1>7, <2>3 DEF GetCache, FindsIt, Faultless
  <2>4. CASE DeleteThenReturn(p, "error")
    BY <1>1, <2>4
  <2>5. QED
    BY <1>7, <2>2, <2>3, <2>4 DEF GetCache
<1>8. CASE DeleteLru(p)
  BY <1>1, <1>8 DEF DeleteLru
<1>9. CASE DeleteDisk(p)
  <2>1. Return(p, call[p].ret)
    BY <1>9 DEF DeleteDisk
  <2>2. QED
    BY <1>1, <2>1 DEF Faultless
<1>10. QED
  BY <1>0, <1>2, <1>3, <1>4, <1>5, <1>6, <1>7, <1>8, <1>9 DEF StepInGet
=============================================================================
