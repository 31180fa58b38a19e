--------------------------- MODULE CacheProvider ---------------------------
(***************************************************************************)
(* cache.CacheProvider: the LRU cache in front of the file store.  Each of *)
(* its operations is a sequence of calls to the two stores with no lock    *)
(* around it, so the operations of several requests interleave at every    *)
(* such call.  call[p].at names the next step of process p; a step of      *)
(* another module's store is one of its actions.                           *)
(*                                                                         *)
(* The hit and miss counters, which no operation reads, are left out.      *)
(***************************************************************************)
EXTENDS Diskv, FiniteSets

CONSTANTS
  LruSize,    (* the capacity given to lru.New                            *)
  Format,     (* the encoding, "png" or "jpg", of each value              *)
  KeysOf,     (* the keys each process works with                         *)
  StoredFor,  (* the values that may be stored under each key             *)
  NoImage,    (* a nil image                                              *)
  Garbled     (* a picture decoded from pieces of two values              *)

ASSUME LruSizeAssumption == LruSize \in Nat \ {0}
ASSUME FormatAssumption == Format \in [Values -> {"png", "jpg"}]
ASSUME ClientAssumption ==
  /\ Keys # {}
  /\ KeysOf \in [Procs -> SUBSET Keys]
  /\ StoredFor \in [Keys -> SUBSET Values]
ASSUME ImagesAssumption ==
  NoImage \notin Values /\ Garbled \notin Values /\ NoImage # Garbled

VARIABLES
  evictList, items,  (* the LRU cache *)
  call               (* what each process is doing *)

lruVars == <<evictList, items>>
vars == <<diskVars, lruVars, call>>

lru == INSTANCE Lru WITH Key <- Keys, Value <- Bytes, Size <- LruSize

Operations == {"None", "Contains", "Get", "Set", "Delete", "DeleteAll"}
Extensions == {"png", "jpg", "other"}
Results == {"none", "true", "false", "image", "nil", "ok", "error", "panic"}
Steps == {"idle", "ContainsLru", "ContainsDisk", "GetLookup", "GetHit", "GetOpen",
          "GetRead", "GetLock", "GetCache", "DeleteLru", "DeleteDisk", "SetLookup", "SetAdd",
          "SetOpen", "SetCopy", "DeleteAllLru", "DeleteAllDisk"}

Call == [at : Steps, op : Operations, key : Keys, ext : Extensions,
         src : AtMostOneValue, img : Values \cup {NoImage, Garbled}, ret : Results]

TypeOK ==
  /\ TypeOKDisk
  /\ lru!TypeOK
  /\ call \in [Procs -> Call]

AnyKey == CHOOSE k \in Keys : TRUE  (* the key of a call that has none *)

IdleCalls ==
  [p \in Procs |-> [at |-> "idle", op |-> "None", key |-> AnyKey, ext |-> "other",
                    src |-> << >>, img |-> NoImage, ret |-> "none"]]

Init ==
  /\ InitDisk
  /\ lru!Init
  /\ call = IdleCalls

-----------------------------------------------------------------------------
Goto(p, step) == call' = [call EXCEPT ![p].at = step]

Return(p, result) == call' = [call EXCEPT ![p].at = "idle", ![p].ret = result]

ReturnImage(p, image) ==
  call' = [call EXCEPT ![p].at = "idle", ![p].ret = "image", ![p].img = image]

(* Mutant of DeleteThenReturn: what does not decode is not deleted.        *)
ReturnWithoutDelete(p, result) == Return(p, result)

(* Inside Get, Delete comes last: what Get returns is known before it runs. *)
DeleteThenReturn(p, result) ==
  call' = [call EXCEPT ![p].at = "DeleteLru", ![p].ret = result]

-----------------------------------------------------------------------------
(* What the decoder of an encoding makes of some bytes: a complete value   *)
(* of that encoding is decoded, a mixture of two JPEG encodings may pass   *)
(* for a picture (PNG has checksums), everything else is an error.         *)
Whole(v) == [i \in 1..Chunks |-> v]

(* Mutant of Decodable: image.Decode, which finds out the encoding itself. *)
DecodableAsAny(encoding, bytes) == {v \in Values : bytes = Whole(v)}

Decodable(encoding, bytes) ==
  {v \in Values : Format[v] = encoding /\ bytes = Whole(v)}

MayPassForJpeg(bytes) ==
  /\ Len(bytes) = Chunks
  /\ \A i \in 1..Chunks : Format[bytes[i]] = "jpg"
  /\ \E i, j \in 1..Chunks : bytes[i] # bytes[j]

Decoded(encoding, bytes) ==
  Decodable(encoding, bytes)
    \cup (IF encoding = "jpg" /\ MayPassForJpeg(bytes) THEN {Garbled} ELSE {})

DecodeFails(encoding, bytes) == Decodable(encoding, bytes) = {}

(* A decoder reads a stream to the last chunk of the picture and not on to *)
(* the end of file, or gives up at a first chunk of another encoding.      *)
DecoderDone(encoding, bytes) ==
  \/ Len(bytes) = Chunks
  \/ bytes # << >> /\ Format[bytes[1]] # encoding

-----------------------------------------------------------------------------
(* Contains *)
ContainsLru(p) ==
  /\ call[p].at = "ContainsLru"
  /\ IF lru!Contains(call[p].key) THEN Return(p, "true") ELSE Goto(p, "ContainsDisk")
  /\ UNCHANGED <<diskVars, lruVars>>

ContainsDisk(p) ==
  /\ call[p].at = "ContainsDisk"
  /\ Unlocked
  /\ \E found \in BOOLEAN :
        HasAnswers(call[p].key, found) /\ Return(p, IF found THEN "true" ELSE "false")
  /\ UNCHANGED <<diskVars, lruVars>>

-----------------------------------------------------------------------------
(* Get: the LRU cache is asked twice.  A key that has left it in between   *)
(* gives a nil buffer, and the type assertion on it panics before found is *)
(* looked at.  A buffer that does not decode is deleted, and a nil image   *)
(* is returned without an error.                                           *)
GetLookup(p) ==
  /\ call[p].at = "GetLookup"
  /\ Goto(p, IF lru!Contains(call[p].key) THEN "GetHit" ELSE "GetOpen")
  /\ UNCHANGED <<diskVars, lruVars>>

LruDecoder(ext) == IF ext = "png" THEN "png" ELSE "jpg"

GetHit(p) ==
  LET k == call[p].key
      decoder == LruDecoder(call[p].ext)
      buffer == lru!Element(k).value
  IN  /\ call[p].at = "GetHit"
      /\ lru!Get(k)
      /\ \/ ~lru!Contains(k) /\ Return(p, "panic")
         \/ /\ lru!Contains(k)
            /\ \/ \E image \in Decoded(decoder, buffer) : ReturnImage(p, image)
               \/ DecodeFails(decoder, buffer) /\ DeleteThenReturn(p, "nil")
      /\ UNCHANGED diskVars

(* Get on a LRU miss: without a file the reader is nil, and decoding from  *)
(* it panics.  For an extension that is neither png nor jpg nothing is     *)
(* decoded: the error of ReadStream, if any, is what counts.               *)
GetOpen(p) ==
  LET k == call[p].key IN
  /\ call[p].at = "GetOpen"
  /\ \/ /\ call[p].ext # "other"
        /\ \/ OpenStream(p, k, TRUE) /\ Goto(p, "GetRead")
           \/ OpenStream(p, k, FALSE) /\ Return(p, "panic")
     \/ /\ call[p].ext = "other"
        /\ \/ OpenStream(p, k, TRUE) /\ Return(p, "nil")
           \/ OpenStream(p, k, FALSE) /\ DeleteThenReturn(p, "error")
  /\ UNCHANGED lruVars

GetRead(p) ==
  /\ call[p].at = "GetRead"
  /\ ~DecoderDone(call[p].ext, stream[p].got)
  /\ ReadChunk(p)
  /\ UNCHANGED <<lruVars, call>>

GetDecode(p) ==
  LET bytes == stream[p].got IN
  /\ call[p].at = "GetRead"
  /\ DecoderDone(call[p].ext, bytes)
  /\ \/ \E image \in Decoded(call[p].ext, bytes) : ReturnImage(p, image)
     \/ DecodeFails(call[p].ext, bytes) /\ DeleteThenReturn(p, "error")
  /\ DropStream(p)
  /\ UNCHANGED lruVars

(* A read that fails, other than at the end of file: nothing is cached,    *)
(* and the decoder fails.                                                  *)
GetReadFails(p) ==
  /\ call[p].at = "GetRead"
  /\ ~DecoderDone(call[p].ext, stream[p].got)
  /\ ReadRefused(p)
  /\ DeleteThenReturn(p, "error")
  /\ UNCHANGED lruVars

(* The decoder runs into the end of file, perhaps that of a file somebody  *)
(* is writing.  The siphon then waits for the mutex and caches what it has *)
(* read, whatever the file holds by then and whatever the decoder makes of *)
(* it; the decoder fails.                                                  *)
GetEOF(p) ==
  /\ call[p].at = "GetRead"
  /\ ~DecoderDone(call[p].ext, stream[p].got)
  /\ AtEOF(p)
  /\ Goto(p, "GetLock")
  /\ UNCHANGED <<diskVars, lruVars>>

GetLock(p) ==
  /\ call[p].at = "GetLock"
  /\ LockCache(p)
  /\ Goto(p, "GetCache")
  /\ UNCHANGED lruVars

GetCache(p) ==
  LET n == Len(stream[p].got) IN
  /\ call[p].at = "GetCache"
  /\ \/ EvictOne(p, n) /\ UNCHANGED call
     \/ CacheStore(p, call[p].key, n) /\ DeleteThenReturn(p, "error")
     \/ TooLarge(n) /\ CacheNothing(p) /\ DeleteThenReturn(p, "error")
     \/ NoRoom(n) /\ CacheNothing(p) /\ Return(p, "panic")
  /\ UNCHANGED lruVars

-----------------------------------------------------------------------------
(* Set: ReadAll drains the reader when the key is not in the LRU cache, so *)
(* that WriteStream finds nothing left in it.                              *)
SetLookup(p) ==
  /\ call[p].at = "SetLookup"
  /\ Goto(p, IF lru!Contains(call[p].key) THEN "SetOpen" ELSE "SetAdd")
  /\ UNCHANGED <<diskVars, lruVars>>

SetAdd(p) ==
  /\ call[p].at = "SetAdd"
  /\ lru!Add(call[p].key, call[p].src)
  /\ call' = [call EXCEPT ![p].at = "SetOpen", ![p].src = << >>]
  /\ UNCHANGED diskVars

SetOpen(p) ==
  /\ call[p].at = "SetOpen"
  /\ \/ WriteOpen(p, call[p].key) /\ Goto(p, "SetCopy")
     \/ WriteRefused /\ Return(p, "error")
  /\ UNCHANGED lruVars

SetCopy(p) ==
  /\ call[p].at = "SetCopy"
  /\ \/ /\ call[p].src # << >>
        /\ WriteChunk(p, call[p].key, Head(call[p].src))
        /\ call' = [call EXCEPT ![p].src = Tail(@)]
     \/ call[p].src = << >> /\ WriteClose(p, call[p].key) /\ Return(p, "ok")
     \/ WriteFails(p) /\ Return(p, "error")
  /\ UNCHANGED lruVars

-----------------------------------------------------------------------------
(* Delete, on its own or at the end of a Get that could not decode.  The   *)
(* LRU cache's Contains and Remove are one step: Remove of a key that is   *)
(* not there does nothing either.                                          *)
DeleteLru(p) ==
  /\ call[p].at = "DeleteLru"
  /\ lru!Remove(call[p].key)
  /\ Goto(p, "DeleteDisk")
  /\ UNCHANGED diskVars

DeleteDisk(p) ==
  /\ call[p].at = "DeleteDisk"
  /\ \E ok \in BOOLEAN :
        /\ Erase(call[p].key, ok)
        /\ Return(p, IF call[p].op = "Get" THEN call[p].ret
                     ELSE IF ok THEN "ok" ELSE "error")
  /\ UNCHANGED lruVars

-----------------------------------------------------------------------------
(* DeleteAll: one entry of the LRU cache goes, and all the files.          *)
DeleteAllLru(p) ==
  /\ call[p].at = "DeleteAllLru"
  /\ lru!RemoveOldest
  /\ Goto(p, "DeleteAllDisk")
  /\ UNCHANGED diskVars

DeleteAllDisk(p) ==
  /\ call[p].at = "DeleteAllDisk"
  /\ \E ok \in BOOLEAN : EraseAll(ok) /\ Return(p, IF ok THEN "ok" ELSE "error")
  /\ UNCHANGED lruVars

-----------------------------------------------------------------------------
(* A process calls an operation of the provider.                           *)
Begin(p, operation, step, k, ext, src) ==
  /\ call[p].at = "idle"
  /\ call' = [call EXCEPT ![p] = [at |-> step, op |-> operation, key |-> k, ext |-> ext,
                                  src |-> src, img |-> NoImage, ret |-> "none"]]
  /\ UNCHANGED <<diskVars, lruVars>>

BeginContains(p, k) == Begin(p, "Contains", "ContainsLru", k, "other", << >>)
BeginGet(p, k, ext) == Begin(p, "Get", "GetLookup", k, ext, << >>)
BeginSet(p, k, src) == Begin(p, "Set", "SetLookup", k, "other", src)
BeginDelete(p, k) == Begin(p, "Delete", "DeleteLru", k, "other", << >>)
BeginDeleteAll(p) == Begin(p, "DeleteAll", "DeleteAllLru", AnyKey, "other", << >>)

(* The most general client: any operation, on the keys of the process.  An *)
(* encoder that failed has left nothing in the buffer given to Set.        *)
Client(p) ==
  \/ BeginDeleteAll(p)
  \/ \E k \in KeysOf[p] :
        \/ BeginContains(p, k)
        \/ \E ext \in Extensions : BeginGet(p, k, ext)
        \/ BeginSet(p, k, << >>)
        \/ \E v \in StoredFor[k] : BeginSet(p, k, Whole(v))
        \/ BeginDelete(p, k)

Step(p) ==
  \/ ContainsLru(p) \/ ContainsDisk(p)
  \/ GetLookup(p) \/ GetHit(p) \/ GetOpen(p)
  \/ GetRead(p) \/ GetDecode(p) \/ GetReadFails(p)
  \/ GetEOF(p) \/ GetLock(p) \/ GetCache(p)
  \/ SetLookup(p) \/ SetAdd(p) \/ SetOpen(p) \/ SetCopy(p)
  \/ DeleteLru(p) \/ DeleteDisk(p)
  \/ DeleteAllLru(p) \/ DeleteAllDisk(p)

UncacheStep ==
  /\ \E k \in Keys, n \in 0..Chunks : UncacheLater(k, n)
  /\ UNCHANGED <<lruVars, call>>

(* The process dies at any moment, and its supervisor starts it again.     *)
Restart ==
  /\ RestartDisk
  /\ lru!Purge
  /\ call' = IdleCalls

Work == (\E p \in Procs : Step(p)) \/ UncacheStep

Next == (\E p \in Procs : Client(p)) \/ Work \/ Restart

Spec == Init /\ [][Next]_vars

-----------------------------------------------------------------------------
(***************************************************************************)
(* diskv's in-memory cache holds nothing for longer than a failing read:   *)
(* an entry for a key is there only between the siphon that put it there   *)
(* and the Delete that the same Get goes on to.  So Contains answers from  *)
(* the files and the LRU cache, never from a memory of a file long gone,   *)
(* and the cache that SetCacheProvider sizes at 1 GiB serves no read.      *)
(***************************************************************************)
AboutToDelete(p, k) ==
  call[p].op = "Get" /\ call[p].key = k /\ call[p].at \in {"DeleteLru", "DeleteDisk"}

MemoryCacheIsTransient ==
  \A k \in Keys : InCache(k) => \E p \in Procs : AboutToDelete(p, k)

(***************************************************************************)
(* What Get returns for a key is an image that was stored under that key,  *)
(* in the encoding asked for: no interleaving of Set, Delete, evictions,   *)
(* unlinked files and restarts makes it return another key's image, even   *)
(* where pictures of both encodings share a key.  It may be a picture made *)
(* of two when a JPEG is asked for and two different ones are stored under *)
(* that key: a reader of the file is overtaken by a writer.                *)
(***************************************************************************)
TwoJpegs(k) ==
  \E x, y \in StoredFor[k] : x # y /\ Format[x] = "jpg" /\ Format[y] = "jpg"

GetReturnsStored ==
  \A p \in Procs :
    call[p].op = "Get" /\ call[p].ret = "image" =>
      \/ /\ call[p].img \in StoredFor[call[p].key]
         /\ Format[call[p].img] = LruDecoder(call[p].ext)
      \/ call[p].img = Garbled /\ call[p].ext = "jpg" /\ TwoJpegs(call[p].key)

(***************************************************************************)
(* A file is at every moment the first chunks of one value stored under    *)
(* its key: two writes of the same key never mix in it, and none goes into *)
(* the file of another key, although a write that fails or is cut short by *)
(* a restart leaves what it had written.                                   *)
(***************************************************************************)
WritesDoNotMix ==
  \A k \in Keys :
    /\ Len(data[k]) <= Chunks
    /\ data[k] # << >> =>
         \E x \in StoredFor[k] : \A i \in DOMAIN data[k] : data[k][i] = x

(***************************************************************************)
(* d.mu is held between two steps by the goroutine in the middle of a      *)
(* write or of an eviction, and by nobody else: every path out of these    *)
(* sections gives it back (diskv.go 112-115, 502-504): the failed write,   *)
(* the value too large and the panic included.  None gives back what       *)
(* another goroutine holds.                                                *)
(***************************************************************************)
MutexFollowsSections ==
  \A p \in Procs : mu = p <=> call[p].at \in {"SetCopy", "GetCache"}

(***************************************************************************)
(* A Get that could not decode what it found leaves nothing behind under   *)
(* its key, neither in the LRU cache nor in diskv's memory nor on disk, so *)
(* that the next request downloads the image again.  Only a file system    *)
(* that refuses to remove the file leaves that.  True of a process whose   *)
(* keys are its own.                                                       *)
(***************************************************************************)
GetFailsNow(p) ==
  /\ call[p].op = "Get" /\ call[p].ext # "other"
  /\ call[p].at # "idle" /\ call'[p].at = "idle"
  /\ call'[p].ret \in {"nil", "error"}

DiskRefuses(p) ==
  RemoveFails /\ call[p].at = "DeleteDisk" /\ Erase(call[p].key, FALSE)

FailedGetForgets(p) ==
  LET k == call[p].key IN
  GetFailsNow(p) =>
    /\ ~lru!Contains(k)' /\ ~InCache(k)'
    /\ k \in files' => DiskRefuses(p)

(***************************************************************************)
(* d.cacheSize is the number of chunks of the values in d.cache.  Every    *)
(* path that changes one changes the other by as much, the goroutine of    *)
(* ReadStream included.                                                    *)
(***************************************************************************)
ChunksInMemory == {chunk \in Keys \X (1..Chunks) : chunk[2] <= cached[chunk[1]]}

AccountingIsExact == cacheSize = Cardinality(ChunksInMemory)

(***************************************************************************)
(* The panic of ensureCacheSpaceWithLock, "bytes still won't fit in the    *)
(* cache", states that evicting everything always makes room.              *)
(***************************************************************************)
EvictionMakesRoom ==
  \A p \in Procs : call[p].at = "GetCache" => ~NoRoom(Len(stream[p].got))

SetReturns(p) ==
  call[p].op = "Set" /\ call[p].at # "idle"
    /\ call'[p].at = "idle" /\ call'[p].ret = "ok"

(***************************************************************************)
(* An image stored is on disk: the cache layer of the README is "1GB of    *)
(* disk space" in which the service finds it later.  After a Set by a      *)
(* process alone the file holds what the LRU cache holds for the key.      *)
(***************************************************************************)
SetReachesDisk ==
  [][\A p \in Procs :
       LET k == call[p].key IN
       SetReturns(p) => k \in files' /\ data'[k] = lru!Element(k).value]_vars
=============================================================================
