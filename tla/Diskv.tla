------------------------------- MODULE Diskv -------------------------------
(***************************************************************************)
(* The file store of the service: peterbourgon/diskv with the options of   *)
(* SetCacheProvider (no index, no compression, an in-memory cache bounded  *)
(* by CacheSizeMax).  A file's content is a sequence of chunks, each       *)
(* labelled with the value it is a piece of, so that a half-written file,  *)
(* an empty file and a mixture of two writes are all told apart.           *)
(*                                                                         *)
(* The actions are those of one process p; what p does between them is     *)
(* said by the module that composes this one.  A section under d.mu that   *)
(* nobody can see the middle of is a single step, enabled while the mutex  *)
(* is free.  The two that can be seen half done hold it over several       *)
(* steps: WriteStream, because a reader that opened the file earlier reads *)
(* it without the mutex, and the eviction loop of cacheWithLock, which may *)
(* end in a panic.                                                         *)
(***************************************************************************)
EXTENDS Integers, Sequences

CONSTANTS
  Procs,         (* the goroutines that use the store                     *)
  Keys,
  Values,        (* what chunks are pieces of                             *)
  Chunks,        (* the number of chunks of a complete value              *)
  CacheSizeMax,  (* the bound of the in-memory cache, in chunks           *)
  Modulus,       (* d.cacheSize is an unsigned integer modulo this        *)
  DiskFails,     (* whether the file system may refuse to open, read,     *)
                 (* write or look for a file                              *)
  RemoveFails,   (* whether it may refuse to remove one                   *)
  Nobody,        (* the owner of a free mutex                             *)
  Closed,        (* a stream that is not open                             *)
  Unlinked       (* a stream whose file was removed after it was opened   *)

ASSUME ChunksAssumption == Chunks \in Nat \ {0}
ASSUME SizesAssumption ==
  CacheSizeMax \in Nat \ {0} /\ Modulus \in Nat /\ CacheSizeMax + Chunks < Modulus
ASSUME DiskFailsAssumption == DiskFails \in BOOLEAN /\ RemoveFails \in BOOLEAN
ASSUME NamesAssumption ==
  Nobody \notin Procs /\ Closed \notin Keys /\ Unlinked \notin Keys /\ Closed # Unlinked

VARIABLES
  files,      (* the keys that have a file                                *)
  data,       (* the chunks in the file of each key                       *)
  cached,     (* d.cache: the length of each cached value, or NotCached   *)
  cacheSize,  (* d.cacheSize                                              *)
  mu,         (* who holds d.mu between two steps                         *)
  stream,     (* the siphon each process reads: the file it comes from,   *)
              (* what was read, and what an unlinked file still holds     *)
  uncaching   (* how many goroutines started by ReadStream have yet to    *)
              (* uncache a key with a given length                        *)

diskVars == <<files, data, cached, cacheSize, mu, stream, uncaching>>

NotCached == -1
Bytes == Seq(Values)
AtMostOneValue == {s \in Bytes : Len(s) <= Chunks}
Stream == [from : Keys \cup {Closed, Unlinked}, got : AtMostOneValue, left : Bytes]
NoStream == [from |-> Closed, got |-> << >>, left |-> << >>]

TypeOKDisk ==
  /\ files \subseteq Keys
  /\ data \in [Keys -> Bytes]
  /\ cached \in [Keys -> NotCached..Chunks]
  /\ cacheSize \in 0..Modulus - 1
  /\ mu \in Procs \cup {Nobody}
  /\ stream \in [Procs -> Stream]
  /\ uncaching \in [Keys -> [0..Chunks -> Nat]]

NothingCached == [k \in Keys |-> NotCached]
NoStreams == [p \in Procs |-> NoStream]
NoneUncaching == [k \in Keys |-> [n \in 0..Chunks |-> 0]]

InitDisk ==
  /\ files = {}
  /\ data = [k \in Keys |-> << >>]
  /\ cached = NothingCached
  /\ cacheSize = 0
  /\ mu = Nobody
  /\ stream = NoStreams
  /\ uncaching = NoneUncaching

-----------------------------------------------------------------------------
Unlocked == mu = Nobody

InCache(k) == cached[k] # NotCached

(* Has is true as well of a key that is only in the in-memory cache.       *)
Has(k) == InCache(k) \/ k \in files

(* What Has answers: no error of os.Stat is told from a file that is not there. *)
HasAnswers(k, found) ==
  IF found THEN Has(k) ELSE ~InCache(k) /\ (k \notin files \/ DiskFails)

(* Mutant of Uncache: the size is a signed number.                         *)
UncacheSigned(k, n) ==
  /\ cached' = [cached EXCEPT ![k] = NotCached]
  /\ cacheSize' = cacheSize - n

(* uncacheWithLock subtracts what it is told, cached or not: the size wraps. *)
Uncache(k, n) ==
  /\ cached' = [cached EXCEPT ![k] = NotCached]
  /\ cacheSize' = (cacheSize - n) % Modulus

(* Mutant of BustCache: the value is deleted, its size stays.              *)
BustCacheLeaks(k) ==
  /\ cached' = [cached EXCEPT ![k] = NotCached]
  /\ UNCHANGED cacheSize

BustCache(k) ==
  IF InCache(k) THEN Uncache(k, cached[k]) ELSE UNCHANGED <<cached, cacheSize>>

-----------------------------------------------------------------------------
(* Mutant of WriteOpen: the file is opened without O_TRUNC.                *)
WriteOpenAppends(p, k) ==
  /\ Unlocked
  /\ mu' = p
  /\ files' = files \cup {k}
  /\ UNCHANGED <<data, cached, cacheSize, stream, uncaching>>

(* WriteStream: the file is created or truncated, filled chunk by chunk,   *)
(* synced and closed, and the key leaves the in-memory cache.  A failure   *)
(* on the way leaves the file, and the cache, as they are by then.         *)
WriteOpen(p, k) ==
  /\ Unlocked
  /\ mu' = p
  /\ files' = files \cup {k}
  /\ data' = [data EXCEPT ![k] = << >>]
  /\ UNCHANGED <<cached, cacheSize, stream, uncaching>>

WriteRefused == DiskFails /\ Unlocked /\ UNCHANGED diskVars

WriteChunk(p, k, chunk) ==
  /\ mu = p
  /\ data' = [data EXCEPT ![k] = Append(@, chunk)]
  /\ UNCHANGED <<files, cached, cacheSize, mu, stream, uncaching>>

WriteClose(p, k) ==
  /\ mu = p
  /\ mu' = Nobody
  /\ BustCache(k)
  /\ UNCHANGED <<files, data, stream, uncaching>>

(* Mutant of WriteFails: an error path without the deferred Unlock.        *)
WriteFailsLocked(p) ==
  /\ DiskFails
  /\ mu = p
  /\ UNCHANGED diskVars

WriteFails(p) ==
  /\ DiskFails
  /\ mu = p
  /\ mu' = Nobody
  /\ UNCHANGED <<files, data, cached, cacheSize, stream, uncaching>>

-----------------------------------------------------------------------------
(* ReadStream with direct = true: a cached value is not used, and a        *)
(* goroutine is started that will uncache it; the file is opened.          *)
OpenStream(p, k, found) ==
  /\ Unlocked
  /\ \/ found /\ k \in files
     \/ ~found /\ (k \notin files \/ DiskFails)
  /\ stream' = [stream EXCEPT ![p] =
                  IF found THEN [from |-> k, got |-> << >>, left |-> << >>] ELSE NoStream]
  /\ uncaching' = IF InCache(k)
                    THEN [uncaching EXCEPT ![k][cached[k]] = @ + 1]
                    ELSE uncaching
  /\ UNCHANGED <<files, data, cached, cacheSize, mu>>

(* The goroutine of ReadStream, once it gets the mutex.                    *)
UncacheLater(k, n) ==
  /\ Unlocked
  /\ uncaching[k][n] > 0
  /\ uncaching' = [uncaching EXCEPT ![k][n] = @ - 1]
  /\ Uncache(k, n)
  /\ UNCHANGED <<files, data, mu, stream>>

(* What the file behind p's stream holds now.                              *)
Content(p) == IF stream[p].from \in Keys THEN data[stream[p].from] ELSE stream[p].left

AtEOF(p) == Len(stream[p].got) >= Len(Content(p))

(* siphon.Read of one more chunk.                                          *)
ReadChunk(p) ==
  /\ ~AtEOF(p)
  /\ stream' = [stream EXCEPT ![p].got = Append(@, Content(p)[Len(@) + 1])]
  /\ UNCHANGED <<files, data, cached, cacheSize, mu, uncaching>>

(* The process drops its stream: it needs no more of it, or the file       *)
(* system refuses to read on.                                              *)
DropStream(p) ==
  /\ stream' = [stream EXCEPT ![p] = NoStream]
  /\ UNCHANGED <<files, data, cached, cacheSize, mu, uncaching>>

ReadRefused(p) == DiskFails /\ DropStream(p)

(* siphon.Read, once it has seen the end of file: cacheWithoutLock waits   *)
(* for the mutex, then cacheWithLock stores what was read.                 *)
Fits(n) == (cacheSize + n) % Modulus <= CacheSizeMax

LockCache(p) ==
  /\ Unlocked
  /\ mu' = p
  /\ UNCHANGED <<files, data, cached, cacheSize, stream, uncaching>>

EvictOne(p, n) ==
  /\ mu = p
  /\ n <= CacheSizeMax /\ ~Fits(n)
  /\ \E k \in Keys : InCache(k) /\ Uncache(k, cached[k])
  /\ UNCHANGED <<files, data, mu, stream, uncaching>>

CacheStore(p, k, n) ==
  /\ mu = p
  /\ n <= CacheSizeMax /\ Fits(n)
  /\ cached' = [cached EXCEPT ![k] = n]
  /\ cacheSize' = (cacheSize + n) % Modulus
  /\ mu' = Nobody
  /\ stream' = [stream EXCEPT ![p] = NoStream]
  /\ UNCHANGED <<files, data, uncaching>>

(* Nothing was cached: the value is larger than the whole cache (an error  *)
(* that siphon.Read ignores), or nothing is left to evict and there is     *)
(* still no room (a panic).                                                *)
TooLarge(n) == n > CacheSizeMax

NoRoom(n) == ~TooLarge(n) /\ ~Fits(n) /\ \A k \in Keys : ~InCache(k)

CacheNothing(p) ==
  /\ mu = p
  /\ mu' = Nobody
  /\ stream' = [stream EXCEPT ![p] = NoStream]
  /\ UNCHANGED <<files, data, cached, cacheSize, uncaching>>

-----------------------------------------------------------------------------
(* The files of the keys of S are removed.  Whoever has one open goes on   *)
(* reading what it held.                                                   *)
RemoveFiles(S) ==
  /\ files' = files \ S
  /\ data' = [k \in Keys |-> IF k \in S THEN << >> ELSE data[k]]
  /\ stream' = [p \in Procs |->
                  IF stream[p].from \in S
                    THEN [stream[p] EXCEPT !.from = Unlinked, !.left = Content(p)]
                    ELSE stream[p]]

(* Mutant of Erase: the in-memory cache keeps the value.                   *)
EraseKeepsCache(k, ok) ==
  /\ Unlocked
  /\ \/ ok /\ k \in files /\ RemoveFiles({k})
     \/ ~ok /\ (k \notin files \/ RemoveFails) /\ UNCHANGED <<files, data, stream>>
  /\ UNCHANGED <<cached, cacheSize, mu, uncaching>>

(* Mutant of Erase: a value that was in memory is taken for erased.        *)
EraseFromMemory(k, ok) ==
  /\ Unlocked
  /\ BustCache(k)
  /\ \/ ok /\ (k \in files \/ InCache(k))
        /\ IF InCache(k) THEN UNCHANGED <<files, data, stream>> ELSE RemoveFiles({k})
     \/ ~ok /\ k \notin files /\ ~InCache(k) /\ UNCHANGED <<files, data, stream>>
  /\ UNCHANGED <<mu, uncaching>>

(* Erase: ok says whether there was a file and it was removed.             *)
Erase(k, ok) ==
  /\ Unlocked
  /\ BustCache(k)
  /\ \/ ok /\ k \in files /\ RemoveFiles({k})
     \/ ~ok /\ (k \notin files \/ RemoveFails) /\ UNCHANGED <<files, data, stream>>
  /\ UNCHANGED <<mu, uncaching>>

(* EraseAll: the accounting restarts from nothing; when the file system    *)
(* refuses, some of the files are left.                                    *)
EraseAll(ok) ==
  /\ Unlocked
  /\ cached' = NothingCached
  /\ cacheSize' = 0
  /\ \E S \in SUBSET files :
        /\ RemoveFiles(S)
        /\ IF ok THEN S = files ELSE RemoveFails
  /\ UNCHANGED <<mu, uncaching>>

(* The process dies and starts again: the files are all that is left.      *)
RestartDisk ==
  /\ cached' = NothingCached
  /\ cacheSize' = 0
  /\ mu' = Nobody
  /\ stream' = NoStreams
  /\ uncaching' = NoneUncaching
  /\ UNCHANGED <<files, data>>
=============================================================================
