# A verification project for the image resizer

This directory models the image resizing service of this repository in TLA+,
checks the models with TLC and proves theorems about them with TLAPS.

## 1. The system

The service is an HTTP server (`src/resizer.go`) with three endpoints.  It reads its
configuration once.  Its state outlives a request only in its caches, in the sizes of
the configuration and in the router's global map; the Go runtime runs one goroutine
per request, and the requests meet there.

| component | state | operations | meets |
|---|---|---|---|
| resizing handler (`resizer.go` 52-226) | none of its own; shares the placeholder sizes of `config` | `GET /resize/{size}/{path}` | cache provider, origin (HTTP client), configuration |
| health check (`resizer.go` 228-247, `utils.go` 133-149) | none | `GET /health-check`: counters, LRU size, size of the cache directory | the counters, the cache directory |
| purge (`resizer.go` 249-258) | none | `GET /purge` | cache provider |
| cache provider (`cache/cache.go`) | LRU cache, diskv store, four counters (`cacheStats`) | `Contains`, `Get`, `Set`, `Delete`, `DeleteAll`, `GetStats` | the LRU cache and the store, without a lock of its own |
| LRU cache (vendored `hashicorp/golang-lru`) | a list and a map | `Add`, `Get`, `Contains`, `Remove`, `RemoveOldest`, `Purge`, ... under one mutex | cache provider |
| file store (vendored `peterbourgon/diskv`) | files, an in-memory cache of their content and its size, one RW mutex | `WriteStream`, `ReadStream`, `Has`, `Erase`, `EraseAll` | the file system; a goroutine per uncached read; the siphon that a reader drives outside the mutex |
| sizes (`utils.go` 78-96, `sizer.go`, `validators.go` 39-48) | the configured placeholders, by pointer | `GetImageSize`, `calculateAspectRatio`, `CheckRequestNewSize` | resizing handler |
| names (`utils.go` 25-31, 50-74) | none | `ExtractIdFromUrl`, `GetExtension`, `blockTransform` | resizing handler, file store |
| router (vendored `gorilla/mux`, `gorilla/context`) | a global map from requests to what was found in their paths | `ServeHTTP`, `cleanPath`, `Set`, `Get`, `Clear` | all handlers |
| image scaling (vendored `nfnt/resize`) | the images and weights of one call | `Resize` with `NearestNeighbor` | goroutines of its own, in two passes |
| configuration (`main`, vendored `viper` and `mapstructure`) | viper's settings, the pointer `config` | `ReadInConfig`, `Unmarshal`, `ListenAndServe` | the file system, then every handler |
| host white list (`validators.go` 15-36) | none | `CheckHostInWhiteList` | nothing calls it |

### What is hard about it

* No lock spans two calls of the provider, or two steps inside one: between
  `lruCache.Contains` and `lruCache.Get`, between `Has` and `ReadStream`, between
  the LRU cache and the disk anything may happen.
* A reader of a file reads it outside the store's mutex, while the file may be
  truncated, written or removed; at end of file it goes back to the mutex to cache
  what it read.
* The goroutine `ReadStream` starts subtracts a length that it captured earlier.
* A write is not atomic: a failure or a crash leaves a part of a file, which
  later requests find and try to decode.
* The health check walks the cache directory and reads the counters without a lock,
  while writes, erasures and purges create and remove files and directories.
* The router's map is keyed by pointers to requests, which come back; the scaling's
  goroutines share variables that are assigned anew between the two passes.
* `main` ignores the error of the decoding of its configuration.
* The LRU cache is lost at a restart, the files are not.
* A panic anywhere in a handler is recovered by `net/http`; the request dies, the
  state stays as it is.

### What makes each component correct

* **LRU cache**: list and map describe the same entries; it never exceeds its
  capacity; the entry evicted is the one whose last use is the oldest.
* **File store**: two writes never mix in a file; the mutex is released on every
  path; its in-memory cache never answers for a file that is gone; the size it
  accounts for is the size of what it holds.
* **Cache provider**: `Get` returns an image stored under the key asked for, or
  none; a `Get` that cannot decode what it finds leaves nothing under the key; an
  image stored by `Set` is on disk.
* **Resizing handler**: who asks for a picture at a size is answered with that one
  or with a failure, whatever other requests do to the caches; every request is
  answered; nothing that is left in the caches keeps a picture from being served.
* **Names**: redirects end at a canonical path; the id and the extension of a picture
  fit together.
* **Router**: a handler finds the variables of its own request; the map forgets a
  request when its handler ends, however it ends.
* **Cache directory, health check**: every file has its directories, and no others are
  left; a walk reports a size the directory could have had; a counter never counts
  what did not happen.
* **Scaling**: the two parallel passes make the picture that scaling in both directions
  makes; every pixel is written once and is made from something; the call returns.
* **Configuration**: the service serves with the whole of a file or not at all.
* **Sizes**: a placeholder keeps its configured size; a picture keeps its
  proportions; the limits hold for the picture delivered.

Some of these do not hold: section 6.

## 2. Modules

| module | what it is |
|---|---|
| `Lru` | `simplelru.LRU` behind the mutex of `lru.Cache`: one action per operation |
| `LeastRecent` | what an LRU cache promises: a bounded map and the order of use |
| `LruUse` | `Lru` with a history of the operations, a relation that says which of two keys was used last; the refinement to `LeastRecent` |
| `Diskv` | `diskv.Diskv` with the options the service uses: the actions of one goroutine, composed by the modules that extend it |
| `CacheProvider` | `cache.CacheProvider`: every operation as a sequence of steps on an instance of `Lru` and on `Diskv`, with the most general client |
| `CacheApart` | `CacheProvider` under clients that share all the keys, or that share none: a key has an owner |
| `MCCacheProvider` | `CacheApart` with a bound on calls and restarts, and the constants of its runs |
| `Resizer` | the handlers `resizing` and `purgeCache`, over an instance of `CacheProvider` and an origin that may fail |
| `ResizeService` | what the service promises a client, without caches: the abstract specification of `Resizer` |
| `MCResizer` | `Resizer` with a bound on requests, purges and restarts, or with a client that asks for ever |
| `Names` | `cleanPath`, the routes, `ExtractIdFromUrl`, `GetExtension`, `blockTransform` as operators on paths |
| `CacheDirectory` | the directories of diskv, one system call at a time |
| `HealthCheck` | the walk of `DirSize` over that directory, and the unsynchronised counters |
| `Server` | `net/http`'s goroutines, the router and its global map, the three handlers by their effects on `HealthCheck` |
| `MCServer` | `Server` with bounded requests, all paths of some segments, initial directories |
| `Scaling` | the arithmetic of `nfnt/resize`: dimensions, samples, slices of rows |
| `ParallelResize` | `resizeNearest`: the caller, the goroutines and the WaitGroup of two passes |
| `MCParallelResize` | dimensions for TLC |
| `Sizer` | `calculateAspectRatio` as an operator |
| `Placeholders` | the sizes of concurrent requests, some of them pointers into the configuration |
| `Configuration` | `main`: viper's search and keys, mapstructure's decoding, then `Placeholders` |
| `MCConfiguration` | files of every shape, sizes and pictures for TLC |
| `LruProofs` | theorems about `Lru` |
| `LruUseProofs` | `LruUse` implements `LeastRecent` |
| `CacheProviderProofs` | `CacheProvider` with any clients: the types, from those of `Diskv`; `MemoryCacheIsTransient`, `WritesDoNotMix`, `GetReturnsStored`, `MutexFollowsSections`; lemmas for clients that keep apart and for one alone |
| `CacheApartProofs` | `ExactWhenApart` and `FailedGetForgetsApart` of `CacheApart` |
| `ResizerProofs` | types of `Resizer`, its refinement to `ResizeService`, `OriginalsNeverPanic` |
| `ServerProofs` | types of `Server`, `DirectoriesServeFiles` with its lemmas about `CacheDirectory`, `ContextFollowsRequests`, `CountersNeverOvercount`, `NamesAgree`, `RedirectsOnce`, `WalkReportsWhatWasThere`; redirects lead on, and who holds the mutex can go on |
| `ParallelResizeProofs` | types of `ParallelResize`, `ScalesLikeReference`, `PixelsWrittenOnce`, `BoxesFit`; every step leaves less to do |
| `PlaceholdersProofs` | types of `Placeholders`, `HeightFromConfiguration`, `AspectRatioKept`; `Configuration` implements `Placeholders`, its types, `NeverHalfConfigured`, `OnlyUnsizedPanic` |

    LeastRecent <- LruUse -> Lru <- CacheProvider -> Diskv
                                      ^       ^
            ResizeService <- Resizer -+       +- CacheApart

    Server -> HealthCheck -> CacheDirectory -> Names
    Configuration -> Placeholders -> Sizer <- Scaling <- ParallelResize

The operators named as a mutant in their comment (`AddNewLate`, `WriteOpenAppends`,
...) are not part of any specification: each is a definition with a plausible bug,
kept to show that a property would notice it.

### How state and actions correspond to the code

**`Lru`.** `evictList` is the doubly linked list, front first, and `items` the keys of
the map.  Every operation of `lru.Cache` runs under one mutex, so it is one action.
`RemoveElement` and the two cases of `Add` are the code's own.

**`Diskv`.** A file is a sequence of chunks, each labelled with the value it is a piece
of (`data`), so an empty file, a half-written one and a mixture are different states.
`cached` and `cacheSize` are `d.cache` and `d.cacheSize`, an unsigned number: its
arithmetic is modulo `Modulus`.  `mu` is the owner of `d.mu`; a section under the
mutex that nobody can see the middle of is one step that needs `mu` free.  Two are
visible half done and keep `mu` over several steps: `WriteStream`
(`WriteOpen`, `WriteChunk`s, `WriteClose` or `WriteFails`), because a reader who
opened the file before reads on without the mutex, and the eviction loop of
`cacheWithLock` (`LockCache`, `EvictOne`s, then `CacheStore` or `CacheNothing`).
`AtEOF` needs no mutex: a reader may see the end of a file that a writer has just
truncated, and then wait for that writer (`GetEOF`, `GetLock` of `CacheProvider`).
Where `DiskFails`, a write, an open, a read or a stat may fail (`WriteFails`, `ReadRefused`,
`HasAnswers`); where `RemoveFails`, a removal.
`stream` is the siphon each goroutine reads; when its file is removed it keeps the old
content, as an open file does.  `uncaching` counts the goroutines that `ReadStream`
started and that have not run yet.

**`CacheProvider`.** `call[p]` is the operation goroutine `p` is in, with `at` the next
call it makes.  `Get`, for example, is `GetLookup` (`lruCache.Contains`), `GetHit`
(`lruCache.Get`, the type assertion, the decoder) or `GetOpen` (`ReadStream`),
`GetRead`s, then `GetDecode`, or `GetReadFails`, or `GetEOF`, `GetLock` and `GetCache`,
then `DeleteLru` and `DeleteDisk` when the decoder failed.  Between any two of them the other goroutines
run.  The decoders are external: they accept a complete value of their encoding, may
take a mixture of two JPEGs for a picture, and reject everything else.

**`CacheApart`.** Some promises of the provider hold only for goroutines that do not work on
one key at the same time, as when one request at a time asks for a picture.  `owner` says
who works with each key: everybody, or the first who called the provider with it.  It is
part of the client, not of the code.

**`Resizer`.** `req[p].at` is the place in `resizing` where goroutine `p` waits for a
call to return; an action looks at the result and goes on to the next call or to the
answer.  A panic ends the request with the answer `"panic"`, as `net/http` makes of
it, and leaves the stores as they are.  The switches of the configuration are
chosen in `Init` and at every `Restart`, so a cache written under one configuration is
found by another.  `Restart` loses everything but the files.  Encoding as JPEG loses detail: a
picture made from the JPEG in the cache (`from`) is another one than the one made from
what the origin sent, so two encodings of one thumbnail can come to be stored under one key,
and a reader overtaken by writers may be shown a mixture of the two (`Mixture`).  The size of a
request is fixed by its URL here.  That of a placeholder is read through the shared pointer for the
key and again for the scaling (`resizer.go` 76, 150-158), so that a thumbnail may be
stored under a key, which requests with numbers share, at another width: how far the
size drifts is in `Placeholders`, and a wrong thumbnail for that reason is out of the
scope of `ImplementsResizeService`.

**`Placeholders`.** `config` is the `Size` each placeholder points to, `own` the `Size` of
a request that gives numbers.  Every read and write of a field, in `CheckRequestNewSize`
(`Validate`, `CheckWidth`, `CheckHeight`) and in `resizing` (resizer.go 148-158: `Measure`,
`MeasureHeight`, `Ratio`, `Scale`, `WriteWidth`, `WriteHeight`, `Read`, `Resize`), is a step of
its own, because the pointer is shared.  A size that parses to nothing is
zero in both dimensions; a placeholder without a size is `NoSize`, the nil pointer, and
`Panic` is its first use.  `loaded` is what `main` has loaded, kept to compare.  A division of
`float32`s that is then truncated may give the integer quotient, or, where it is exact, one
less: both are allowed.

**`Configuration`.** A file is the value its parser makes of it: a value with a kind, where
the keys of a map have a name and a spelling.  `Values` is what the parsers can make of files,
with all that is in it.  `ReadInConfig` takes the first file in the order of `SupportedExts`
and makes the keys lower case; a file that is a null leaves the settings empty and is no error (`Parsed`); `insensitiviseMap` returns all the maps that the random order of
Go's map allows.  mapstructure's decoding has an operator for each type of the Go structure
(`Uints`, `Sizes`, `Placeholders`, ...), composed of the cases of the library (`decodeUint`,
`decodePtr`, `decodeSlice`, `decodeStruct`), each of which returns all possible results; `decode`
is the null that sets nothing.  A result has the value and whether there was an error, because
`decodePtr` sets its pointer only without one, and the rest is decoded all the same.
`Unmarshal` drops the error; `ListenAndServe` panics on a nil configuration, ends when it cannot
listen, or is `Placeholders!Serve`.

**`CacheDirectory`, `HealthCheck`.** A directory is the sequence of names that leads to it,
`DirOf` is `blockTransform`.  A step is one change of the tree: `MakeDirectory`, `OpenFile`
and `FillFile` of a write, the removal of the file and then `PruneDirectory` from the bottom
up, `RemoveLeaf` of a purge.  `mu` is `d.mu` again.  `Awkward` are the keys whose file may not be
opened, because the client's `t` has a slash or is too long for a name, or whose directories
`filepath.Glob` may not look into, because it has a bracket: `OpenFails` leaves the directories
that `MkdirAll` has made, `PruneStops` those it did not come to.  `littered` are the keys to
which that happened last.  A walk is one step per system call of
`filepath.Walk`: `StatRoot`, `LstatRoot`, `ReadDirNames`, then an `Lstat` per entry, in any
order; an entry that has gone panics, a directory that has gone ends the walk with an
error.  `low`, `high` and `quiet` remember what could be seen while a walk is under way.
A counter is incremented by `ReadCounter` and `WriteCounter`.

**`Server`.** `req[p]` is the request that goroutine `p` serves and its place on the way
through `ServeHTTP`: redirect, match, `SetVars`, `SetCurrentRoute`, the handler, and the deferred
`Clear`, which a panic runs as well.  `data` and `datat` are the maps of `gorilla/context`.
A pointer is free for a new request when nothing refers to it.  The handler `resizing` is
known by the tasks it gives to `HealthCheck` (`Resizings`), one sequence for each way through
it; its steps are in `Resizer`.

**`ParallelResize`.** A pixel is the set of source pixels it is made from.  `Resize` computes the
dimensions and begins the first pass, `Spawn` starts a goroutine, `Column` is a goroutine's
work on one column of its slice, `Done` the deferred `wg.Done`; `SecondPass` assigns the
weights anew.  A goroutine reads `weights`, the shared variable, at each step.  The boxes of
`Scaling` are in exact fractions but for the samples on their edges, where the `float64`s of
`filters.go` 129-134 round: `rounding` says of each pixel whether it has the sample on its left and the one
on its right edge, and `Roundings` may have all of them.  Scaled up, the two edges are
exactly one apart, and one of the two samples is in.

## 3. Runs

| run | what it checks | bounds |
|---|---|---|
| `lru` | types, list and map agree, capacity, refinement to `LeastRecent` | 4 keys, 2 values, capacity 3; no other bound |
| `cache_concurrent` | types, `GetReturnsStored`, `WritesDoNotMix`, `MemoryCacheIsTransient`, `MutexFollowsSections`, `ExactWhenApart`, `FailedGetForgetsApart` | 2 goroutines on 2 shared keys or with one each, two JPEGs and a PNG under one key, 2 chunks, LRU capacity 1, failing disk, 4 calls, 1 restart |
| `eviction_race` | violates `EvictionMakesRoom` | 2 goroutines on 1 key, 6 calls |
| `set_lone` | violates `SetReachesDisk` | 1 goroutine, 3 calls |
| `resizer_service` | types, refinement to `ResizeService` | 2 goroutines, a JPEG and a PNG, 3 sizes of which one is refused, LRU capacity 1, any caching configuration, removals that may be refused, 3 requests and a purge |
| `resizer_failures` | `EveryRequestIsAnswered` | 2 goroutines, 2 pictures that share an id, failing origin and disk, removals that may be refused, 3 requests, 1 restart |
| `resizer_retry` | `RetryHeals`, `OriginalsNeverPanic` | 1 client that asks for ever, 2 pictures, 2 sizes, any caching configuration, 1 purge, 1 restart |
| `resizer_png` | violates `SupportsPngAndJpg` | 1 client, 1 PNG |
| `sizes` | types, `NeverHalfConfigured`, `OnlyUnsizedPanic`, `HeightFromConfiguration`, `AspectRatioKept` | some 500 working directories; for the five files whose placeholders have two dimensions, one, none, a wrong one or two entries: 2 goroutines, sizes up to 7, pictures 2x1, 1x6 and 5x5; behaviours without bound |
| `placeholder_drift` | violates `PlaceholdersArePredefined` | 1 request |
| `scaling` | types, `ScalesLikeReference`, `BoxesFit`, `PixelsWrittenOnce`, `ResizeReturns` | pictures up to 3x3, every size up to 4x3 and in proportion, samples on an edge in neither, one or both boxes, 3 goroutines |
| `server` | types, `DirectoriesServeFiles`, `WalkReportsWhatWasThere`, `CountersNeverOvercount`, `ContextFollowsRequests`, `RedirectsOnce`, `NamesAgree`, `EveryRequestEnds` | 2 goroutines and 2 pointers; 2 requests for a picture, a purge or the health check, or 1 for any of 1885 paths of up to 3 segments; the key of the original is awkward |

Why the bounds suffice for what is asked:

* *Two goroutines*: every hazard of section 1 is a race of two: one that has read or
  looked something up, and one that changes it before the first goes on.  With four
  or five calls the second can do it more than once, and a third actor is there in
  the goroutines of `ReadStream`, whose number is not bounded.
* *Two or three chunks* are the fewest with a file that is half written, and with
  a reader in the middle of it.
* *`CacheSizeMax` of one* chunk, where a value has two or three, makes every complete
  value too large for diskv's in-memory cache and a partial one fill it, so that
  eviction happens; in `eviction_race` and `set_lone` it is two.  `Modulus` of eight is
  larger than all that is ever cached, as 2^64 is.
* *One chunk* is enough in `resizer_service` and `resizer_retry`, which are about keys
  and encodings; what half-written files do is the question of the other runs.  A mixture of two
  thumbnails takes two chunks and four requests at a time: in `cache_concurrent`
  `Get` returns mixtures, in the runs of `Resizer` none is reached, and that an
  answer is never a mixture of anything else is proved (`ImplementsService`).
* *LRU capacity one or two* makes requests evict each other's entries.  For
  other capacities there are the theorems of section 5.
* *Calls and requests* are bounded because the number of waiting goroutines is not;
  the counters are in the MC modules, and the models and the theorems have no bound.
* *`sizes`*: `MaxUint` of 15 and `MaxPort` of 9 are small enough for values below zero and
  above the largest port.  The files have every kind of value where a number, a list, a
  map or a pointer is wanted, at every depth of the Go structure, and keys in several
  spellings.  The three pictures are wide, high and square; the literal sizes are
  smaller and larger than they are, with and without a height.
* *`scaling`*: up to 3x3 pixels have samples at both borders, boxes of one and of several
  samples, and more goroutines than rows.
* *`server`*: the two keys share the first directory and one has another below it, so an
  erasure stops on its way up; the caches are empty, or an empty directory, or hold both files when
  the requests come.  One awkward key, one that is not: a failed open leaves directories above and below
  those of the other.  Three segments are enough for `/resize/size/path` with a dot segment
  or an empty one in every place, and without.  Goroutines and pointers are alike, so the
  first request takes the first of each.
* All runs but `lru` may stop, when the bound is reached, the service has ended or the
  picture is scaled, and do not check for deadlock.  That nobody waits for ever is the
  question of `EveryRequestIsAnswered`, `EveryRequestEnds` and `ResizeReturns`.
* Goroutines are interchangeable where the runs declare symmetry; no liveness
  property is checked with symmetry.

What the passing runs show: the LRU cache is one; `Get` never returns another
key's picture, not even from a file that is truncated and written again while it is
read, where the most it can come to is a mixture of two JPEGs of that key; diskv's in-memory cache, with direct reads only, serves nothing and is empty
again after each failing read; a bad entry is forgotten by who meets it; requests,
purges and evictions never make the service answer with another picture or another
size; no interleaving, with the disk or the origin failing and a restart at any moment,
leaves a request waiting; a client that asks again gets its images, even with PNG
thumbnails that fail each second time; a picture asked for by two numbers keeps its
proportions to two pixels; a configuration that does not fit the Go structure keeps the
service from starting although its error is ignored, because nothing is set then; the
parallel scaling is scaling; the walk of a changing directory, if it does not fail,
reports a size between what the files had at least and at most; the variables of a
request are never another one's.

## 4. Fairness

`Resizer!Fairness` is weak fairness of each goroutine's next step (`Handle(p)` or
`Cache(p)`) and of the goroutines of `ReadStream` (`UncacheStep`).  The Go scheduler
runs every runnable goroutine.  It is weak fairness only: nothing is assumed of the
order in which a mutex is handed on.  A goroutine that waits for `d.mu` gets it in the
end because the others, whose requests are finite, leave it free for good.
The origin and the disk are assumed to answer or to fail: the HTTP client has a
timeout of five seconds (`utils.go` 21, 98-105).

`Server` has weak fairness of each goroutine's `Work`, `ParallelResize` of the caller and of
each of its goroutines, for the same reason.  A walk that goes on for ever is excluded by
the code, not by fairness: a directory's names are read once.

`RetryHeals` also assumes a client that goes on asking (`MCPersistentSpec`: weak
fairness of `StartResizing`).  This is no promise of the service; the property says
what such a client gets.  It is stated for one client: with two, each can find the
other's failing entry again and again.

## 5. Theorems

For every set of goroutines, keys and values and every capacity, number of chunks,
`CacheSizeMax` and `Modulus`, all pictures, sizes, paths and dimensions, within the
assumptions of the modules:

| theorem | states |
|---|---|
| `LruProofs!TypeCorrect`, `ListAlwaysMatchesMap`, `AlwaysWithinCapacity` | the invariants of `Lru` |
| `LruUseProofs!ImplementsLeastRecentUse` | the list and the map are a bounded map that evicts the key used least recently |
| `CacheProviderProofs!TypeCorrect` | the types of all the stores and calls |
| `CacheProviderProofs!MemoryCacheAlwaysTransient` | what is in diskv's memory is about to be deleted by the `Get` that put it there |
| `CacheProviderProofs!WritesNeverMix` | a file holds the first pieces of one value stored under its key |
| `CacheProviderProofs!MutexAlwaysFollowsSections` | the mutex of diskv is with a goroutine in the middle of a write or an eviction, or free |
| `CacheProviderProofs!GetAlwaysReturnsStored` | `Get` returns an image stored under its key in the encoding asked for, or a mixture of JPEGs where two are stored under it |
| `CacheApartProofs!ApartAlwaysExact` | diskv accounts exactly for what it has in memory, while each key has one goroutine to work with it |
| `CacheApartProofs!FailedGetAlwaysForgets` | under the same condition, a `Get` that fails leaves nothing under its key but a file that the file system has just refused to remove |
| `ResizerProofs!TypeCorrect` | the types of requests, answers, stores and calls, where the pictures have different ids |
| `ResizerProofs!ImplementsService` | where the pictures have different ids, the handlers over the caches are the service without caches, but for mixtures of two encodings of the thumbnail asked for: `ResizeService` |
| `ResizerProofs!NoOriginalPanics` | `OriginalsNeverPanic`, for one request at a time, different ids, the two formats and a disk that reads and writes (removals may be refused) |
| `ServerProofs!ServerTypeCorrect` | the types of the router, the handlers, the directory and the walks |
| `ServerProofs!ContextAlwaysFollowsRequests` | the router's map has entries for requests under way only, and a handler finds its own |
| `ServerProofs!NamesAlwaysAgree` | the id and the extension a handler takes from a path with one dot make up its file name |
| `ServerProofs!CountersAlwaysBelow` | no counter exceeds what it counts, and none that was incremented is zero at rest |
| `ServerProofs!DirectoriesAlwaysServeFiles` | files have their directories at every system call, and at rest no others are left but those of a key whose last write or removal failed half way |
| `ServerProofs!MutexHolderAlwaysGoesOn` | whoever holds the mutex of the store can take its next step |
| `ServerProofs!RedirectsAlwaysOnce` | a redirect leads to a canonical path |
| `ServerProofs!RedirectsAlwaysLeadOn` | a redirect leads to a path that `cleanPath` leaves as it is |
| `ServerProofs!WalksAlwaysReportWhatWasThere` | a walk reports a size between what the files had at least and at most while it was under way, and does not fail where nothing changes |
| `ParallelResizeProofs!TypeCorrect`, `AlwaysScalesLikeReference` | the types of a scaling, and that the parallel passes return the reference |
| `ParallelResizeProofs!PixelsAlwaysWrittenOnce` | no goroutine writes a pixel that has been written in its pass |
| `ParallelResizeProofs!BoxesAlwaysFit` | no pixel is made from nothing; scaled down, the boxes share out the source but for the pixels on their edges, whatever the rounding there |
| `ParallelResizeProofs!ResizeGetsOn` | until `Resize` has returned somebody can go on, and every step leaves less to do |
| `PlaceholdersProofs!TypeCorrect` | no size is out of its type, no request goes on with a nil size |
| `PlaceholdersProofs!HeightAlwaysFromConfiguration` | a placeholder's height is the configured one or zero |
| `PlaceholdersProofs!AspectRatioAlwaysKept` | a size of the request's own keeps the proportions of its picture |
| `PlaceholdersProofs!MainImplementsPlaceholders` | however `main` comes by its configuration, the service it starts is `Placeholders` |
| `PlaceholdersProofs!ConfigurationAlwaysTyped` | the numbers of the configuration are unsigned integers, its switches Booleans |
| `PlaceholdersProofs!AlwaysFullyConfigured` | the service serves only if every field of the configuration can be had from the file |
| `PlaceholdersProofs!OnlyUnsizedAlwaysPanic` | a request panics on its size only if the file has a placeholder without size for its name |

The assumptions are the named ones of the modules.  `Lru`, `Diskv` and `CacheProvider`: positive
capacity and number of chunks, `CacheSizeMax + Chunks < Modulus` (a value and a full
cache do not overflow 64 bits), names that are different, a key to work with.  `Resizer`: the
same of its stores, and special values that are no paths, sizes, keys or pictures.
`CacheApart`: the mark of a shared key is no goroutine.  `Names`,
`CacheDirectory` and `Server`: a positive block size, keys longer than a block (the
shortest key has six characters), a free pointer that is no pointer, the two keys of the
picture among the keys, paths that are sequences of segments, which are sequences of
strings.  The keys are finitely many (`FiniteKeysAssumption`): a health check adds up the sizes
of their files.  `Scaling` and `ParallelResize`: at least one goroutine, sources of at least a pixel.
`Placeholders`: sizes are natural numbers, pictures have at least a
pixel; the theorems are about exact fractions, see `Sizer` for the `float32`s.
`Configuration`: a value of a kind has the content of that kind, what is in a value is a value
again, a file that is a map is a value, the largest integer is positive (`ValuesAssumption`,
`NumbersAssumption`).  The numbers in a file are whole: what mapstructure does with a fraction is not modelled.

Two theorems have hypotheses of their own.  `IdsDiffer`, in `ResizerProofs`, says that the
pictures have different ids; where two share one, a request is answered with the other's
picture (section 6, item 7), so without it the refinement is false.  `Calm`, for
`NoOriginalPanics`, adds one goroutine, formats that are served and a disk that reads and
writes.  Each part is needed: another request, a purge included, may take the entry away between
`Contains` and `Get`, which panics, as does a file that cannot be opened, and so does a path with
another extension.  The constants of the run `resizer_retry` satisfy `Calm`.

The arguments:

* **`Lru`**: `IInv`, the conjunction of the three invariants, is inductive; none of
  them is alone.  Removing the element of a key removes the key from the list only
  if it is there once, the map says which keys are there, and evicting one entry
  per `Add` keeps the list within the capacity only if it was.
* **`LruUse` implements `LeastRecent`**, from `IInv` and `InOrderOfUse`: the pairs of keys in the
  order of the list are the pairs of present keys in the order of their last use.  So the
  abstract map and the abstract order are both functions of the list, and
  each step of the refinement is a statement about lists: what moving an element to the
  front, adding in front, or dropping an element does to the map and to the order.  That the
  key at the back is the abstract `Oldest` needs that the order is total and has no cycles, as
  the order of a list without duplicates has.
* **Types of the provider** (`TypeInv`): the types of the files and the calls together
  with `Lru`'s `IInv`, brought over through an instance of `LruProofs` (`LruStepInv`):
  an element leaves the list at the position of its key, which exists only while the
  list and the map agree.  A siphon never holds more than one value, because a
  decoder stops there.
* **`MemoryCacheIsTransient`** is inductive with `TypeInv` and the fact that only a
  `Get` is at the steps of one (`StepsOfGet`).
* **`WritesDoNotMix`** is inductive with `LockHeld` (a goroutine in the middle of a write
  holds the mutex) and `PendingWrites` (what a `Set` has written and what it has yet to
  write are pieces of one value of its key, not more than one value's worth).
* **`MutexFollowsSections`**: `LockHeld`, and its converse (`HolderInSection`): every step that
  leaves a section gives the mutex back, and no other step takes it.
* **`GetReturnsStored`** is inductive with all of that and three more facts: the entries
  of the LRU cache are complete values of their keys, or empty; a stream in use
  reads the file of its key or what that file held when it was unlinked; a `Set` on its way
  to the LRU cache has a complete value.  A reader that is overtaken by writers reads
  pieces of several values of its key, from which a decoder makes a picture only if they are
  pieces of JPEGs, of two at least (`DecodedIsStored`, `CompleteIsNoMixture`).  There is no
  hypothesis on what is stored under a key.
* **`ExactWhenApart`**: while no two goroutines are in a `Get` of one key (`GetsApart`), a key
  that is opened, or stored in memory, is not in memory already, because what is there is
  about to be deleted by another `Get` (`MemoryCacheIsTransient`).  So no goroutine that
  subtracts a length is ever started (`NothingUncaching`), every length is
  added once and subtracted once, and the size stays below `CacheSizeMax`, so that the
  arithmetic modulo 2^64 does not wrap (`ExactInv`).  `GetsApart` follows from ownership
  (`KeysAreOwned`), which is inductive with the places of the operations.
* **`FailedGetForgetsApart`**: a `Get` fails with the last step of its `Delete` only
  (`FailsInDelete`), and by then its key has left the LRU cache and has not come back, which
  only a `Set` of the same key could have brought about (`RemovedFirst`).  `Erase` takes the
  key out of diskv's memory before it tries to remove the file, so that only the file can be left.
* **`Resizer` implements `ResizeService`**, from `GetReturnsStored` of an instance of
  `CacheProviderProofs` and `HandlersInv`: at each place of a handler, which picture it was
  asked for, which call it waits for, and that the picture at hand is the one asked for, at
  its own size (`Expects`).  The handlers are clients of the provider, so that its
  invariant holds.  From `IdsDiffer`, what is stored under the key of a picture is an encoding of
  it (`StoredOfPicture`), and of its original there is one, the one that the origin sent
  (`OriginalsAreOne`): a mixture can only be of two encodings of the thumbnail asked for.  Every step of a
  handler asks, refuses, answers or goes on (`Handled`), each of which is a step of
  `ResizeService` or a stutter.
* **`OriginalsNeverPanic`**: the LRU cache has an original only whole and in the encoding it
  is read back in (`Readable`), because the only `Set` of its key is the one in
  `StoreOriginal`; so the panic on an undecodable entry is out of reach.  What `Contains`
  answered is still true when `Get` looks (`FoundFor`): alone, `Has` does not answer from a
  memory that `Get` would not find (`MemoryCacheIsTransient`).  And the assertion in
  the eviction of diskv does not fail (`EmptyHasRoom`, from `ExactInv`).  Files may be cut
  short: decoding one fails with an error that the handler looks at.
* **`ContextFollowsRequests`** needs that the pointers of requests under way differ
  (`RequestsInv`), that every entry belongs to a request that has come as far as its
  handler's variables (`EntriesInv`), and what is stored at each place on the way
  (`ValuesInv`).
* **`NamesAgree`** follows from what is stored for a request (`ContextInv`) and that an answer
  keeps the names taken from there (`AnswersInv`), with lemmas about the names of a path with
  one dot: its first and its last are the same.
* **`CountersNeverOvercount`**: what a goroutine has read and not yet written back is below
  what was counted (`CountersInv`), and the tasks a goroutine has yet to do are
  well-formed (`TasksInv`).
* **`DirectoriesServeFiles`** speaks of the directories at rest.  `TreeInv` says of every stage of
  an operation which directories may be there in excess: those made for a file yet to be
  opened, or those an erasure has yet to prune, all above one depth.  An operation that stops half way
  makes its key one of `littered`, and what it leaves are directories of that key.  That an
  empty directory leads to no file (`EmptyLeadsNowhere`), and one that is not empty leads to
  some (`OccupiedLeadsSomewhere`), are lemmas about prefixes of sequences.
* **`MutexHolderAlwaysGoesOn`**: of the directories of a key that are missing one is the shortest; and
  when all the files are gone the directory that is as far from the base as any is empty
  (`SomeLeaf`), because there are finitely many.  So `os.RemoveAll` always has a leaf.
* **Folds.**  `cleanPath` folds the segments of a path, a sum folds the files.  The library's
  inductions cannot be instantiated, but its well-founded orders can be used directly: a set
  of natural numbers has a least element (`LeastNumber`), a set of finite sets a smallest
  one (`SmallestSubset`).  From there the fold exists (`FoldExists`), it satisfies its
  equations (`CleanSegmentsIsFold`, `SumIsFold`), and what it computes follows from a smallest
  counterexample.
* **`RedirectsOnce`, `RedirectLeadsOn`**: what `cleanPath` returns is canonical
  (`CleanIsCanonical`: rooted, with no empty segment but the last, no dot and no two dots), and a canonical path is what
  `cleanPath` leaves as it is (`CanonicalIsClean`).  `RedirectsInv` says of each request that what it was
  redirected to is canonical.
* **`WalkReportsWhatWasThere`**: `WalkInv` says of each walk under way that what it has
  added up is between the least (`low`) and the most (`high`) that the files which it can no
  longer meet have had since it began.  A file is counted once because the
  names that a walk has yet to look at are of different directories, at each depth of its
  stack; while the tree is at rest, all that it has read is still there.  It rests on `TreeInv`.
* **Scaling**: each row is in exactly one slice of `makeSlice`, by the arithmetic of quotients.
  So, for each goroutine, the pixels of its rows in the columns it has passed are made and
  all others are blank (`WrittenInv`), which gives `PixelsWrittenOnce`; the WaitGroup counts the
  goroutines that have not finished (`CountInv`), so that at zero every pixel is made; what the
  first pass has made is what the second reads (`HalfWayInv`).  The reference is then the
  product of two lines of boxes; that none is empty, and that they
  share out the source when it is scaled down, but for what is on their edges, is arithmetic on
  truncated fractions, from where the new dimensions come from (`ReturnedInv`).  A box wider than one
  pixel has a sample that is not on its edge, and the boxes that have one sample in common are next to each
  other, so that no rounding of the edges matters (`NearTouches`, `BoxesShareSamples`).  `ResizeGetsOn` is what can be proved of
  `ResizeReturns`: the WaitGroup is above zero only while a goroutine has yet to count itself out,
  and the pairs of a goroutine and a column before it are finitely many and get fewer.
* **Sizes**: `TypeInv` adds that the pointer of a request past the validator leads to a size,
  whoever wrote there since.  The height needs that what was computed and is not yet
  written has the configured height (`PendingHeights`); the proportions are followed from `Scale`
  by the two stores to `Resize` (`Kept`), with lemmas about truncated quotients.  The
  theorems are about `Placeholders!Spec`, where the service begins with any configuration;
  they hold of `Configuration` by `MainImplementsPlaceholders`: what `ListenAndServe` hands to `Serve` are sizes of names.
* **Configuration** (`MainInv`): the settings are those that the first file can be read as
  (`SettingsRead`), and the pointer is nil or leads to something that was decoded from them without
  an error (`Decoded`).  An error anywhere is an error of the whole (`All`), so each field was
  decoded without one, which takes a value of the kinds in `TakesConfiguration`.  For
  `OnlyUnsizedPanic`, `PanicInv` says of a request that panics that its placeholder was
  loaded without a size; that placeholder is the first with the name among those decoded
  (`FirstPlaceholder`), which come from the list in the file place by place.

### What is model-checked only

The four liveness properties: `EveryRequestIsAnswered`, `RetryHeals`, `EveryRequestEnds` and
`ResizeReturns`.  Fairness and `ENABLED` are out of the prover's reach.  Of what they rest on, it is
proved that nobody keeps a mutex (`MutexAlwaysFollowsSections`), that who has one can go on
(`MutexHolderAlwaysGoesOn`), and that a scaling has somebody to go on and less to do at each step
(`ResizeGetsOn`).

## 6. Where the code and its documentation differ

Each of the first four is shown by a run.

1. `Set` drains the reader into the LRU cache and gives the same reader to the file
   store (`cache.go` 119-128): the file is empty (`set_lone`).  With an LRU cache that is
   always enabled this is the fate of every new key, so the files serve nothing: after
   an eviction or a restart the next request meets an empty file, fails, and
   deletes it.
2. The goroutine of `ReadStream` subtracts a length from `d.cacheSize` a second time
   (`diskv.go` 249-253), the size wraps, and "bytes still won't fit in the cache" panics
   (`eviction_race`).
3. A thumbnail is stored as JPEG and read back by the extension of the picture
   (`resizer.go` 170, 79): each second request for the thumbnail of a PNG panics
   (`resizer_png`).
4. A request for a placeholder overwrites the placeholder's configured size
   (`resizer.go` 154-155, `utils.go` 84; `placeholder_drift`).
5. The width of the picture delivered is bounded by nothing: the limits are checked before
   the size is computed in proportion (`sizer.go` 15, `validators.go` 39-49).
6. `DeleteAll`, "Delete whole cache" (`cache.go` 140), removes one entry of the LRU cache:
   `RemoveOldest`.  What else is in it is served after a purge.
7. The key of a picture is its file name without directory and extension
   (`resizer.go` 70-85): two pictures of the same name are one to the caches.
   `ImplementsResizeService` is therefore checked with unique ids.
8. `LruCacheConfiguration.Size`, 128 (`utils.go` 44), is read by nobody; the cache
   has 2048 entries (`cache.go` 35).
9. The health check divides bytes by 1024 once and calls the result Mb
   (`resizer.go` 236, 245); its counter of file cache hits counts every attempt.
10. The white list of hosts of the README has no caller.
11. The path of a picture has lost its first slash by the time it is appended to
    `ImageHost` (`resizer.go` 57): the README's example of a host, without a slash at its end
    (`src/README.md` 40), gives a URL with host and bucket run together.  `config.json` has the slash.
12. A path without an extension has the extension `jpeg` (`utils.go` 73), which the handler
    has no case for (`resizer.go` 117-123): the image stays nil and the request panics.
    So does a path of two dots, whose extension begins at the first, and one with a percent
    sign that is no escape (`utils.go` 66-67).
13. A file that vanishes under the health check is a nil `FileInfo`, whose `IsDir` panics
    (`utils.go` 143).
14. The error of `viper.Unmarshal` is ignored (`resizer.go` 271): what is reported is a nil
    dereference at the port (`resizer.go` 279).  The error of `ListenAndServe` is ignored as
    well (`resizer.go` 285): a port in use ends the program without a word.  A missing file is
    reported as an unsupported type of file (`viper.go` 899).
15. A placeholder without a size is loaded, and each request for it panics (`utils.go` 84,
    `validators.go` 40).
16. A write whose file cannot be opened leaves the directories that were made for it (`diskv.go`
    121-129), and an erasure stops at a directory whose name `filepath.Glob` does not take for a
    pattern (`diskv.go` 533-535).  Both can be had with the client's `t`, which is a part of the key
    (`resizer.go` 59, 76, 85), with a slash or a bracket in it.
17. A thumbnail made from a download and one made from the JPEG in the cache are two encodings under
    one key.  A request that reads the file while it is written again may be shown a mixture.
18. A source pixel on the edge of two boxes of the scaling is in both or in none of them as
    `float64` rounds (`filters.go` 133-134): from 15 pixels to 14, pixel 7 is in the boxes of 6 and of 7.
19. A configuration file that says `null` is an empty configuration (`viper.go` 908-910): the service
    listens on a port the system chooses, and refuses every size.

## 7. What is not modelled

* **The vendored parsers** of YAML, TOML, HCL and properties, `pflag`, `cast`, the other caches
  of `golang-lru`, the index of diskv with its tree, pretty printers and tests: nine tenths of
  the repository's lines.  One sequential call at the start of `main` goes through a
  parser, and the others are never reached.  What a parser returns is a constant of
  `Configuration`; a model of a YAML scanner would say nothing about the service.
* **The other interpolations** of `nfnt/resize`, its ten pixel formats and the sums of
  their channels, `Thumbnail`: the service uses the nearest neighbour only, and a pixel is
  known by what it is made from.
* **The branches of diskv** for the index, compression, `direct = false`, `Import` and `Keys`, and
  of mux for hosts, queries, subrouters and the building of URLs: not used.
* **`parseInteger` of a float out of range**: the integer depends on the processor.
* **File descriptors**: a reader that does not reach the end of a file never closes
  it; the limit of open files is not modelled, an open that fails is (`DiskFails`).
* **Decoders, encoders, net/http**: outside the repository; what they may return is in
  the models.

## 8. Plan

Done: the caches, the handlers over them, sizes and configuration, the router, the cache
directory and the health check, the scaling; the refinements of the LRU cache and of the
service; the theorems of section 5.

Next: for the operations of the cache provider what `ResizeGetsOn` is for the scaling, a measure
that decreases with every step of one call, which a reader of a growing file and the eviction loop make
less simple; and the channels of a pixel in the scaling, if another interpolation is ever used.
