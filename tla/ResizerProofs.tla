---------------------------- MODULE ResizerProofs ----------------------------
(***************************************************************************)
(* The handlers keep the promise of ResizeService: for any number of       *)
(* requests, pictures and sizes, and whatever the cache, the disk and the  *)
(* origin do, whoever asks for a picture at a size gets that one or none,  *)
(* or, of the thumbnail of a JPEG, perhaps a mixture of two encodings.     *)
(*                                                                         *)
(* A handler trusts what the provider returns to be what it asked for.  So *)
(* the inductive invariant says which call each place of a handler waits   *)
(* for and which picture it has at hand, and takes over the invariant of   *)
(* the provider, of which the handlers are a client.  The hypothesis is    *)
(* that the pictures have different ids.                                   *)
(*                                                                         *)
(* At the end, for one request at a time: no original makes it panic.      *)
(***************************************************************************)
EXTENDS Resizer, TLAPS

(* The theorems of the provider, for the provider of this module.          *)
GP == INSTANCE CacheProviderProofs WITH
  Keys <- CacheKeys,
  Values <- Encoding,
  Format <- [v \in Encoding |-> v.format],
  KeysOf <- [p \in Procs |-> CacheKeys],
  StoredFor <- [k \in CacheKeys |-> StoredUnder(k)]

(* It is the same provider: the definitions of the two instances agree.    *)
LEMMA SameTypes == GP!TypeOK => provider!TypeOK
<1>1. GP!TypeOKDisk => provider!TypeOKDisk
  BY DEF provider!NotCached, GP!NotCached, provider!Bytes, GP!Bytes,
         provider!AtMostOneValue, GP!AtMostOneValue, provider!Stream, GP!Stream,
         provider!TypeOKDisk, GP!TypeOKDisk
<1>2. GP!Call = provider!Call
  BY DEF provider!NotCached, GP!NotCached, provider!Bytes, GP!Bytes,
         provider!AtMostOneValue, GP!AtMostOneValue, provider!Operations, GP!Operations,
         provider!Extensions, GP!Extensions, provider!Results, GP!Results, provider!Steps,
         GP!Steps, provider!Call, GP!Call
<1>3. QED
  BY <1>1, <1>2 DEF provider!TypeOK, GP!TypeOK, provider!lru!TypeOK, GP!lru!TypeOK,
                    provider!lru!Entry, GP!lru!Entry, provider!Bytes, GP!Bytes

LEMMA SameInit == provider!Init => GP!Init
  BY DEF provider!InitDisk, GP!InitDisk, provider!NothingCached, GP!NothingCached,
         provider!NoStreams, GP!NoStreams, provider!NoStream, GP!NoStream,
         provider!NoneUncaching, GP!NoneUncaching, provider!NotCached, GP!NotCached,
         provider!Init, GP!Init, provider!lru!Init, GP!lru!Init, provider!IdleCalls,
         GP!IdleCalls, provider!AnyKey, GP!AnyKey

LEMMA SameRestart ==
  (provider!Restart => GP!Restart) /\ (provider!UncacheStep => GP!UncacheStep)
  BY DEF provider!Restart, GP!Restart, provider!RestartDisk, GP!RestartDisk,
         provider!lru!Purge, GP!lru!Purge, provider!UncacheStep, GP!UncacheStep,
         provider!UncacheLater, GP!UncacheLater, provider!Unlocked, GP!Unlocked,
         provider!Uncache, GP!Uncache, provider!lruVars, GP!lruVars, provider!NothingCached,
         GP!NothingCached, provider!NoStreams, GP!NoStreams, provider!NoStream, GP!NoStream,
         provider!NoneUncaching, GP!NoneUncaching, provider!NotCached, GP!NotCached,
         provider!IdleCalls, GP!IdleCalls, provider!AnyKey, GP!AnyKey

LEMMA SameBegin ==
  /\ \A p, k : provider!BeginContains(p, k) => GP!BeginContains(p, k)
  /\ \A p, k, ext : provider!BeginGet(p, k, ext) => GP!BeginGet(p, k, ext)
  /\ \A p, k, src : provider!BeginSet(p, k, src) => GP!BeginSet(p, k, src)
  /\ \A p, k : provider!BeginDelete(p, k) => GP!BeginDelete(p, k)
  /\ \A p : provider!BeginDeleteAll(p) => GP!BeginDeleteAll(p)
  /\ \A v : provider!Whole(v) = GP!Whole(v)
  BY DEF provider!Begin, GP!Begin, provider!BeginContains, GP!BeginContains,
         provider!BeginGet, GP!BeginGet, provider!BeginSet, GP!BeginSet,
         provider!BeginDelete, GP!BeginDelete, provider!BeginDeleteAll, GP!BeginDeleteAll,
         provider!AnyKey, GP!AnyKey, provider!diskVars, GP!diskVars, provider!lruVars,
         GP!lruVars, provider!Whole, GP!Whole

LEMMA SameStep == \A p : provider!Step(p) => GP!Step(p)
<1>1. \A p : /\ provider!ContainsLru(p) => GP!ContainsLru(p)
             /\ provider!ContainsDisk(p) => GP!ContainsDisk(p)
             /\ provider!GetLookup(p) => GP!GetLookup(p)
             /\ provider!SetLookup(p) => GP!SetLookup(p)
  BY DEF provider!ContainsLru, GP!ContainsLru, provider!lru!Contains, GP!lru!Contains,
         provider!Return, GP!Return, provider!Goto, GP!Goto, provider!diskVars,
         GP!diskVars, provider!lruVars, GP!lruVars, provider!ContainsDisk,
         GP!ContainsDisk, provider!Unlocked, GP!Unlocked, provider!Has, GP!Has,
         provider!HasAnswers, GP!HasAnswers,
         provider!InCache, GP!InCache, provider!NotCached, GP!NotCached,
         provider!GetLookup, GP!GetLookup, provider!SetLookup, GP!SetLookup
<1>2. \A p : provider!GetHit(p) => GP!GetHit(p)
  BY DEF provider!GetHit, GP!GetHit, provider!LruDecoder, GP!LruDecoder,
         provider!lru!Element, GP!lru!Element, provider!lru!Position, GP!lru!Position,
         provider!lru!Get, GP!lru!Get, provider!lru!Contains, GP!lru!Contains,
         provider!lru!Without, GP!lru!Without, provider!lru!SE!RemoveAt,
         GP!lru!SE!RemoveAt, provider!lru!vars, GP!lru!vars, provider!Return, GP!Return,
         provider!Decoded, GP!Decoded, provider!Decodable, GP!Decodable, provider!Whole,
         GP!Whole, provider!MayPassForJpeg, GP!MayPassForJpeg, provider!ReturnImage,
         GP!ReturnImage, provider!DecodeFails, GP!DecodeFails,
         provider!DeleteThenReturn, GP!DeleteThenReturn, provider!diskVars, GP!diskVars
<1>3. \A p : provider!GetOpen(p) => GP!GetOpen(p)
  BY DEF provider!GetOpen, GP!GetOpen, provider!OpenStream, GP!OpenStream,
         provider!Unlocked, GP!Unlocked, provider!NoStream, GP!NoStream,
         provider!InCache, GP!InCache, provider!NotCached, GP!NotCached, provider!Goto,
         GP!Goto, provider!Return, GP!Return, provider!DeleteThenReturn,
         GP!DeleteThenReturn, provider!lruVars, GP!lruVars
<1>4. \A p : /\ provider!GetRead(p) => GP!GetRead(p)
             /\ provider!GetDecode(p) => GP!GetDecode(p)
             /\ provider!GetReadFails(p) => GP!GetReadFails(p)
             /\ provider!GetEOF(p) => GP!GetEOF(p)
             /\ provider!GetLock(p) => GP!GetLock(p)
  <2>1. \A encoding, bytes :
          /\ provider!Decoded(encoding, bytes) = GP!Decoded(encoding, bytes)
          /\ provider!DecodeFails(encoding, bytes) => GP!DecodeFails(encoding, bytes)
          /\ provider!DecoderDone(encoding, bytes) <=> GP!DecoderDone(encoding, bytes)
    BY DEF provider!Decoded, GP!Decoded, provider!Decodable, GP!Decodable, provider!Whole,
           GP!Whole, provider!MayPassForJpeg, GP!MayPassForJpeg, provider!DecodeFails,
           GP!DecodeFails, provider!DecoderDone, GP!DecoderDone
  <2>2. \A p : /\ provider!AtEOF(p) <=> GP!AtEOF(p)
               /\ provider!Content(p) = GP!Content(p)
               /\ provider!DropStream(p) => GP!DropStream(p)
    <3>1. \A p : provider!Content(p) = GP!Content(p)
      BY DEF provider!Content, GP!Content
    <3>2. \A p : provider!AtEOF(p) <=> GP!AtEOF(p)
      BY <3>1 DEF provider!AtEOF, GP!AtEOF
    <3>3. \A p : provider!DropStream(p) => GP!DropStream(p)
      BY DEF provider!DropStream, GP!DropStream, provider!NoStream, GP!NoStream
    <3>4. QED
      BY <3>1, <3>2, <3>3
  <2>3. \A p : provider!GetRead(p) => GP!GetRead(p)
    BY <2>1, <2>2 DEF provider!GetRead, GP!GetRead, provider!ReadChunk, GP!ReadChunk,
                      provider!lruVars, GP!lruVars
  <2>4. ASSUME NEW p, provider!GetDecode(p)
        PROVE  GP!GetDecode(p)
    <3>1. /\ call[p].at = "GetRead" /\ GP!DecoderDone(call[p].ext, stream[p].got)
          /\ GP!DropStream(p) /\ UNCHANGED GP!lruVars
      BY <2>1, <2>2, <2>4 DEF provider!GetDecode, provider!lruVars, GP!lruVars
    <3>2. \/ \E image \in GP!Decoded(call[p].ext, stream[p].got) : GP!ReturnImage(p, image)
          \/ /\ GP!DecodeFails(call[p].ext, stream[p].got)
             /\ GP!DeleteThenReturn(p, "error")
      BY <2>1, <2>4 DEF provider!GetDecode, provider!ReturnImage, GP!ReturnImage,
                        provider!DeleteThenReturn, GP!DeleteThenReturn
    <3>3. QED
      BY <3>1, <3>2 DEF GP!GetDecode
  <2>5. \A p : /\ provider!GetReadFails(p) => GP!GetReadFails(p)
               /\ provider!GetEOF(p) => GP!GetEOF(p)
               /\ provider!GetLock(p) => GP!GetLock(p)
    BY <2>1, <2>2
       DEF provider!GetReadFails, GP!GetReadFails, provider!ReadRefused, GP!ReadRefused,
           provider!DeleteThenReturn, GP!DeleteThenReturn, provider!GetEOF, GP!GetEOF,
           provider!GetLock, GP!GetLock, provider!LockCache, GP!LockCache, provider!Goto,
           GP!Goto, provider!Unlocked, GP!Unlocked, provider!lruVars, GP!lruVars,
           provider!diskVars, GP!diskVars
  <2>6. QED
    BY <2>3, <2>4, <2>5
<1>5. \A p : provider!GetCache(p) => GP!GetCache(p)
  BY DEF provider!GetCache, GP!GetCache, provider!EvictOne, GP!EvictOne, provider!Fits,
         GP!Fits, provider!InCache, GP!InCache, provider!NotCached, GP!NotCached,
         provider!Uncache, GP!Uncache, provider!CacheStore, GP!CacheStore,
         provider!NoStream, GP!NoStream, provider!DeleteThenReturn, GP!DeleteThenReturn,
         provider!TooLarge, GP!TooLarge, provider!CacheNothing, GP!CacheNothing,
         provider!NoRoom, GP!NoRoom, provider!Return, GP!Return, provider!lruVars,
         GP!lruVars
<1>6. \A p : provider!SetAdd(p) => GP!SetAdd(p)
  BY DEF provider!SetAdd, GP!SetAdd, provider!lru!Add, GP!lru!Add,
         provider!lru!AddExisting, GP!lru!AddExisting, provider!lru!Contains,
         GP!lru!Contains, provider!lru!Without, GP!lru!Without,
         provider!lru!SE!RemoveAt, GP!lru!SE!RemoveAt, provider!lru!Position,
         GP!lru!Position, provider!lru!AddNew, GP!lru!AddNew, provider!lru!SE!Front,
         GP!lru!SE!Front, provider!lru!SE!Last, GP!lru!SE!Last, provider!diskVars,
         GP!diskVars
<1>7. \A p : /\ provider!SetOpen(p) => GP!SetOpen(p)
             /\ provider!SetCopy(p) => GP!SetCopy(p)
  BY DEF provider!SetOpen, GP!SetOpen, provider!WriteOpen, GP!WriteOpen,
         provider!Unlocked, GP!Unlocked, provider!Goto, GP!Goto, provider!WriteRefused,
         GP!WriteRefused, provider!diskVars, GP!diskVars, provider!Return, GP!Return,
         provider!lruVars, GP!lruVars, provider!SetCopy, GP!SetCopy,
         provider!WriteChunk, GP!WriteChunk, provider!WriteClose, GP!WriteClose,
         provider!BustCache, GP!BustCache, provider!InCache, GP!InCache,
         provider!NotCached, GP!NotCached, provider!Uncache, GP!Uncache,
         provider!WriteFails, GP!WriteFails
<1>8. \A p : /\ provider!DeleteLru(p) => GP!DeleteLru(p)
             /\ provider!DeleteDisk(p) => GP!DeleteDisk(p)
             /\ provider!DeleteAllLru(p) => GP!DeleteAllLru(p)
             /\ provider!DeleteAllDisk(p) => GP!DeleteAllDisk(p)
  BY DEF provider!DeleteLru, GP!DeleteLru, provider!lru!Remove, GP!lru!Remove,
         provider!lru!Contains, GP!lru!Contains, provider!lru!RemoveElement,
         GP!lru!RemoveElement, provider!lru!Without, GP!lru!Without,
         provider!lru!SE!RemoveAt, GP!lru!SE!RemoveAt, provider!lru!Position,
         GP!lru!Position, provider!lru!vars, GP!lru!vars, provider!Goto, GP!Goto,
         provider!diskVars, GP!diskVars, provider!DeleteDisk, GP!DeleteDisk,
         provider!Erase, GP!Erase, provider!Unlocked, GP!Unlocked, provider!BustCache,
         GP!BustCache, provider!InCache, GP!InCache, provider!NotCached, GP!NotCached,
         provider!Uncache, GP!Uncache, provider!RemoveFiles, GP!RemoveFiles,
         provider!Content, GP!Content, provider!Return, GP!Return, provider!lruVars,
         GP!lruVars, provider!DeleteAllLru, GP!DeleteAllLru, provider!lru!RemoveOldest,
         GP!lru!RemoveOldest, provider!lru!SE!Last, GP!lru!SE!Last,
         provider!DeleteAllDisk, GP!DeleteAllDisk, provider!EraseAll, GP!EraseAll,
         provider!NothingCached, GP!NothingCached
<1>9. QED
  BY <1>1, <1>2, <1>3, <1>4, <1>5, <1>6, <1>7, <1>8 DEF provider!Step, GP!Step

LEMMA ProviderAssumptions ==
  /\ GP!ChunksAssumption /\ GP!SizesAssumption /\ GP!DiskFailsAssumption
  /\ GP!NamesAssumption /\ GP!LruSizeAssumption /\ GP!FormatAssumption
  /\ GP!ClientAssumption /\ GP!ImagesAssumption
<1>1. CacheKeys # {}
  <2>1. PICK path \in Paths, size \in Sizes : TRUE
    BY PathsAssumption
  <2>2. ThumbnailKey(path, size) \in CacheKeys
    BY <2>1 DEF ThumbnailKey, CacheKeys
  <2>3. QED
    BY <2>2
<1>2. QED
  BY <1>1, StoreAssumption, NamesAssumption
     DEF GP!ChunksAssumption, GP!SizesAssumption, GP!DiskFailsAssumption, GP!NamesAssumption,
         GP!LruSizeAssumption, GP!FormatAssumption, GP!ClientAssumption, GP!ImagesAssumption,
         Encoding, StoredUnder

IdsDiffer == \A a, b \in Paths : Id[a] = Id[b] => a = b

(* What is stored under the key of a picture is an encoding of it.  There  *)
(* is one of its original, which comes from the origin, and two may be of  *)
(* its thumbnail.                                                          *)
LEMMA StoredOfPicture ==
  ASSUME IdsDiffer, NEW path \in Paths, NEW size, NEW v \in StoredUnder(<<Id[path], size>>)
  PROVE  /\ v \in Encoding /\ v.of = path /\ v.size = size
         /\ size = Original => v.from = "origin"
<1>1. v \in Encoding /\ Id[v.of] = Id[path] /\ v.size = size
  BY DEF StoredUnder
<1>2. v.of \in Paths
  BY <1>1 DEF Encoding
<1>3. QED
  BY <1>1, <1>2 DEF IdsDiffer, StoredUnder

LEMMA OriginalsAreOne ==
  ASSUME IdsDiffer, NEW path \in Paths, OriginalKey(path) \in CacheKeys
  PROVE  ~GP!TwoJpegs(OriginalKey(path))
<1>1. ASSUME NEW x \in StoredUnder(OriginalKey(path)), x.format = "jpg"
      PROVE  x = [of |-> path, size |-> Original, from |-> "origin", format |-> "jpg"]
  <2>1. x \in Encoding /\ x.of = path /\ x.size = Original /\ x.from = "origin"
    BY StoredOfPicture DEF OriginalKey
  <2>2. QED
    BY <1>1, <2>1 DEF Encoding
<1>2. \A x \in StoredUnder(OriginalKey(path)) : x \in Encoding
  BY DEF StoredUnder
<1>3. QED
  BY <1>1, <1>2 DEF GP!TwoJpegs

LEMMA ProviderNext ==
  ASSUME GP!GetInv, [GP!Next]_(GP!vars)
  PROVE  GP!GetInv'
  BY ProviderAssumptions, GP!GetNext

-----------------------------------------------------------------------------
(* What a handler at each place knows: which picture it was asked for,     *)
(* which Get of the provider it waits for or has the result of, and that   *)
(* the picture it has at hand is the one asked for, at its own size.  What *)
(* it has downloaded is a png or a jpg.                                    *)
AtHand(picture, r) ==
  /\ picture \in Picture /\ picture.of = r.path /\ picture.size = Original
  /\ ~r.hit => picture.from = "origin"

Expects(r, c) ==
  /\ r.at \in {"idle", "purge"} => r.path = NoPath /\ r.size = NoPath
  /\ r.at \notin {"idle", "purge"} => r.path \in Paths /\ r.size \in Sizes
  /\ r.at = "thumbGet" =>
       c.op = "Get" /\ c.key = ThumbnailKey(r.path, r.size) /\ c.ext = Ext[r.path]
  /\ r.at = "originalGet" => c.op = "Get" /\ c.key = OriginalKey(r.path) /\ r.hit
  /\ r.at \in {"thumbSet", "originalSet"} => AtHand(r.picture, r)
  /\ r.at = "thumbSet" /\ ~r.hit => Ext[r.path] # "other"

Reply == [kind : {"none", "image", "mixture"} \cup Failures, of : Paths \cup {NoPath},
          size : Sizes \cup {NoPath}]

HandlersInv ==
  /\ config \in Configurations
  /\ req \in [Procs -> Request]
  /\ answer \in [Procs -> Reply]
  /\ \A p \in Procs : Expects(req[p], call[p])

IInv == GP!GetInv /\ HandlersInv

LEMMA CallType == GP!GetInv => call \in [Procs -> GP!Call]
  BY DEF GP!GetInv, GP!ContentInv, GP!TypeInv

LEMMA KeysOfPictures ==
  ASSUME NEW path \in Paths, NEW size \in Sizes
  PROVE  ThumbnailKey(path, size) \in CacheKeys /\ OriginalKey(path) \in CacheKeys
  BY DEF ThumbnailKey, OriginalKey, CacheKeys

(* A handler is a client of the provider.                                  *)
LEMMA CallsOfProvider ==
  ASSUME GP!GetInv, NEW p \in Procs, NEW k \in CacheKeys
  PROVE  /\ provider!BeginContains(p, k) => GP!Client(p)
         /\ provider!BeginDelete(p, k) => GP!Client(p)
         /\ provider!BeginDeleteAll(p) => GP!Client(p)
         /\ \A ext \in {"png", "jpg", "other"} :
              provider!BeginGet(p, k, ext) =>
                /\ GP!Client(p)
                /\ call'[p].op = "Get" /\ call'[p].key = k /\ call'[p].ext = ext
         /\ \A v \in StoredUnder(k) :
              provider!BeginSet(p, k, provider!Whole(v)) => GP!Client(p)
<1>1. /\ provider!BeginContains(p, k) => GP!Client(p)
      /\ provider!BeginDelete(p, k) => GP!Client(p)
      /\ provider!BeginDeleteAll(p) => GP!Client(p)
  BY SameBegin DEF GP!Client
<1>2. ASSUME NEW ext \in {"png", "jpg", "other"}, provider!BeginGet(p, k, ext)
      PROVE  /\ GP!Client(p)
             /\ call'[p].op = "Get" /\ call'[p].key = k /\ call'[p].ext = ext
  <2>1. GP!BeginGet(p, k, ext)
    BY <1>2, SameBegin
  <2>2. GP!Client(p)
    BY <2>1 DEF GP!Client, GP!Extensions
  <2>3. QED
    BY <2>1, <2>2, CallType DEF GP!BeginGet, GP!Begin
<1>3. ASSUME NEW v \in StoredUnder(k), provider!BeginSet(p, k, provider!Whole(v))
      PROVE  GP!Client(p)
  <2>1. GP!BeginSet(p, k, GP!Whole(v))
    BY <1>3, SameBegin
  <2>2. QED
    BY <1>3, <2>1 DEF GP!Client
<1>4. QED
  BY <1>1, <1>2, <1>3

LEMMA ClientIsAlone ==
  ASSUME GP!GetInv, NEW p \in Procs, GP!Client(p)
  PROVE  \A q \in Procs \ {p} : call'[q] = call[q]
<1>1. \E operation, step, k, ext, src : GP!Begin(p, operation, step, k, ext, src)
  BY DEF GP!Client, GP!BeginContains, GP!BeginGet, GP!BeginSet, GP!BeginDelete,
         GP!BeginDeleteAll
<1>2. QED
  BY <1>1, CallType DEF GP!Begin

(* The image a Get has returned is the one of its key, or a mixture of two *)
(* encodings of a thumbnail.                                               *)
LEMMA ImageOfKey ==
  ASSUME IdsDiffer, GP!GetInv, NEW p \in Procs, call[p].op = "Get", call[p].ret = "image",
         NEW path \in Paths, NEW size \in Sizes \cup {Original},
         call[p].key = <<Id[path], size>>
  PROVE  \/ /\ call[p].img \in Encoding
            /\ call[p].img.of = path /\ call[p].img.size = size
         \/ call[p].img = Garbled /\ call[p].ext = "jpg" /\ size # Original
<1>1. call[p].key \in CacheKeys
  BY DEF CacheKeys
<1>2. CASE call[p].img \in StoredUnder(call[p].key)
  BY <1>2, StoredOfPicture
<1>3. CASE call[p].img = Garbled /\ call[p].ext = "jpg" /\ GP!TwoJpegs(call[p].key)
  <2>1. size # Original
    BY <1>1, <1>3, OriginalsAreOne DEF OriginalKey
  <2>2. QED
    BY <1>3, <2>1
<1>4. QED
  BY <1>1, <1>2, <1>3 DEF GP!GetInv, GP!GetReturnsStored

-----------------------------------------------------------------------------
(* What a step of a handler does to the request and the answer of its      *)
(* process: the request goes on, or it is refused, asked or answered, and  *)
(* an image that answers it is the one asked for, or a mixture of JPEGs.   *)
Asked(r) == r.path \in Paths /\ r.size \in Sizes
NotAsked(r) == r.path = NoPath /\ r.size = NoPath

Promised(r, s, old, new) ==
  \/ s.path = r.path /\ s.size = r.size /\ new = old
  \/ NotAsked(r) /\ NotAsked(s) /\ \E kind \in Failures : new = Failure(kind)
  \/ NotAsked(r) /\ Asked(s) /\ new = NoAnswer
  \/ /\ Asked(r) /\ NotAsked(s)
     /\ \/ new = Image([of |-> r.path, size |-> r.size])
        \/ new = Mixture /\ Ext[r.path] = "jpg"
        \/ \E kind \in Failures : new = Failure(kind)

Moves(p) ==
  \E s \in Request, reply \in Reply :
    /\ req' = [req EXCEPT ![p] = s]
    /\ answer' = [answer EXCEPT ![p] = reply]
    /\ Expects(s, call'[p])
    /\ Promised(req[p], s, answer[p], reply)

Handled(p) == (GP!Client(p) \/ UNCHANGED cacheVars) /\ Moves(p)

LEMMA RequestTypes ==
  /\ NoRequest \in Request /\ NotAsked(NoRequest) /\ NoAnswer \in Reply /\ Mixture \in Reply
  /\ \A kind \in Failures : Failure(kind) \in Reply
  /\ \A path \in Paths, size \in Sizes : Image([of |-> path, size |-> size]) \in Reply
  BY DEF NoRequest, Request, Places, NotAsked, NoAnswer, Reply, Failure, Image, Mixture,
         Picture, NoPicture

LEMMA IdleExpectsNothing == \A c : Expects(NoRequest, c)
  BY DEF Expects, NoRequest

LEMMA GoingOn ==
  ASSUME HandlersInv, NEW p \in Procs, NEW s \in Request,
         req' = [req EXCEPT ![p] = s], UNCHANGED answer,
         s.path = req[p].path, s.size = req[p].size, Expects(s, call'[p])
  PROVE  Moves(p)
<1>1. answer[p] \in Reply /\ answer' = [answer EXCEPT ![p] = answer[p]]
  BY DEF HandlersInv
<1>2. QED
  BY <1>1 DEF Moves, Promised

LEMMA Answering ==
  ASSUME NEW p \in Procs, Asked(req[p]), NEW reply, AnswerWith(p, reply),
         \/ reply = Image([of |-> req[p].path, size |-> req[p].size])
         \/ reply = Mixture /\ Ext[req[p].path] = "jpg"
         \/ \E kind \in Failures : reply = Failure(kind)
  PROVE  Moves(p)
<1>1. reply \in Reply
  BY RequestTypes DEF Asked
<1>2. Promised(req[p], NoRequest, answer[p], reply)
  BY RequestTypes DEF Promised
<1>3. QED
  BY <1>1, <1>2, RequestTypes, IdleExpectsNothing DEF Moves, AnswerWith

LEMMA Failing ==
  ASSUME NEW p \in Procs, Asked(req[p]), NEW kind \in Failures, Fail(p, kind)
  PROVE  Handled(p)
  BY Answering DEF Fail, Handled

LEMMA Responding ==
  ASSUME NEW p \in Procs, Asked(req[p]), NEW picture, picture.of = req[p].path,
         Respond(p, picture)
  PROVE  Handled(p)
<1>1. CASE Ext[req[p].path] = "other"
  BY <1>1, Answering DEF Respond, Handled, Failures
<1>2. CASE Ext[req[p].path] # "other"
  <2>1. AnswerWith(p, Image([of |-> req[p].path, size |-> req[p].size]))
    BY <1>2 DEF Respond
  <2>2. QED
    BY <2>1, Answering DEF Respond, Handled
<1>3. QED
  BY <1>1, <1>2

LEMMA StoringOriginal ==
  ASSUME GP!GetInv, HandlersInv, NEW p \in Procs, Asked(req[p]), NEW picture,
         AtHand(picture, req[p]), picture.from = "origin", Ext[req[p].path] # "other",
         StoreOriginal(p, picture)
  PROVE  Handled(p)
<1> DEFINE s == [req[p] EXCEPT !.at = "originalSet", !.picture = picture]
           v == Encode(picture, Ext[req[p].path])
<1>1. req[p] \in Request /\ Expects(req[p], call[p])
  BY DEF HandlersInv
<1>2. picture \in Picture /\ Ext[req[p].path] \in {"png", "jpg"}
  BY PathsAssumption DEF Asked, AtHand
<1>3. s \in Request /\ s.path = req[p].path /\ s.size = req[p].size /\ Expects(s, call'[p])
  BY <1>1, <1>2 DEF Request, Places, Expects, Asked, AtHand
<1>4. req' = [req EXCEPT ![p] = s] /\ UNCHANGED answer
  BY DEF StoreOriginal
<1>5. Moves(p)
  BY <1>3, <1>4, GoingOn
<1>6. v \in StoredUnder(OriginalKey(req[p].path))
  BY <1>2 DEF Encode, Encoding, Picture, OriginalKey, StoredUnder, AtHand
<1>7. provider!BeginSet(p, OriginalKey(req[p].path), provider!Whole(v))
  BY DEF StoreOriginal
<1>8. OriginalKey(req[p].path) \in CacheKeys
  BY KeysOfPictures DEF Asked
<1>9. GP!Client(p)
  BY <1>6, <1>7, <1>8, CallsOfProvider
<1>10. QED
  BY <1>5, <1>9 DEF Handled

LEMMA Resizing ==
  ASSUME GP!GetInv, HandlersInv, NEW p \in Procs, Asked(req[p]), NEW picture,
         AtHand(picture, req[p]), ~req[p].hit => Ext[req[p].path] # "other",
         Resize(p, picture)
  PROVE  Handled(p)
<1> DEFINE s == [req[p] EXCEPT !.at = "thumbSet", !.picture = picture]
           v == Encode([picture EXCEPT !.size = req[p].size], "jpg")
           k == ThumbnailKey(req[p].path, req[p].size)
<1>1. CASE CachesThumbnails
  <2>1. req[p] \in Request /\ Expects(req[p], call[p])
    BY DEF HandlersInv
  <2>2. picture \in Picture
    BY DEF AtHand
  <2>3. s \in Request /\ s.path = req[p].path /\ s.size = req[p].size /\ Expects(s, call'[p])
    BY <2>1, <2>2 DEF Request, Places, Expects, Asked, AtHand
  <2>4. /\ req' = [req EXCEPT ![p] = s] /\ UNCHANGED answer
        /\ provider!BeginSet(p, k, provider!Whole(v))
    BY <1>1 DEF Resize
  <2>5. Moves(p)
    BY <2>3, <2>4, GoingOn
  <2>6. v \in StoredUnder(k)
    BY <2>2, NamesAssumption
       DEF Encode, Encoding, Picture, Asked, ThumbnailKey, AtHand, StoredUnder
  <2>7. k \in CacheKeys
    BY KeysOfPictures DEF Asked
  <2>8. GP!Client(p)
    BY <2>4, <2>6, <2>7, CallsOfProvider
  <2>9. QED
    BY <2>5, <2>8 DEF Handled
<1>2. CASE ~CachesThumbnails /\ CachesOriginals /\ ~req[p].hit
  BY <1>2, StoringOriginal DEF Resize, AtHand
<1>3. CASE ~CachesThumbnails /\ ~(CachesOriginals /\ ~req[p].hit)
  <2>1. Respond(p, picture) /\ picture.of = req[p].path
    BY <1>3 DEF Resize, AtHand
  <2>2. QED
    BY <2>1, Responding
<1>4. QED
  BY <1>1, <1>2, <1>3

-----------------------------------------------------------------------------
(* Every step of a handler, one by one.                                    *)
LEMMA AtWork ==
  ASSUME HandlersInv, NEW p \in Procs
  PROVE  /\ req[p] \in Request /\ Expects(req[p], call[p])
         /\ req[p].at \notin {"idle", "purge"} => Asked(req[p])
         /\ req[p].at \in {"idle", "purge"} => NotAsked(req[p])
  BY DEF HandlersInv, Expects, Asked, NotAsked

(* The handler goes to a place at which nothing more is expected.          *)
Plain == {"thumbContains", "originalContains", "fetch", "undoOriginal", "undoThumb"}

LEMMA GoingTo ==
  ASSUME HandlersInv, NEW p \in Procs, req[p].at \notin {"idle", "purge"},
         NEW place \in Plain, req' = [req EXCEPT ![p].at = place], UNCHANGED answer
  PROVE  Moves(p)
<1> DEFINE s == [req[p] EXCEPT !.at = place]
<1>1. s \in Request /\ s.path = req[p].path /\ s.size = req[p].size /\ Expects(s, call'[p])
  BY AtWork DEF Plain, Request, Places, Expects, Asked
<1>2. req' = [req EXCEPT ![p] = s]
  OBVIOUS
<1>3. QED
  BY <1>1, <1>2, GoingOn

LEMMA LookingForOriginal ==
  ASSUME GP!GetInv, HandlersInv, NEW p \in Procs, req[p].at \notin {"idle", "purge"},
         LookForOriginal(p, req[p]), UNCHANGED answer
  PROVE  Handled(p)
<1>1. Asked(req[p])
  BY AtWork
<1>2. CASE CachesOriginals
  <2>1. req' = [req EXCEPT ![p].at = "originalContains"]
    BY <1>2 DEF LookForOriginal
  <2>2. GP!Client(p)
    BY <1>1, <1>2, KeysOfPictures, CallsOfProvider DEF LookForOriginal, Asked
  <2>3. QED
    BY <2>1, <2>2, GoingTo DEF Handled, Plain
<1>3. CASE ~CachesOriginals
  <2>1. req' = [req EXCEPT ![p].at = "fetch"] /\ UNCHANGED cacheVars
    BY <1>3 DEF LookForOriginal
  <2>2. QED
    BY <2>1, GoingTo DEF Handled, Plain
<1>4. QED
  BY <1>2, <1>3

LEMMA ThumbnailLookedUpHandled ==
  ASSUME GP!GetInv, HandlersInv, NEW p \in Procs, ThumbnailLookedUp(p)
  PROVE  Handled(p)
<1> DEFINE k == ThumbnailKey(req[p].path, req[p].size)
           s == [req[p] EXCEPT !.at = "thumbGet"]
<1>1. req[p].at = "thumbContains" /\ UNCHANGED answer
  BY DEF ThumbnailLookedUp, At
<1>2. Asked(req[p]) /\ req[p] \in Request
  BY <1>1, AtWork
<1>3. CASE LookForOriginal(p, req[p])
  BY <1>1, <1>3, LookingForOriginal
<1>4. CASE /\ provider!BeginGet(p, k, Ext[req[p].path])
           /\ req' = [req EXCEPT ![p].at = "thumbGet"]
  <2>1. k \in CacheKeys /\ Ext[req[p].path] \in {"png", "jpg", "other"}
    BY <1>2, KeysOfPictures, PathsAssumption DEF Asked
  <2>2. /\ GP!Client(p)
        /\ call'[p].op = "Get" /\ call'[p].key = k /\ call'[p].ext = Ext[req[p].path]
    BY <1>4, <2>1, CallsOfProvider
  <2>3. s \in Request /\ s.path = req[p].path /\ s.size = req[p].size /\ Expects(s, call'[p])
    BY <1>2, <2>2 DEF Request, Places, Expects, Asked
  <2>4. req' = [req EXCEPT ![p] = s]
    BY <1>4
  <2>5. QED
    BY <1>1, <2>2, <2>3, <2>4, GoingOn DEF Handled
<1>5. QED
  BY <1>3, <1>4 DEF ThumbnailLookedUp

LEMMA ThumbnailReadHandled ==
  ASSUME IdsDiffer, GP!GetInv, HandlersInv, NEW p \in Procs, ThumbnailRead(p)
  PROVE  Handled(p)
<1>1. req[p].at = "thumbGet"
  BY DEF ThumbnailRead, At
<1>2. /\ Asked(req[p])
      /\ call[p].op = "Get" /\ call[p].key = <<Id[req[p].path], req[p].size>>
      /\ call[p].ext = Ext[req[p].path]
  BY <1>1, AtWork DEF Expects, ThumbnailKey
<1>3. CASE /\ Result(p) = "image" /\ AnswerWith(p, Shown(call[p].img))
           /\ UNCHANGED cacheVars
  <2>1. \/ /\ call[p].img \in Encoding
           /\ call[p].img.of = req[p].path /\ call[p].img.size = req[p].size
        \/ call[p].img = Garbled /\ Ext[req[p].path] = "jpg"
    BY <1>2, <1>3, ImageOfKey DEF Asked, Result
  <2>2. \/ Shown(call[p].img) = Image([of |-> req[p].path, size |-> req[p].size])
        \/ Shown(call[p].img) = Mixture /\ Ext[req[p].path] = "jpg"
    BY <2>1, NamesAssumption DEF Shown, Image
  <2>3. QED
    BY <1>2, <1>3, <2>2, Answering DEF Handled
<1>4. CASE Fail(p, "panic")
  BY <1>2, <1>4, Failing DEF Failures
<1>5. QED
  BY <1>3, <1>4 DEF ThumbnailRead

LEMMA OriginalLookedUpHandled ==
  ASSUME GP!GetInv, HandlersInv, NEW p \in Procs, OriginalLookedUp(p)
  PROVE  Handled(p)
<1> DEFINE k == OriginalKey(req[p].path)
           s == [req[p] EXCEPT !.at = "originalGet", !.hit = TRUE]
<1>1. req[p].at = "originalContains" /\ UNCHANGED answer
  BY DEF OriginalLookedUp, At
<1>2. Asked(req[p]) /\ req[p] \in Request
  BY <1>1, AtWork
<1>3. CASE UNCHANGED cacheVars /\ req' = [req EXCEPT ![p].at = "fetch"]
  BY <1>1, <1>3, GoingTo DEF Handled, Plain
<1>4. CASE /\ provider!BeginGet(p, k, Ext[req[p].path])
           /\ req' = [req EXCEPT ![p].at = "originalGet", ![p].hit = TRUE]
  <2>1. k \in CacheKeys /\ Ext[req[p].path] \in {"png", "jpg", "other"}
    BY <1>2, KeysOfPictures, PathsAssumption DEF Asked
  <2>2. /\ GP!Client(p)
        /\ call'[p].op = "Get" /\ call'[p].key = k /\ call'[p].ext = Ext[req[p].path]
    BY <1>4, <2>1, CallsOfProvider
  <2>3. s \in Request /\ s.path = req[p].path /\ s.size = req[p].size /\ Expects(s, call'[p])
    BY <1>2, <2>2 DEF Request, Places, Expects, Asked
  <2>4. req' = [req EXCEPT ![p] = s]
    BY <1>4 DEF HandlersInv
  <2>5. QED
    BY <1>1, <2>2, <2>3, <2>4, GoingOn DEF Handled
<1>5. QED
  BY <1>3, <1>4 DEF OriginalLookedUp

LEMMA DownloadHandled ==
  ASSUME GP!GetInv, HandlersInv, NEW p \in Procs, Download(p) \/ DownloadUndecodable(p)
  PROVE  Handled(p)
<1>1. req[p].at = "fetch"
  BY DEF Download, DownloadUndecodable
<1>2. Asked(req[p])
  BY <1>1, AtWork
<1>3. CASE /\ Ext[req[p].path] # "other"
           /\ Resize(p, [of |-> req[p].path, size |-> Original, from |-> "origin"])
  <2> DEFINE picture == [of |-> req[p].path, size |-> Original, from |-> "origin"]
  <2>1. AtHand(picture, req[p])
    BY <1>2 DEF AtHand, Picture, Sources, Asked
  <2> HIDE DEF picture
  <2>2. Resize(p, picture)
    BY <1>3 DEF picture
  <2>3. QED
    BY <1>2, <1>3, <2>1, <2>2, Resizing
<1>4. CASE \E kind \in {"panic", "bad request", "not found"} : Fail(p, kind)
  BY <1>2, <1>4, Failing DEF Failures
<1>5. CASE provider!BeginDelete(p, OriginalKey(req[p].path)) /\ Goto(p, "undoOriginal")
  <2>1. GP!Client(p)
    BY <1>2, <1>5, KeysOfPictures, CallsOfProvider DEF Asked
  <2>2. QED
    BY <1>1, <1>5, <2>1, GoingTo DEF Handled, Goto, Plain
<1>6. QED
  BY <1>3, <1>4, <1>5 DEF Download, DownloadUndecodable

LEMMA UndoneHandled ==
  ASSUME GP!GetInv, HandlersInv, NEW p \in Procs, OriginalUndone(p) \/ ThumbnailUndone(p)
  PROVE  Handled(p)
<1>1. req[p].at \in {"undoOriginal", "undoThumb"}
  BY DEF OriginalUndone, ThumbnailUndone, At
<1>2. Asked(req[p])
  BY <1>1, AtWork
<1>3. CASE ThumbnailUndone(p)
  BY <1>2, <1>3, Failing DEF ThumbnailUndone, Failures
<1>4. CASE OriginalUndone(p)
  <2>1. GP!Client(p)
    BY <1>2, <1>4, KeysOfPictures, CallsOfProvider DEF OriginalUndone, Asked
  <2>2. QED
    BY <1>1, <1>4, <2>1, GoingTo DEF Handled, OriginalUndone, Goto, Plain
<1>5. QED
  BY <1>3, <1>4

(* An original read back from the cache is at hand as one that was a hit.  *)
LEMMA RereadAtHand ==
  ASSUME IdsDiffer, GP!GetInv, NEW p \in Procs, call[p].op = "Get", call[p].ret = "image",
         req[p].path \in Paths, req[p].hit, call[p].key = <<Id[req[p].path], Original>>
  PROVE  AtHand(Reread(call[p].img), req[p])
<1>1. /\ call[p].img \in Encoding
      /\ call[p].img.of = req[p].path /\ call[p].img.size = Original
  BY ImageOfKey
<1>2. QED
  BY <1>1 DEF AtHand, Reread, Picture, Encoding, Sources

LEMMA OriginalReadHandled ==
  ASSUME IdsDiffer, GP!GetInv, HandlersInv, NEW p \in Procs, OriginalRead(p)
  PROVE  Handled(p)
<1>1. req[p].at = "originalGet"
  BY DEF OriginalRead, At
<1>2. /\ Asked(req[p]) /\ req[p].hit
      /\ call[p].op = "Get" /\ call[p].key = <<Id[req[p].path], Original>>
  BY <1>1, AtWork DEF Expects, OriginalKey
<1>3. CASE Result(p) = "image" /\ Resize(p, Reread(call[p].img))
  <2>1. AtHand(Reread(call[p].img), req[p])
    BY <1>2, <1>3, RereadAtHand DEF Asked, Result
  <2>2. QED
    BY <1>2, <1>3, <2>1, Resizing
<1>4. CASE \E kind \in {"panic", "bad request"} : Fail(p, kind)
  BY <1>2, <1>4, Failing DEF Failures
<1>5. QED
  BY <1>3, <1>4 DEF OriginalRead

LEMMA StoredHandled ==
  ASSUME GP!GetInv, HandlersInv, NEW p \in Procs, ThumbnailStored(p) \/ OriginalStored(p)
  PROVE  Handled(p)
<1>1. req[p].at \in {"thumbSet", "originalSet"}
  BY DEF ThumbnailStored, OriginalStored, At
<1>2. /\ Asked(req[p]) /\ AtHand(req[p].picture, req[p])
      /\ req[p].at = "thumbSet" /\ ~req[p].hit => Ext[req[p].path] # "other"
  BY <1>1, AtWork DEF Expects
<1>3. CASE Fail(p, "bad request")
  BY <1>2, <1>3, Failing DEF Failures
<1>4. CASE Respond(p, req[p].picture)
  BY <1>2, <1>4, Responding DEF AtHand
<1>5. CASE req[p].at = "thumbSet" /\ ~req[p].hit /\ StoreOriginal(p, req[p].picture)
  BY <1>2, <1>5, StoringOriginal DEF AtHand
<1>6. QED
  BY <1>3, <1>4, <1>5 DEF ThumbnailStored, OriginalStored, At

LEMMA PurgeHandled ==
  ASSUME GP!GetInv, HandlersInv, NEW p \in Procs, StartPurge(p) \/ Purged(p)
  PROVE  Handled(p)
<1>0. req[p] \in Request /\ NotAsked(req[p])
  BY AtWork DEF StartPurge, Purged, At
<1>1. CASE StartPurge(p)
  <2> DEFINE s == [req[p] EXCEPT !.at = "purge"]
  <2>1. s \in Request /\ s.path = req[p].path /\ s.size = req[p].size /\ Expects(s, call'[p])
    BY <1>0 DEF Request, Places, Expects, NotAsked
  <2>2. req' = [req EXCEPT ![p] = s] /\ UNCHANGED answer
    BY <1>1 DEF StartPurge, Goto
  <2>3. GP!Client(p)
    <3>1. PICK path \in Paths, size \in Sizes : TRUE
      BY PathsAssumption
    <3>2. ThumbnailKey(path, size) \in CacheKeys
      BY KeysOfPictures
    <3>3. QED
      BY <1>1, <3>2, CallsOfProvider DEF StartPurge
  <2>4. QED
    BY <2>1, <2>2, <2>3, GoingOn DEF Handled
<1>2. CASE Purged(p)
  BY <1>0, <1>2, RequestTypes, IdleExpectsNothing, GoingOn DEF Purged, Handled, NotAsked
<1>3. QED
  BY <1>1, <1>2

LEMMA StartHandled ==
  ASSUME GP!GetInv, HandlersInv, NEW p \in Procs, StartResizing(p)
  PROVE  Handled(p)
<1>1. req[p].at = "idle" /\ NotAsked(req[p])
  BY AtWork DEF StartResizing
<1>2. ASSUME AnswerWith(p, Failure("bad request")), UNCHANGED cacheVars
      PROVE  Handled(p)
  <2>1. Promised(req[p], NoRequest, answer[p], Failure("bad request"))
    BY <1>1, RequestTypes DEF Promised, Failures
  <2>2. Failure("bad request") \in Reply
    BY RequestTypes DEF Failures
  <2>3. QED
    BY <1>2, <2>1, <2>2, RequestTypes, IdleExpectsNothing DEF Handled, Moves, AnswerWith
<1>3. ASSUME NEW path \in Paths, NEW size \in Sizes, NEW place \in Plain,
             answer' = [answer EXCEPT ![p] = NoAnswer],
             req' = [req EXCEPT ![p] =
                       [[NoRequest EXCEPT !.path = path, !.size = size] EXCEPT !.at = place]]
      PROVE  Moves(p)
  <2> DEFINE s == [[NoRequest EXCEPT !.path = path, !.size = size] EXCEPT !.at = place]
  <2>1. s \in Request /\ Asked(s) /\ Expects(s, call'[p])
    BY DEF NoRequest, Request, Places, Plain, Asked, Expects
  <2>2. Promised(req[p], s, answer[p], NoAnswer)
    BY <1>1, <2>1 DEF Promised
  <2>3. QED
    BY <1>3, <2>1, <2>2, RequestTypes DEF Moves
<1>4. ASSUME NEW path \in Paths, NEW size \in Sizes,
             answer' = [answer EXCEPT ![p] = NoAnswer],
             LookForOriginal(p, [NoRequest EXCEPT !.path = path, !.size = size])
      PROVE  Handled(p)
  <2> DEFINE request == [NoRequest EXCEPT !.path = path, !.size = size]
  <2>1. CASE CachesOriginals
    <3>1. request.path = path
      BY DEF NoRequest
    <3>2. /\ provider!BeginContains(p, OriginalKey(path))
          /\ req' = [req EXCEPT ![p] = [request EXCEPT !.at = "originalContains"]]
      BY <1>4, <2>1, <3>1 DEF LookForOriginal
    <3>3. GP!Client(p)
      BY <3>2, KeysOfPictures, CallsOfProvider
    <3>4. QED
      BY <1>3, <1>4, <3>2, <3>3 DEF Handled, Plain
  <2>2. CASE ~CachesOriginals
    <3>1. UNCHANGED cacheVars /\ req' = [req EXCEPT ![p] = [request EXCEPT !.at = "fetch"]]
      BY <1>4, <2>2 DEF LookForOriginal
    <3>2. QED
      BY <1>3, <1>4, <3>1 DEF Handled, Plain
  <2>3. QED
    BY <2>1, <2>2
<1>5. ASSUME NEW path \in Paths, NEW size \in Sizes,
             answer' = [answer EXCEPT ![p] = NoAnswer],
             provider!BeginContains(p, ThumbnailKey(path, size)),
             req' = [req EXCEPT ![p] =
                       [[NoRequest EXCEPT !.path = path, !.size = size]
                          EXCEPT !.at = "thumbContains"]]
      PROVE  Handled(p)
  <2>1. GP!Client(p)
    BY <1>5, KeysOfPictures, CallsOfProvider
  <2>2. QED
    BY <1>3, <1>5, <2>1 DEF Handled, Plain
<1>6. QED
  BY <1>2, <1>4, <1>5 DEF StartResizing

LEMMA HandlerStep ==
  ASSUME IdsDiffer, IInv, NEW p \in Procs, Handle(p) \/ Arrive(p)
  PROVE  Handled(p) /\ UNCHANGED config
<1>1. GP!GetInv /\ HandlersInv
  BY DEF IInv
<1>2. CASE Arrive(p)
  BY <1>1, <1>2, StartHandled, PurgeHandled DEF Arrive
<1>3. CASE Handle(p)
  BY <1>1, <1>3, ThumbnailLookedUpHandled, ThumbnailReadHandled, OriginalLookedUpHandled,
     DownloadHandled, UndoneHandled, OriginalReadHandled, StoredHandled, PurgeHandled
     DEF Handle
<1>4. QED
  BY <1>2, <1>3

-----------------------------------------------------------------------------
(* The invariant is inductive.                                             *)
LEMMA InvInit == Init => IInv
<1> SUFFICES ASSUME Init
             PROVE  IInv
  OBVIOUS
<1>1. GP!GetInv
  BY SameInit, ProviderAssumptions, GP!GetInit DEF Init
<1>2. HandlersInv
  BY RequestTypes, IdleExpectsNothing DEF Init, HandlersInv
<1>3. QED
  BY <1>1, <1>2 DEF IInv

LEMMA HandledKeeps ==
  ASSUME IInv, NEW p \in Procs, Handled(p), UNCHANGED config
  PROVE  HandlersInv'
<1>1. \A q \in Procs \ {p} : call'[q] = call[q]
  BY ClientIsAlone DEF IInv, Handled, cacheVars
<1>2. PICK s \in Request, reply \in Reply :
        /\ req' = [req EXCEPT ![p] = s]
        /\ answer' = [answer EXCEPT ![p] = reply]
        /\ Expects(s, call'[p])
  BY DEF Handled, Moves
<1>3. QED
  BY <1>1, <1>2 DEF IInv, HandlersInv

LEMMA CacheKeeps ==
  ASSUME IInv, NEW p \in Procs, Cache(p)
  PROVE  HandlersInv'
<1>1. GP!StaysInCall(p)
  BY SameStep, ProviderAssumptions, GP!StepStaysInCall
     DEF Cache, IInv, GP!GetInv, GP!ContentInv
<1>2. \A q \in Procs : /\ call'[q].op = call[q].op /\ call'[q].key = call[q].key
                        /\ call'[q].ext = call[q].ext
  BY <1>1, SameStep, ProviderAssumptions, GP!StepOnResult
     DEF GP!StaysInCall, Cache, IInv, GP!GetInv, GP!ContentInv
<1>3. \A q \in Procs : Expects(req[q], call[q]) => Expects(req[q], call'[q])
  BY <1>2 DEF Expects
<1>4. QED
  BY <1>3 DEF IInv, HandlersInv, Cache

LEMMA InvNext ==
  ASSUME IdsDiffer, IInv, [Next]_vars
  PROVE  IInv'
<1>1. CASE UNCHANGED vars
  <2>1. GP!GetInv'
    BY <1>1, ProviderNext DEF IInv, vars, cacheVars, GP!vars, GP!diskVars, GP!lruVars
  <2>2. HandlersInv'
    BY <1>1 DEF IInv, HandlersInv, vars, cacheVars
  <2>3. QED
    BY <2>1, <2>2 DEF IInv
<1>2. CASE Restart
  <2>1. GP!Next
    BY <1>2, SameRestart DEF Restart, GP!Next
  <2>2. HandlersInv'
    BY <1>2, RequestTypes, IdleExpectsNothing DEF Restart, HandlersInv
  <2>3. QED
    BY <2>1, <2>2, ProviderNext DEF IInv
<1>3. CASE UncacheStep
  <2>1. GP!Next /\ UNCHANGED <<call, config, req, answer>>
    BY <1>3, SameRestart DEF UncacheStep, GP!Next, GP!Work, GP!UncacheStep
  <2>2. QED
    BY <2>1, ProviderNext DEF IInv, HandlersInv
<1>4. ASSUME NEW p \in Procs, Cache(p)
      PROVE  IInv'
  <2>1. GP!Next
    BY <1>4, SameStep DEF Cache, GP!Next, GP!Work
  <2>2. QED
    BY <1>4, <2>1, ProviderNext, CacheKeeps DEF IInv
<1>5. ASSUME NEW p \in Procs, Handle(p) \/ Arrive(p)
      PROVE  IInv'
  <2>1. Handled(p) /\ UNCHANGED config
    BY <1>5, HandlerStep
  <2>2. [GP!Next]_(GP!vars)
    BY <2>1 DEF Handled, GP!Next, cacheVars, GP!vars, GP!diskVars, GP!lruVars
  <2>3. QED
    BY <2>1, <2>2, ProviderNext, HandledKeeps DEF IInv
<1>6. QED
  BY <1>1, <1>2, <1>3, <1>4, <1>5 DEF Next, Work

LEMMA Invariant == IdsDiffer => (Spec => []IInv)
<1> SUFFICES ASSUME IdsDiffer
             PROVE  Spec => []IInv
  OBVIOUS
<1>1. IInv /\ [Next]_vars => IInv'
  BY InvNext
<1>2. QED
  BY <1>1, InvInit, PTL DEF Spec

(* Requests, answers, calls and caches stay what they are declared to be:  *)
(* the size counter of diskv included, whose arithmetic is that of an      *)
(* unsigned number.                                                        *)
THEOREM TypeCorrect == IdsDiffer => (Spec => []TypeOK)
<1>1. IInv => TypeOK
  <2> SUFFICES ASSUME IInv
               PROVE  TypeOK
    OBVIOUS
  <2>1. provider!TypeOK
    BY SameTypes, ProviderAssumptions, GP!TypeInvImpliesTypeOK
       DEF IInv, GP!GetInv, GP!ContentInv
  <2>2. QED
    BY <2>1 DEF IInv, HandlersInv, TypeOK, Reply
<1>2. QED
  BY <1>1, Invariant, PTL

-----------------------------------------------------------------------------
(* The refinement, step by step.                                           *)
waiting == [p \in Procs |-> [path |-> req[p].path, size |-> req[p].size]]

LEMMA ServiceInit == Init => Service!Init
  BY DEF Init, Service!Init, NoRequest, NoPath, NoAnswer, Service!Nothing, Service!NoAnswer

LEMMA HandledServes ==
  ASSUME IInv, NEW p \in Procs, Handled(p)
  PROVE  [Service!Next]_(Service!vars)
<1>1. req \in [Procs -> Request] /\ answer \in [Procs -> Reply]
  BY DEF IInv, HandlersInv
<1>2. PICK s \in Request, reply \in Reply :
        /\ req' = [req EXCEPT ![p] = s]
        /\ answer' = [answer EXCEPT ![p] = reply]
        /\ Promised(req[p], s, answer[p], reply)
  BY DEF Handled, Moves
<1>3. /\ waiting[p] = [path |-> req[p].path, size |-> req[p].size]
      /\ waiting' = [waiting EXCEPT ![p] = [path |-> s.path, size |-> s.size]]
  BY <1>1, <1>2 DEF waiting
<1>4. CASE s.path = req[p].path /\ s.size = req[p].size /\ reply = answer[p]
  <2>1. waiting' = waiting /\ answer' = answer
    BY <1>1, <1>2, <1>3, <1>4 DEF waiting
  <2>2. QED
    BY <2>1 DEF waiting, Service!vars
<1>5. CASE NotAsked(req[p]) /\ NotAsked(s) /\ \E kind \in Failures : reply = Failure(kind)
  <2>1. waiting[p] = Service!Nothing /\ UNCHANGED waiting
    BY <1>3, <1>5 DEF waiting, NotAsked, Service!Nothing, NoPath
  <2>2. \E kind \in Failures : answer' = [answer EXCEPT ![p] = Service!Failure(kind)]
    BY <1>2, <1>5 DEF Failure, Service!Failure, NoPath
  <2>3. Service!Refuse(p)
    BY <2>1, <2>2 DEF waiting, Service!Refuse
  <2>4. QED
    BY <2>3 DEF Service!Next
<1>6. CASE NotAsked(req[p]) /\ Asked(s) /\ reply = NoAnswer
  <2>1. waiting[p] = Service!Nothing
    BY <1>3, <1>6 DEF NotAsked, Service!Nothing, NoPath
  <2>2. answer' = [answer EXCEPT ![p] = Service!NoAnswer]
    BY <1>2, <1>6 DEF NoAnswer, Service!NoAnswer, NoPath
  <2>3. \E path \in Paths, size \in Sizes :
          waiting' = [waiting EXCEPT ![p] = [path |-> path, size |-> size]]
    BY <1>3, <1>6 DEF Asked
  <2>4. Service!Ask(p)
    BY <2>1, <2>2, <2>3 DEF waiting, Service!Ask
  <2>5. QED
    BY <2>4 DEF Service!Next
<1>7. CASE /\ Asked(req[p]) /\ NotAsked(s)
           /\ \/ reply = Image([of |-> req[p].path, size |-> req[p].size])
              \/ reply = Mixture /\ Ext[req[p].path] = "jpg"
              \/ \E kind \in Failures : reply = Failure(kind)
  <2>1. waiting[p] # Service!Nothing
    BY <1>3, <1>7, NamesAssumption DEF Asked, Service!Nothing, NoPath
  <2>2. waiting' = [waiting EXCEPT ![p] = Service!Nothing]
    BY <1>3, <1>7 DEF NotAsked, Service!Nothing, NoPath
  <2>3. \/ answer' = [answer EXCEPT ![p] = Service!Image(waiting[p])]
        \/ /\ waiting[p].path \in {path \in Paths : Ext[path] = "jpg"}
           /\ answer' = [answer EXCEPT ![p] = Service!Mixture]
        \/ \E kind \in Failures : answer' = [answer EXCEPT ![p] = Service!Failure(kind)]
    <3>1. CASE reply = Image([of |-> req[p].path, size |-> req[p].size])
      <4>1. reply = Service!Image(waiting[p])
        BY <1>3, <3>1 DEF Image, Service!Image
      <4>2. QED
        BY <1>2, <4>1
    <3>2. ASSUME NEW kind \in Failures, reply = Failure(kind)
          PROVE  answer' = [answer EXCEPT ![p] = Service!Failure(kind)]
      BY <1>2, <3>2 DEF Failure, Service!Failure, NoPath
    <3>3. CASE reply = Mixture /\ Ext[req[p].path] = "jpg"
      <4>1. reply = Service!Mixture
        BY <3>3 DEF Mixture, Service!Mixture, NoPath
      <4>2. waiting[p].path \in {path \in Paths : Ext[path] = "jpg"}
        BY <1>3, <1>7, <3>3 DEF Asked
      <4>3. QED
        BY <1>2, <4>1, <4>2
    <3>4. QED
      BY <1>7, <3>1, <3>2, <3>3
  <2>4. Service!Answer(p)
    BY <2>1, <2>2, <2>3 DEF waiting, Service!Answer
  <2>5. QED
    BY <2>4 DEF Service!Next
<1>8. QED
  BY <1>2, <1>4, <1>5, <1>6, <1>7 DEF Promised

LEMMA ServiceNext ==
  ASSUME IdsDiffer, IInv, [Next]_vars
  PROVE  [Service!Next]_(Service!vars)
<1>1. CASE UNCHANGED <<req, answer>>
  BY <1>1 DEF Service!vars
<1>2. CASE Restart
  <2>1. Service!Die
    BY <1>2 DEF Restart, Service!Die, NoRequest, NoPath, NoAnswer, Service!Nothing,
                Service!NoAnswer
  <2>2. QED
    BY <2>1 DEF Service!Next
<1>3. ASSUME NEW p \in Procs, Handle(p) \/ Arrive(p)
      PROVE  [Service!Next]_(Service!vars)
  BY <1>3, HandlerStep, HandledServes
<1>4. QED
  BY <1>1, <1>2, <1>3 DEF Next, Work, UncacheStep, Cache, vars

(* Whatever the interleaving of the requests, and whatever the caches, the *)
(* disk and the origin do, the handlers behave as the service that answers *)
(* every request once, with the picture asked for at the size asked for,   *)
(* with a mixture of two encodings of a JPEG thumbnail or with a failure.  *)
THEOREM ImplementsService == IdsDiffer => (Spec => ImplementsResizeService)
<1> SUFFICES ASSUME IdsDiffer
             PROVE  Spec => Service!Spec
  BY DEF ImplementsResizeService
<1>1. IInv /\ [Next]_vars => [Service!Next]_(Service!vars)
  BY ServiceNext
<1>2. Spec => []IInv
  BY Invariant
<1>3. QED
  BY <1>1, <1>2, ServiceInit, PTL DEF Spec, Service!Spec

-----------------------------------------------------------------------------
(***************************************************************************)
(* One request at a time, pictures of the two formats only, and a disk     *)
(* that fails at removing files only: then no original makes a request     *)
(* panic.                                                                  *)
(*                                                                         *)
(* The LRU cache has an original only whole, and in the encoding it is     *)
(* read back in (Readable), because StoreOriginal is the only one to add   *)
(* it; files may be cut short, by Set or by a restart, but what is decoded *)
(* from a file fails with an error that the handler looks at.  And what    *)
(* Contains has found is there when Get looks for it (FoundFor).           *)
(***************************************************************************)
Calm ==
  /\ IdsDiffer
  /\ \E p : Procs = {p}
  /\ ~DiskFails
  /\ \A path \in Paths : Ext[path] # "other"

Downloaded(path) == [of |-> path, size |-> Original, from |-> "origin"]

OriginalOf(path) == Encode(Downloaded(path), Ext[path])

Readable(k, bytes) ==
  \A path \in Paths : k = OriginalKey(path) => bytes = GP!Whole(OriginalOf(path))

ReadableEntry == {e \in provider!lru!Entry : Readable(e.key, e.value)}

AddsReadable(p) == call[p].at \in GP!AddingSteps => Readable(call[p].key, call[p].src)

FoundFor(p) ==
  /\ req[p].at = "originalContains" =>
       /\ call[p].op = "Contains" /\ call[p].key = OriginalKey(req[p].path)
       /\ GP!HasAnswered(p)
  /\ req[p].at = "originalGet" =>
       call[p].ext = Ext[req[p].path] /\ GP!FindsIt(p) /\ GP!Faultless(p)

NoThumbnails(p) ==
  ~config.cacheThumbnails =>
    req[p].at \notin {"thumbContains", "thumbGet"} /\ answer[p].kind # "panic"

ProviderInv ==
  GP!GetInv /\ GP!TransientInv /\ GP!PlacesOfGet /\ GP!OnlySetAdds /\ GP!ExactInv

CalmInv ==
  /\ ProviderInv /\ HandlersInv
  /\ evictList \in Seq(ReadableEntry)
  /\ \A p \in Procs : AddsReadable(p) /\ FoundFor(p) /\ NoThumbnails(p)

LEMMA ProviderInvNext ==
  ASSUME Calm, ProviderInv, [GP!Next]_(GP!vars)
  PROVE  ProviderInv'
<1>1. GP!TypeInv
  BY DEF ProviderInv, GP!TransientInv
<1>2. GP!GetsApart
  BY DEF Calm, GP!GetsApart
<1>3. GP!GetInv'
  BY ProviderNext DEF ProviderInv, Calm
<1>4. GP!TransientInv'
  BY ProviderAssumptions, GP!TransientNext DEF ProviderInv
<1>5. GP!PlacesOfGet' /\ GP!OnlySetAdds'
  BY <1>1, ProviderAssumptions, GP!PlacesNext, GP!AddingNext DEF ProviderInv
<1>6. GP!ExactInv'
  BY <1>2, ProviderAssumptions, GP!ExactNext DEF ProviderInv
<1>7. QED
  BY <1>3, <1>4, <1>5, <1>6 DEF ProviderInv

LEMMA CalmInit == Init => CalmInv
<1> SUFFICES ASSUME Init
             PROVE  CalmInv
  OBVIOUS
<1>1. GP!Init /\ IInv
  BY SameInit, InvInit DEF Init
<1>2. \A p \in Procs : call[p].at = "idle" /\ call[p].op = "None"
  BY DEF Init, provider!Init, provider!IdleCalls
<1>3. GP!TransientInv /\ GP!ExactInv
  BY <1>1, ProviderAssumptions, GP!TransientInit, GP!EmptyDiskIsExact DEF GP!Init
<1>4. GP!PlacesOfGet /\ GP!OnlySetAdds
  BY <1>2 DEF GP!PlacesOfGet, GP!OnlySetAdds, GP!AddingSteps
<1>5. evictList \in Seq(ReadableEntry)
  BY DEF Init, provider!Init, provider!lru!Init
<1>6. \A p \in Procs : AddsReadable(p) /\ FoundFor(p) /\ NoThumbnails(p)
  BY <1>2 DEF Init, AddsReadable, FoundFor, NoThumbnails, NoRequest, NoAnswer, GP!AddingSteps
<1>7. QED
  BY <1>1, <1>3, <1>4, <1>5, <1>6 DEF CalmInv, ProviderInv, IInv

-----------------------------------------------------------------------------
(* A step of the provider.                                                 *)
LEMMA ReadableDecodes ==
  ASSUME Calm, CalmInv, NEW p \in Procs, NEW path \in Paths, call[p].at = "GetHit",
         call[p].key = OriginalKey(path), call[p].ext = Ext[path], call[p].key \in items
  PROVE  ~GP!DecodeFails(GP!LruDecoder(call[p].ext), GP!lru!Element(call[p].key).value)
<1> DEFINE v == OriginalOf(path)
<1>1. v \in Encoding /\ v.format = Ext[path] /\ Ext[path] \in {"png", "jpg"}
  BY PathsAssumption DEF Calm, OriginalOf, Downloaded, Encode, Encoding, Sources
<1>2. GP!LruDecoder(call[p].ext) = v.format
  BY <1>1 DEF GP!LruDecoder
<1>3. GP!lru!Element(call[p].key) \in ReadableEntry /\ GP!lru!Element(call[p].key).key = call[p].key
  BY ProviderAssumptions, GP!WithoutIn
     DEF CalmInv, ProviderInv, GP!TransientInv, GP!TypeInv
<1>4. GP!lru!Element(call[p].key).value = GP!Whole(v)
  BY <1>3 DEF ReadableEntry, Readable
<1>5. v \in GP!Decodable(v.format, GP!Whole(v))
  BY <1>1 DEF GP!Decodable
<1>6. QED
  BY <1>2, <1>4, <1>5 DEF GP!DecodeFails

LEMMA CacheIsCalm ==
  ASSUME Calm, CalmInv, NEW p \in Procs, Cache(p)
  PROVE  /\ evictList' \in Seq(ReadableEntry)
         /\ AddsReadable(p)' /\ FoundFor(p)' /\ NoThumbnails(p)'
<1>0. /\ GP!Step(p) /\ UNCHANGED <<config, req, answer>> /\ GP!TypeInv /\ GP!TransientInv
      /\ GP!PlacesOfGet /\ GP!MemoryIsExact /\ evictList \in Seq(ReadableEntry)
      /\ AddsReadable(p) /\ FoundFor(p) /\ NoThumbnails(p) /\ Expects(req[p], call[p])
  BY SameStep DEF Cache, CalmInv, ProviderInv, GP!TransientInv, GP!ExactInv, HandlersInv
<1>1. call[p] \in GP!Call /\ req[p] \in Request
  BY <1>0 DEF GP!TypeInv, CalmInv, HandlersInv
<1>2. GP!Alone(p)
  BY DEF Calm, GP!Alone
<1>3. call'[p].op = call[p].op /\ call'[p].key = call[p].key /\ call'[p].ext = call[p].ext
  BY <1>0, ProviderAssumptions, GP!StepStaysInCall, GP!StepOnResult DEF GP!StaysInCall
<1>4. evictList' \in Seq(ReadableEntry)
  <2>1. ASSUME call[p].at = "SetAdd"
        PROVE  [key |-> call[p].key, value |-> call[p].src] \in ReadableEntry
    <3>1. Readable(call[p].key, call[p].src)
      BY <1>0, <2>1 DEF AddsReadable, GP!AddingSteps
    <3>2. call[p].key \in CacheKeys /\ call[p].src \in provider!Bytes
      BY <1>1 DEF GP!Call, GP!AtMostOneValue, GP!Bytes, provider!Bytes
    <3>3. QED
      BY <3>1, <3>2 DEF ReadableEntry, provider!lru!Entry
  <2>2. QED
    BY <1>0, <2>1, ProviderAssumptions, GP!StepKeepsEntries
<1>5. AddsReadable(p)'
  <2>1. call'[p].at \in GP!AddingSteps =>
          call[p].at \in GP!AddingSteps /\ call'[p].src = call[p].src
    BY <1>0, ProviderAssumptions, GP!StepOnOwn DEF GP!AddingSteps
  <2>2. QED
    BY <1>0, <1>3, <2>1 DEF AddsReadable
<1>6. FoundFor(p)'
  <2>1. CASE req[p].at = "originalContains"
    <3>1. GP!HasAnswered(p)'
      BY <1>0, <1>2, <2>1, ProviderAssumptions, GP!ContainsTellsTruth DEF FoundFor
    <3>2. QED
      BY <1>0, <1>3, <2>1, <3>1 DEF FoundFor
  <2>2. CASE req[p].at = "originalGet"
    <3>1. /\ call[p].op = "Get" /\ call[p].key = OriginalKey(req[p].path)
          /\ call[p].ext = Ext[req[p].path] /\ req[p].path \in Paths
          /\ GP!FindsIt(p) /\ GP!Faultless(p)
      BY <1>0, <2>2 DEF FoundFor, Expects
    <3>2. call[p].at = "GetHit" =>
            ~GP!DecodeFails(GP!LruDecoder(call[p].ext), GP!lru!Element(call[p].key).value)
      BY <3>1, ReadableDecodes DEF GP!FindsIt
    <3>3. call[p].ext # "other"
      BY <3>1 DEF Calm
    <3>4. GP!FindsIt(p)' /\ GP!Faultless(p)'
      BY <1>0, <1>2, <3>1, <3>2, <3>3, ProviderAssumptions, GP!LoneGetIsFaultless
    <3>5. QED
      BY <1>0, <1>3, <2>2, <3>1, <3>4 DEF FoundFor
  <2>3. CASE req[p].at \notin {"originalContains", "originalGet"}
    BY <1>0, <2>3 DEF FoundFor
  <2>4. QED
    BY <2>1, <2>2, <2>3
<1>7. QED
  BY <1>0, <1>4, <1>5, <1>6 DEF NoThumbnails

-----------------------------------------------------------------------------
(* A step of a handler: it leaves the stores alone, what it gives to Set   *)
(* is readable, and it calls Get only when Contains said true.             *)
CallsCalmly(p) ==
  \/ UNCHANGED cacheVars
  \/ \E operation, step, k, ext, src :
       /\ GP!Begin(p, operation, step, k, ext, src)
       /\ step \in GP!AddingSteps => Readable(k, src)

HandledCalmly(p) == CallsCalmly(p) /\ FoundFor(p)' /\ NoThumbnails(p)'

Looking == {"originalContains", "originalGet", "thumbContains", "thumbGet"}

LEMMA Quietly ==
  ASSUME CalmInv, NEW p \in Procs, CallsCalmly(p), UNCHANGED config, req'[p].at \notin Looking,
         \/ answer'[p] = answer[p]
         \/ answer'[p].kind # "panic"
         \/ config.cacheThumbnails
  PROVE  HandledCalmly(p)
<1>1. NoThumbnails(p)
  BY DEF CalmInv
<1>2. QED
  BY <1>1 DEF HandledCalmly, FoundFor, NoThumbnails, Looking

LEMMA CalmTypes ==
  ASSUME CalmInv, NEW p \in Procs
  PROVE  /\ req \in [Procs -> Request] /\ answer \in [Procs -> Reply]
         /\ call \in [Procs -> GP!Call]
         /\ GP!GetInv /\ HandlersInv
  BY CallType DEF CalmInv, ProviderInv, HandlersInv

LEMMA CallingCalmly ==
  ASSUME NEW p, NEW k
  PROVE  /\ provider!BeginContains(p, k) => CallsCalmly(p)
         /\ provider!BeginDelete(p, k) => CallsCalmly(p)
         /\ provider!BeginDeleteAll(p) => CallsCalmly(p)
         /\ \A ext : provider!BeginGet(p, k, ext) => CallsCalmly(p)
         /\ \A src : Readable(k, src) /\ provider!BeginSet(p, k, src) => CallsCalmly(p)
<1>1. /\ provider!BeginContains(p, k) => CallsCalmly(p)
      /\ provider!BeginDelete(p, k) => CallsCalmly(p)
      /\ provider!BeginDeleteAll(p) => CallsCalmly(p)
  BY SameBegin
     DEF GP!BeginContains, GP!BeginDelete, GP!BeginDeleteAll, CallsCalmly, GP!AddingSteps
<1>2. ASSUME NEW ext, provider!BeginGet(p, k, ext)
      PROVE  CallsCalmly(p)
  <2>1. GP!BeginGet(p, k, ext)
    BY <1>2, SameBegin
  <2>2. QED
    BY <2>1 DEF GP!BeginGet, CallsCalmly, GP!AddingSteps
<1>3. ASSUME NEW src, Readable(k, src), provider!BeginSet(p, k, src)
      PROVE  CallsCalmly(p)
  <2>1. GP!BeginSet(p, k, src)
    BY <1>3, SameBegin
  <2>2. QED
    BY <1>3, <2>1 DEF GP!BeginSet, CallsCalmly
<1>4. QED
  BY <1>1, <1>2, <1>3

LEMMA AnsweringCalmly ==
  ASSUME CalmInv, NEW p \in Procs, UNCHANGED cacheVars, UNCHANGED config, NEW reply,
         AnswerWith(p, reply), reply.kind # "panic" \/ config.cacheThumbnails
  PROVE  HandledCalmly(p)
<1>1. req'[p].at = "idle" /\ answer'[p] = reply
  BY CalmTypes DEF AnswerWith, NoRequest
<1>2. QED
  BY <1>1, Quietly DEF Looking, CallsCalmly

LEMMA FailingCalmly ==
  ASSUME CalmInv, NEW p \in Procs, UNCHANGED config, NEW kind, kind # "panic", Fail(p, kind)
  PROVE  HandledCalmly(p)
  BY AnsweringCalmly DEF Fail, Failure

LEMMA GoingCalmly ==
  ASSUME CalmInv, NEW p \in Procs, UNCHANGED <<config, answer>>, CallsCalmly(p),
         NEW s, s.at \notin Looking, req' = [req EXCEPT ![p] = s]
  PROVE  HandledCalmly(p)
  BY CalmTypes, Quietly

LEMMA StoringCalmly ==
  ASSUME Calm, CalmInv, NEW p \in Procs, UNCHANGED config, Asked(req[p]), NEW picture,
         AtHand(picture, req[p]), ~req[p].hit, StoreOriginal(p, picture)
  PROVE  HandledCalmly(p)
<1>1. Encode(picture, Ext[req[p].path]) = OriginalOf(req[p].path)
  BY DEF OriginalOf, Downloaded, Encode, AtHand
<1>2. Readable(OriginalKey(req[p].path), provider!Whole(OriginalOf(req[p].path)))
  BY SameBegin DEF Readable, Calm, IdsDiffer, OriginalKey, Asked
<1>3. CallsCalmly(p)
  BY <1>1, <1>2, CallingCalmly DEF StoreOriginal
<1>4. /\ req' = [req EXCEPT ![p] = [req[p] EXCEPT !.at = "originalSet", !.picture = picture]]
      /\ UNCHANGED answer
  BY DEF StoreOriginal
<1>5. [req[p] EXCEPT !.at = "originalSet", !.picture = picture].at = "originalSet"
  BY CalmTypes DEF Request
<1>6. QED
  BY <1>3, <1>4, <1>5, GoingCalmly DEF Looking

LEMMA RespondingCalmly ==
  ASSUME CalmInv, NEW p \in Procs, UNCHANGED config, NEW picture, Respond(p, picture)
  PROVE  HandledCalmly(p)
  BY AnsweringCalmly DEF Respond, Failure, Image

LEMMA ResizingCalmly ==
  ASSUME Calm, CalmInv, NEW p \in Procs, UNCHANGED config, Asked(req[p]), NEW picture,
         AtHand(picture, req[p]), Resize(p, picture)
  PROVE  HandledCalmly(p)
<1>1. CASE CachesThumbnails
  <2> DEFINE k == ThumbnailKey(req[p].path, req[p].size)
             v == Encode([picture EXCEPT !.size = req[p].size], "jpg")
             s == [req[p] EXCEPT !.at = "thumbSet", !.picture = picture]
  <2>1. Readable(k, provider!Whole(v))
    BY NamesAssumption DEF Readable, ThumbnailKey, OriginalKey, Asked
  <2>2. /\ provider!BeginSet(p, k, provider!Whole(v))
        /\ req' = [req EXCEPT ![p] = s] /\ UNCHANGED answer
    BY <1>1 DEF Resize
  <2>3. s.at = "thumbSet"
    BY CalmTypes DEF Request
  <2>4. CallsCalmly(p)
    BY <2>1, <2>2, CallingCalmly
  <2>5. QED
    BY <2>2, <2>3, <2>4, GoingCalmly DEF Looking
<1>2. CASE ~req[p].hit /\ StoreOriginal(p, picture)
  BY <1>2, StoringCalmly
<1>3. CASE Respond(p, picture)
  BY <1>3, RespondingCalmly
<1>4. QED
  BY <1>1, <1>2, <1>3 DEF Resize

-----------------------------------------------------------------------------
(* Looking for a thumbnail happens only where thumbnails are on.           *)
LEMMA ThumbnailCalmly ==
  ASSUME NEW p \in Procs, UNCHANGED config, config.cacheThumbnails, CallsCalmly(p),
         req'[p].at = "thumbContains" \/ req'[p].at = "thumbGet"
  PROVE  HandledCalmly(p)
<1>1. FoundFor(p)'
  BY DEF FoundFor
<1>2. NoThumbnails(p)'
  BY DEF NoThumbnails
<1>3. QED
  BY <1>1, <1>2 DEF HandledCalmly

LEMMA LookingCalmly ==
  ASSUME CalmInv, NEW p \in Procs, UNCHANGED config, NEW r \in Request,
         LookForOriginal(p, r),
         answer'[p] = answer[p] \/ answer'[p].kind # "panic"
  PROVE  HandledCalmly(p)
<1>1. CASE CachesOriginals
  <2>1. /\ provider!BeginContains(p, OriginalKey(r.path))
        /\ req' = [req EXCEPT ![p] = [r EXCEPT !.at = "originalContains"]]
    BY <1>1 DEF LookForOriginal
  <2>2. req'[p].at = "originalContains" /\ req'[p].path = r.path
    BY <2>1, CalmTypes DEF Request
  <2>3. CallsCalmly(p)
    BY <2>1, CallingCalmly
  <2>4. GP!BeginContains(p, OriginalKey(r.path))
    BY <2>1, SameBegin
  <2>5. /\ call'[p].op = "Contains" /\ call'[p].key = OriginalKey(r.path)
        /\ call'[p].at = "ContainsLru"
    BY <2>4, CalmTypes DEF GP!BeginContains, GP!Begin
  <2>6. FoundFor(p)'
    BY <2>2, <2>5 DEF FoundFor, GP!HasAnswered
  <2>7. NoThumbnails(p)'
    BY <2>2 DEF NoThumbnails, CalmInv
  <2>8. QED
    BY <2>3, <2>6, <2>7 DEF HandledCalmly
<1>2. CASE ~CachesOriginals
  <2>1. UNCHANGED cacheVars /\ req' = [req EXCEPT ![p] = [r EXCEPT !.at = "fetch"]]
    BY <1>2 DEF LookForOriginal
  <2>2. req'[p].at = "fetch"
    BY <2>1, CalmTypes DEF Request
  <2>3. QED
    BY <2>1, <2>2, Quietly DEF Looking, CallsCalmly
<1>3. QED
  BY <1>1, <1>2

LEMMA LookedUpCalmly ==
  ASSUME CalmInv, NEW p \in Procs, UNCHANGED config,
         ThumbnailLookedUp(p) \/ ThumbnailRead(p) \/ OriginalLookedUp(p)
  PROVE  HandledCalmly(p)
<1>0. req[p] \in Request /\ NoThumbnails(p) /\ FoundFor(p)
  BY CalmTypes DEF CalmInv
<1>1. CASE ThumbnailLookedUp(p)
  <2>1. config.cacheThumbnails
    BY <1>0, <1>1 DEF ThumbnailLookedUp, At, NoThumbnails
  <2>2. CASE LookForOriginal(p, req[p])
    BY <1>0, <1>1, <2>2, LookingCalmly DEF ThumbnailLookedUp
  <2>3. CASE /\ provider!BeginGet(p, ThumbnailKey(req[p].path, req[p].size), Ext[req[p].path])
             /\ req' = [req EXCEPT ![p].at = "thumbGet"]
    <3>1. req'[p].at = "thumbGet"
      BY <2>3, CalmTypes DEF Request
    <3>2. CallsCalmly(p)
      BY <2>3, CallingCalmly
    <3>3. QED
      BY <2>1, <3>1, <3>2, ThumbnailCalmly
  <2>4. QED
    BY <1>1, <2>2, <2>3 DEF ThumbnailLookedUp
<1>2. CASE ThumbnailRead(p)
  <2>1. config.cacheThumbnails
    BY <1>0, <1>2 DEF ThumbnailRead, At, NoThumbnails
  <2>2. \E reply : AnswerWith(p, reply) /\ UNCHANGED cacheVars
    BY <1>2 DEF ThumbnailRead, Fail
  <2>3. QED
    BY <2>1, <2>2, AnsweringCalmly
<1>3. CASE OriginalLookedUp(p)
  <2>1. req[p].at = "originalContains" /\ call[p].at = "idle" /\ UNCHANGED answer
    BY <1>3 DEF OriginalLookedUp, At, Returned
  <2>2. CASE UNCHANGED cacheVars /\ req' = [req EXCEPT ![p].at = "fetch"]
    <3>1. req'[p].at = "fetch"
      BY <2>2, CalmTypes DEF Request
    <3>2. QED
      BY <2>1, <2>2, <3>1, Quietly DEF Looking, CallsCalmly
  <2>3. CASE /\ Result(p) = "true"
             /\ provider!BeginGet(p, OriginalKey(req[p].path), Ext[req[p].path])
             /\ req' = [req EXCEPT ![p].at = "originalGet", ![p].hit = TRUE]
    <3> DEFINE k == OriginalKey(req[p].path)
    <3>1. call[p].key = k /\ GP!InStore(k)
      BY <1>0, <2>1, <2>3 DEF FoundFor, GP!HasAnswered, Result
    <3>2. req'[p].at = "originalGet" /\ req'[p].path = req[p].path
      BY <2>3, CalmTypes DEF Request
    <3>3. GP!BeginGet(p, k, Ext[req[p].path])
      BY <2>3, SameBegin
    <3>4. /\ call'[p].at = "GetLookup" /\ call'[p].key = k
          /\ call'[p].ext = Ext[req[p].path] /\ call'[p].ret = "none"
          /\ UNCHANGED <<items, files>>
      BY <3>3, CalmTypes DEF GP!BeginGet, GP!Begin, GP!lruVars, GP!diskVars
    <3>5. FoundFor(p)'
      BY <3>1, <3>2, <3>4 DEF FoundFor, GP!FindsIt, GP!Faultless, GP!InStore
    <3>6. NoThumbnails(p)'
      BY <1>0, <2>1, <3>2 DEF NoThumbnails
    <3>7. CallsCalmly(p)
      BY <2>3, CallingCalmly
    <3>8. QED
      BY <3>5, <3>6, <3>7 DEF HandledCalmly
  <2>4. QED
    BY <1>3, <2>2, <2>3 DEF OriginalLookedUp
<1>4. QED
  BY <1>1, <1>2, <1>3

LEMMA FetchingCalmly ==
  ASSUME Calm, CalmInv, NEW p \in Procs, UNCHANGED config,
         \/ Download(p) \/ DownloadUndecodable(p)
         \/ OriginalUndone(p) \/ ThumbnailUndone(p)
  PROVE  HandledCalmly(p)
<1>1. req[p].at \in {"fetch", "undoOriginal", "undoThumb"}
  BY DEF Download, DownloadUndecodable, OriginalUndone, ThumbnailUndone, At
<1>2. Asked(req[p]) /\ req[p] \in Request
  BY <1>1, CalmTypes, AtWork
<1>3. CASE Resize(p, Downloaded(req[p].path))
  <2>1. AtHand(Downloaded(req[p].path), req[p])
    BY <1>2 DEF AtHand, Downloaded, Picture, Sources, Asked
  <2>2. QED
    BY <1>2, <1>3, <2>1, ResizingCalmly
<1>4. CASE \E kind \in {"bad request", "not found"} : Fail(p, kind)
  BY <1>4, FailingCalmly
<1>5. ASSUME NEW k, provider!BeginDelete(p, k), NEW place \in {"undoOriginal", "undoThumb"},
             Goto(p, place)
      PROVE  HandledCalmly(p)
  <2> DEFINE s == [req[p] EXCEPT !.at = place]
  <2>1. s.at = place /\ req' = [req EXCEPT ![p] = s] /\ UNCHANGED answer
    BY <1>2, <1>5 DEF Request, Goto
  <2>2. CallsCalmly(p)
    BY <1>5, CallingCalmly
  <2> HIDE DEF s
  <2>3. QED
    BY <1>5, <2>1, <2>2, GoingCalmly DEF Looking
<1>6. CASE Download(p)
  BY <1>2, <1>3, <1>4, <1>6 DEF Download, Calm, Asked, Downloaded
<1>7. CASE DownloadUndecodable(p)
  BY <1>4, <1>5, <1>7 DEF DownloadUndecodable
<1>8. CASE OriginalUndone(p) \/ ThumbnailUndone(p)
  BY <1>4, <1>5, <1>8 DEF OriginalUndone, ThumbnailUndone
<1>9. QED
  BY <1>6, <1>7, <1>8

LEMMA ReadCalmly ==
  ASSUME Calm, CalmInv, NEW p \in Procs, UNCHANGED config, OriginalRead(p)
  PROVE  HandledCalmly(p)
<1>1. req[p].at = "originalGet"
  BY DEF OriginalRead, At
<1>2. /\ Asked(req[p]) /\ GP!Faultless(p) /\ req[p].hit
      /\ call[p].op = "Get" /\ call[p].key = <<Id[req[p].path], Original>>
  BY <1>1, CalmTypes, AtWork DEF CalmInv, FoundFor, Expects, OriginalKey
<1>3. CASE Result(p) = "image" /\ Resize(p, Reread(call[p].img))
  <2>1. AtHand(Reread(call[p].img), req[p])
    BY <1>2, <1>3, CalmTypes, RereadAtHand DEF Asked, Result, Calm
  <2>2. QED
    BY <1>2, <1>3, <2>1, ResizingCalmly
<1>4. CASE Fail(p, "bad request")
  BY <1>4, FailingCalmly
<1>5. QED
  BY <1>2, <1>3, <1>4 DEF OriginalRead, GP!Faultless, Result

LEMMA StoredCalmly ==
  ASSUME Calm, CalmInv, NEW p \in Procs, UNCHANGED config,
         ThumbnailStored(p) \/ OriginalStored(p)
  PROVE  HandledCalmly(p)
<1>1. req[p].at \in {"thumbSet", "originalSet"}
  BY DEF ThumbnailStored, OriginalStored, At
<1>2. Asked(req[p]) /\ AtHand(req[p].picture, req[p])
  BY <1>1, CalmTypes, AtWork DEF Expects
<1>3. CASE ~req[p].hit /\ StoreOriginal(p, req[p].picture)
  BY <1>2, <1>3, StoringCalmly
<1>4. CASE Respond(p, req[p].picture)
  BY <1>4, RespondingCalmly
<1>5. CASE Fail(p, "bad request")
  BY <1>5, FailingCalmly
<1>6. QED
  BY <1>3, <1>4, <1>5 DEF ThumbnailStored, OriginalStored

LEMMA PurgingCalmly ==
  ASSUME CalmInv, NEW p \in Procs, UNCHANGED config, StartPurge(p) \/ Purged(p)
  PROVE  HandledCalmly(p)
<1>1. CASE StartPurge(p)
  <2> DEFINE s == [req[p] EXCEPT !.at = "purge"]
  <2>1. s.at = "purge" /\ req' = [req EXCEPT ![p] = s] /\ UNCHANGED answer
    BY <1>1, CalmTypes DEF Request, StartPurge, Goto
  <2>2. CallsCalmly(p)
    BY <1>1, CallingCalmly DEF StartPurge
  <2> HIDE DEF s
  <2>3. QED
    BY <2>1, <2>2, GoingCalmly DEF Looking
<1>2. CASE Purged(p)
  <2>1. NoRequest.at = "idle"
    BY DEF NoRequest
  <2>2. QED
    BY <1>2, <2>1, GoingCalmly DEF Purged, Looking, CallsCalmly
<1>3. QED
  BY <1>1, <1>2

LEMMA StartingCalmly ==
  ASSUME CalmInv, NEW p \in Procs, UNCHANGED config, StartResizing(p)
  PROVE  HandledCalmly(p)
<1>1. CASE AnswerWith(p, Failure("bad request")) /\ UNCHANGED cacheVars
  BY <1>1, AnsweringCalmly DEF Failure
<1>2. ASSUME NEW path \in Paths, NEW size \in Sizes, answer' = [answer EXCEPT ![p] = NoAnswer],
             LookForOriginal(p, [NoRequest EXCEPT !.path = path, !.size = size])
      PROVE  HandledCalmly(p)
  <2>1. [NoRequest EXCEPT !.path = path, !.size = size] \in Request
    BY RequestTypes DEF Request
  <2>2. answer'[p].kind # "panic"
    BY <1>2, CalmTypes DEF NoAnswer
  <2>3. QED
    BY <1>2, <2>1, <2>2, LookingCalmly
<1>3. ASSUME NEW path \in Paths, NEW size \in Sizes, CachesThumbnails,
             provider!BeginContains(p, ThumbnailKey(path, size)),
             req' = [req EXCEPT ![p] =
                       [[NoRequest EXCEPT !.path = path, !.size = size]
                          EXCEPT !.at = "thumbContains"]]
      PROVE  HandledCalmly(p)
  <2>1. req'[p].at = "thumbContains"
    BY <1>3, CalmTypes DEF NoRequest
  <2>2. CallsCalmly(p) /\ config.cacheThumbnails
    BY <1>3, CallingCalmly DEF CachesThumbnails
  <2>3. QED
    BY <2>1, <2>2, ThumbnailCalmly
<1>4. QED
  BY <1>1, <1>2, <1>3 DEF StartResizing

LEMMA HandlerIsCalm ==
  ASSUME Calm, CalmInv, NEW p \in Procs, Handle(p) \/ Arrive(p)
  PROVE  HandledCalmly(p)
<1>1. CASE Arrive(p)
  BY <1>1, StartingCalmly, PurgingCalmly DEF Arrive
<1>2. CASE Handle(p)
  BY <1>2, LookedUpCalmly, FetchingCalmly, ReadCalmly, StoredCalmly, PurgingCalmly DEF Handle
<1>3. QED
  BY <1>1, <1>2

-----------------------------------------------------------------------------
LEMMA CalmNext ==
  ASSUME Calm, CalmInv, [Next]_vars
  PROVE  CalmInv'
<1>0. IInv /\ IdsDiffer /\ ProviderInv
  BY DEF CalmInv, ProviderInv, IInv, Calm
<1>1. IInv'
  BY <1>0, InvNext
<1>2. ASSUME [GP!Next]_(GP!vars), evictList' \in Seq(ReadableEntry),
             \A p \in Procs : (AddsReadable(p) /\ FoundFor(p) /\ NoThumbnails(p))'
      PROVE  CalmInv'
  BY <1>0, <1>1, <1>2, ProviderInvNext DEF CalmInv, IInv
<1>3. CASE UNCHANGED vars
  <2>1. [GP!Next]_(GP!vars) /\ evictList' = evictList
    BY <1>3 DEF vars, cacheVars, GP!vars, GP!diskVars, GP!lruVars
  <2>2. ASSUME NEW p \in Procs
        PROVE  (AddsReadable(p) /\ FoundFor(p) /\ NoThumbnails(p))'
    BY <1>3 DEF CalmInv, vars, cacheVars, AddsReadable, FoundFor, NoThumbnails, GP!HasAnswered,
                GP!FindsIt, GP!Faultless, GP!InStore
  <2>3. QED
    BY <1>2, <2>1, <2>2 DEF CalmInv
<1>4. CASE Restart
  <2>1. GP!Next
    BY <1>4, SameRestart DEF Restart, GP!Next
  <2>2. evictList' = << >>
    BY <1>4 DEF Restart, provider!Restart, provider!lru!Purge
  <2>3. \A p \in Procs : call'[p].at = "idle"
    BY <1>4 DEF Restart, provider!Restart, provider!IdleCalls
  <2>4. ASSUME NEW p \in Procs
        PROVE  (AddsReadable(p) /\ FoundFor(p) /\ NoThumbnails(p))'
    BY <1>4, <2>3 DEF Restart, AddsReadable, FoundFor, NoThumbnails, NoRequest, NoAnswer,
                      GP!AddingSteps
  <2>5. QED
    BY <1>2, <2>1, <2>2, <2>4
<1>5. ~UncacheStep
  BY <1>0, SameRestart
     DEF UncacheStep, GP!UncacheStep, GP!UncacheLater, ProviderInv, GP!ExactInv,
         GP!NothingUncaching
<1>6. ASSUME NEW p \in Procs, Cache(p)
      PROVE  CalmInv'
  <2>1. GP!Next
    BY <1>6, SameStep DEF Cache, GP!Next, GP!Work
  <2>2. QED
    BY <1>2, <1>6, <2>1, CacheIsCalm DEF Calm
<1>7. ASSUME NEW p \in Procs, Handle(p) \/ Arrive(p)
      PROVE  CalmInv'
  <2>1. Handled(p) /\ HandledCalmly(p)
    BY <1>0, <1>7, HandlerStep, HandlerIsCalm
  <2>2. [GP!Next]_(GP!vars)
    BY <2>1 DEF Handled, GP!Next, cacheVars, GP!vars, GP!diskVars, GP!lruVars
  <2>3. evictList' = evictList /\ AddsReadable(p)'
    <3>1. AddsReadable(p) /\ call \in [Procs -> GP!Call] /\ evictList' = evictList
      BY <2>1, CalmTypes
         DEF CalmInv, HandledCalmly, CallsCalmly, GP!Begin, GP!lruVars, cacheVars
    <3>2. CASE UNCHANGED cacheVars
      BY <3>1, <3>2 DEF AddsReadable, cacheVars
    <3>3. ASSUME NEW operation, NEW step, NEW k, NEW ext, NEW src,
                 GP!Begin(p, operation, step, k, ext, src),
                 step \in GP!AddingSteps => Readable(k, src)
          PROVE  AddsReadable(p)'
      BY <3>1, <3>3 DEF GP!Begin, AddsReadable
    <3>4. QED
      BY <2>1, <3>1, <3>2, <3>3 DEF HandledCalmly, CallsCalmly
  <2>4. (AddsReadable(p) /\ FoundFor(p) /\ NoThumbnails(p))'
    BY <2>1, <2>3 DEF HandledCalmly
  <2>5. QED
    BY <1>2, <2>2, <2>3, <2>4 DEF Calm, CalmInv
<1>8. QED
  BY <1>3, <1>4, <1>5, <1>6, <1>7 DEF Next, Work

(* With thumbnails off, one request at a time and nothing failing on disk  *)
(* but the removal of files, no picture of the two formats is answered by  *)
(* a panic, whatever purges, evictions and restarts have left in the       *)
(* caches, and whatever the origin does.                                   *)
THEOREM NoOriginalPanics == Calm => (Spec => []OriginalsNeverPanic)
<1> SUFFICES ASSUME Calm
             PROVE  Spec => []OriginalsNeverPanic
  OBVIOUS
<1>1. CalmInv /\ [Next]_vars => CalmInv'
  BY CalmNext
<1>2. CalmInv => OriginalsNeverPanic
  BY DEF CalmInv, NoThumbnails, OriginalsNeverPanic, SupportsPngAndJpg
<1>3. QED
  BY <1>1, <1>2, CalmInit, PTL DEF Spec
=============================================================================
