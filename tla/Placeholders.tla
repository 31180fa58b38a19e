---------------------------- MODULE Placeholders ----------------------------
(***************************************************************************)
(* The sizes of concurrent requests.  A size written in the URL is a value *)
(* of the request's own; a placeholder is found in the configuration, and  *)
(* the request works on the configuration's Size itself: what the aspect   *)
(* ratio of its picture makes of it is written back there, one field after *)
(* the other, for every later request and under the eyes of those running. *)
(***************************************************************************)
EXTENDS Sizer

scaling == INSTANCE Scaling

CONSTANTS
  Procs,
  Names,        (* of placeholders                                        *)
  Literals,     (* the sizes written in URLs                              *)
  Images,       (* the dimensions of the pictures                         *)
  Literal       (* the name of the size of a request without placeholder  *)

Size == [width : Nat, height : Nat]

ASSUME SizesAssumption ==
  /\ Literals \subseteq Size
  /\ Images \subseteq [width : Nat \ {0}, height : Nat \ {0}]
  /\ Literal \notin Names

VARIABLES
  serving,  (* whether main has loaded the configuration and listens      *)
  loaded,   (* what it loaded: the placeholders' sizes, and the limits    *)
  config,   (* the Size of each placeholder, shared by all requests       *)
  own,      (* the Size of each process's request when it is a literal    *)
  req       (* what each process is doing                                 *)

vars == <<serving, loaded, config, own, req>>

Places == {"idle", "validate", "checkWidth", "checkHeight", "measure", "measureHeight",
           "ratio", "scale", "writeWidth", "writeHeight", "read", "resize", "done", "panic"}
NoImage == [width |-> 1, height |-> 1]
Zero == [width |-> 0, height |-> 0]
NoSize == [width |-> -1, height |-> -1]  (* a nil pointer *)

(* The sizes that the placeholders of a configuration have.                *)
IsSizes(sizes) ==
  DOMAIN sizes \subseteq Names /\ sizes \in [DOMAIN sizes -> Size \cup {NoSize}]

TypeOK ==
  /\ serving \in BOOLEAN
  /\ IsSizes(loaded.sizes) /\ loaded.limits \in Size /\ IsSizes(config)
  /\ own \in [Procs -> Size]
  /\ req \in [Procs -> [at : Places, name : Names \cup {Literal}, image : Images \cup {NoImage},
                        width : Nat, new : Size]]

Init ==
  /\ serving = FALSE
  /\ loaded = [sizes |-> << >>, limits |-> Zero] /\ config = << >>
  /\ own = [p \in Procs |-> Zero]
  /\ req = [p \in Procs |-> [at |-> "idle", name |-> Literal, image |-> NoImage,
                             width |-> 0, new |-> Zero]]

(* The service begins to serve; see Configuration for what it has loaded.  *)
Serve(sizes, limits) ==
  /\ ~serving /\ serving' = TRUE
  /\ loaded' = [sizes |-> sizes, limits |-> limits]
  /\ config' = sizes
  /\ UNCHANGED <<own, req>>

-----------------------------------------------------------------------------
(* The Size that p's pointer leads to, and a store to one of its fields.   *)
SizeOf(p) == IF req[p].name = Literal THEN own[p] ELSE config[req[p].name]

SetWidth(p, w) ==
  IF req[p].name = Literal
    THEN own' = [own EXCEPT ![p].width = w] /\ UNCHANGED config
    ELSE config' = [config EXCEPT ![req[p].name].width = w] /\ UNCHANGED own

SetHeight(p, h) ==
  IF req[p].name = Literal
    THEN own' = [own EXCEPT ![p].height = h] /\ UNCHANGED config
    ELSE config' = [config EXCEPT ![req[p].name].height = h] /\ UNCHANGED own

Goto(p, place) == req' = [req EXCEPT ![p].at = place]

-----------------------------------------------------------------------------
NewRequest(name) ==
  [at |-> "validate", name |-> name, image |-> NoImage, width |-> 0, new |-> Zero]

(* A size that neither names a placeholder nor parses is Zero.             *)
GetImageSize(p) ==
  /\ serving /\ req[p].at \in {"idle", "done", "panic"}
  /\ \/ \E name \in DOMAIN config :
          /\ req' = [req EXCEPT ![p] = NewRequest(name)]
          /\ own' = [own EXCEPT ![p] = Zero]
     \/ \E size \in Literals \cup {Zero} :
          /\ req' = [req EXCEPT ![p] = NewRequest(Literal)]
          /\ own' = [own EXCEPT ![p] = size]
  /\ UNCHANGED <<serving, loaded, config>>

(* What follows a test of one field of the size; the other field is read   *)
(* only after it, and the test decides whether at all.                     *)
Test(p, place, holds, next, otherwise) ==
  /\ req[p].at = place
  /\ Goto(p, IF holds THEN next ELSE otherwise)
  /\ UNCHANGED <<serving, loaded, config, own>>

(* CheckRequestNewSize: the height, the width, and the height once more.   *)
Validate(p) ==
  /\ SizeOf(p) # NoSize
  /\ Test(p, "validate", SizeOf(p).height < loaded.limits.height, "checkWidth", "idle")

CheckWidth(p) ==
  Test(p, "checkWidth", SizeOf(p).width < loaded.limits.width, "checkHeight", "idle")

(* A request that is valid goes on with its picture, once it has got it;   *)
(* it ends where it is refused, answered from the cache or given no        *)
(* picture.                                                                *)
CheckHeight(p) ==
  /\ req[p].at = "checkHeight"
  /\ \/ /\ SizeOf(p).height < loaded.limits.height
        /\ \E image \in Images :
             req' = [req EXCEPT ![p].at = "measure", ![p].image = image]
     \/ Goto(p, "idle")
  /\ UNCHANGED <<serving, loaded, config, own>>

(* The fields of a nil pointer.                                            *)
Panic(p) ==
  /\ req[p].at = "validate" /\ SizeOf(p) = NoSize
  /\ Goto(p, "panic")
  /\ UNCHANGED <<serving, loaded, config, own>>

Measure(p) == Test(p, "measure", SizeOf(p).width > 0, "measureHeight", "read")
MeasureHeight(p) == Test(p, "measureHeight", SizeOf(p).height > 0, "ratio", "read")

ReadWidth(p, place, next) ==
  /\ req[p].at = place
  /\ req' = [req EXCEPT ![p].at = next, ![p].width = SizeOf(p).width]
  /\ UNCHANGED <<serving, loaded, config, own>>

(* The width is read once more for the ratio, maybe another one by now.    *)
Ratio(p) == ReadWidth(p, "ratio", "scale")

(* Mutant of Scale: the image's width is given first.                      *)
ScaleSwapped(p) ==
  /\ req[p].at = "scale"
  /\ \E size \in calculateAspectRatio(req[p].width, SizeOf(p).height,
                                      req[p].image.width, req[p].image.height) :
       req' = [req EXCEPT ![p].at = "writeWidth", ![p].new = size]
  /\ UNCHANGED <<serving, loaded, config, own>>

(* The height is read, by then perhaps another request's, and the new size *)
(* is computed from the height and the width of the image, in this order.  *)
Scale(p) ==
  /\ req[p].at = "scale"
  /\ \E size \in calculateAspectRatio(req[p].width, SizeOf(p).height,
                                      req[p].image.height, req[p].image.width) :
       req' = [req EXCEPT ![p].at = "writeWidth", ![p].new = size]
  /\ UNCHANGED <<serving, loaded, config, own>>

WriteWidth(p) ==
  /\ req[p].at = "writeWidth"
  /\ SetWidth(p, req[p].new.width)
  /\ Goto(p, "writeHeight")
  /\ UNCHANGED <<serving, loaded>>

WriteHeight(p) ==
  /\ req[p].at = "writeHeight"
  /\ SetHeight(p, req[p].new.height)
  /\ Goto(p, "read")
  /\ UNCHANGED <<serving, loaded>>

(* The size is read a last time for resize.Resize, the height after the    *)
(* width, and a dimension in proportion takes the place of a zero.         *)
Read(p) == ReadWidth(p, "read", "resize")

Resize(p) ==
  /\ req[p].at = "resize"
  /\ \E size \in scaling!Dimensions(req[p].width, SizeOf(p).height,
                                    req[p].image.width, req[p].image.height) :
       req' = [req EXCEPT ![p].at = "done", ![p].new = size]
  /\ UNCHANGED <<serving, loaded, config, own>>

Request(p) ==
  \/ GetImageSize(p) \/ Validate(p) \/ CheckWidth(p) \/ CheckHeight(p) \/ Panic(p)
  \/ Measure(p) \/ MeasureHeight(p) \/ Ratio(p) \/ Scale(p) \/ WriteWidth(p) \/ WriteHeight(p)
  \/ Read(p) \/ Resize(p)

Next ==
  \/ \E names \in SUBSET Names : \E sizes \in [names -> Size \cup {NoSize}], limits \in Size :
       Serve(sizes, limits)
  \/ \E p \in Procs : Request(p)

Spec == Init /\ [][Next]_vars

-----------------------------------------------------------------------------
(***************************************************************************)
(* However many requests write to a placeholder at the same time, its      *)
(* height is the configured one or zero: only the width drifts.            *)
(***************************************************************************)
HeightFromConfiguration ==
  /\ DOMAIN config = DOMAIN loaded.sizes
  /\ \A name \in DOMAIN config : config[name].height \in {loaded.sizes[name].height, 0}

(***************************************************************************)
(* A picture resized for a size of the request's own keeps its aspect      *)
(* ratio.  Where both dimensions are given to resize.Resize, the width is  *)
(* less than two pixels too small: the caller swaps the dimensions of the  *)
(* picture, and so do the formulas it calls.  Where one of them is zero it *)
(* is rounded, at 0.3 of a pixel, whether the client asked for zero or the *)
(* truncation made it so: no dimension of the result is zero unless the    *)
(* proportions leave less than 0.3 of a pixel for it.                      *)
(***************************************************************************)
FitsBelow(size, image) ==
  /\ size.width * image.height <= size.height * image.width
  /\ (size.width + 2) * image.height > size.height * image.width

RoundedTo(size, image) ==
  \/ 10 * (size.width * image.height - size.height * image.width)
       \in -3 * image.height .. 7 * image.height
  \/ 10 * (size.height * image.width - size.width * image.height)
       \in -3 * image.width .. 7 * image.width

AspectRatioKept ==
  \A p \in Procs :
    req[p].at = "done" /\ req[p].name = Literal =>
      IF own[p].width > 0 /\ own[p].height > 0
        THEN FitsBelow(req[p].new, req[p].image)
        ELSE RoundedTo(req[p].new, req[p].image)

(***************************************************************************)
(* Placeholders have a "predefined size": the one of the configuration.    *)
(***************************************************************************)
PlaceholdersArePredefined == config = loaded.sizes
=============================================================================
