------------------------- MODULE PlaceholdersProofs -------------------------
(***************************************************************************)
(* Theorems about the configuration and about the sizes of concurrent      *)
(* requests, for any files, any number of requests and pictures of any     *)
(* dimensions.  Those of Spec are about requests for the sizes of any      *)
(* configuration; main's specification implements it.                      *)
(***************************************************************************)
EXTENDS Configuration, WellFoundedInduction, TLAPS

-----------------------------------------------------------------------------
(* Arithmetic: a truncated quotient, and what is computed from it.         *)

(***************************************************************************)
(* Truncation, exact or one less, is off by no more than the divisor.      *)
(***************************************************************************)
LEMMA Quotient ==
  ASSUME NEW n \in Nat, NEW d \in Nat \ {0}, NEW q \in Truncated(n, d)
  PROVE  q \in Nat /\ q * d <= n /\ n <= (q + 1) * d
<1> DEFINE r == n \div d
<1>1. r \in Nat /\ n % d \in Nat /\ n = r * d + (n % d) /\ n % d < d
  OBVIOUS
<1>2. r * d <= n /\ n <= (r + 1) * d
  <2>1. (r + 1) * d = r * d + d
    BY <1>1
  <2> QED
    BY <1>1, <2>1
<1>3. CASE q = r
  BY <1>1, <1>2, <1>3
<1>4. CASE n > 0 /\ n % d = 0 /\ q = r - 1
  <2>1. r # 0
    BY <1>1, <1>4
  <2>2. q \in Nat /\ q + 1 = r /\ q * d = r * d - d
    BY <1>1, <1>4, <2>1
  <2> QED
    BY <1>1, <1>4, <2>2
<1> QED
  BY <1>3, <1>4 DEF Truncated

Image == [width : Nat \ {0}, height : Nat \ {0}]
Proportional(size, image) == size.width > 0 /\ size.height > 0 => FitsBelow(size, image)

(***************************************************************************)
(* The size in proportion has the height it was asked for, or none, and    *)
(* fits the picture where neither dimension is zero (sizer.go 8-24).       *)
(***************************************************************************)
LEMMA InProportion ==
  ASSUME NEW w \in Nat, NEW h \in Nat, NEW image \in Image,
         NEW size \in calculateAspectRatio(w, h, image.height, image.width)
  PROVE  size \in Size /\ size.height \in {h, 0} /\ Proportional(size, image)
<1>1. image.width \in Nat \ {0} /\ image.height \in Nat \ {0}
  BY DEF Image
<1>2. h * image.width \in Nat
  BY <1>1
<1>3. \/ size = [width |-> w, height |-> 0]
      \/ \E q \in Truncated(h * image.width, image.height) : size = [width |-> q, height |-> h]
  BY DEF calculateAspectRatio, Returned
<1>4. CASE size = [width |-> w, height |-> 0]
  BY <1>4 DEF Size, Proportional
<1>5. CASE \E q \in Truncated(h * image.width, image.height) : size = [width |-> q, height |-> h]
  <2>1. PICK q \in Truncated(h * image.width, image.height) : size = [width |-> q, height |-> h]
    BY <1>5
  <2>2. q \in Nat /\ q * image.height <= h * image.width
                  /\ h * image.width <= (q + 1) * image.height
    BY <1>1, <1>2, Quotient
  <2>3. (q + 2) * image.height = (q + 1) * image.height + image.height
    BY <1>1, <2>2
  <2>4. (q + 2) * image.height > h * image.width
    BY <1>1, <1>2, <2>2, <2>3
  <2> QED
    BY <2>1, <2>2, <2>4 DEF Size, Proportional, FitsBelow
<1> QED
  BY <1>3, <1>4, <1>5

(***************************************************************************)
(* The picture scaled to a size has that size, and dimensions in           *)
(* proportion where the size has none (resize.go 81-88).                   *)
(***************************************************************************)
LEMMA Rounded ==
  ASSUME NEW w \in Nat, NEW old \in Nat \ {0}, NEW other \in Nat \ {0},
         NEW q \in Truncated(10 * other * w + 7 * old, 10 * old)
  PROVE  q \in Nat /\ 10 * (q * old - w * other) \in -3 * old .. 7 * old
<1>1. 10 * other * w + 7 * old \in Nat /\ 10 * old \in Nat \ {0}
  OBVIOUS
<1>2. q \in Nat /\ q * (10 * old) <= 10 * other * w + 7 * old
                /\ 10 * other * w + 7 * old <= (q + 1) * (10 * old)
  BY <1>1, Quotient
<1>3. /\ q * (10 * old) = 10 * (q * old) /\ (q + 1) * (10 * old) = 10 * (q * old) + 10 * old
      /\ 10 * other * w = 10 * (w * other)
  BY <1>2
<1>4. q * old \in Nat /\ w * other \in Nat
  BY <1>2
<1> QED
  BY <1>2, <1>3, <1>4

LEMMA Scaled ==
  ASSUME NEW w \in Nat, NEW h \in Nat, NEW image \in Image,
         NEW size \in scaling!Dimensions(w, h, image.width, image.height)
  PROVE  /\ size \in Size
         /\ w > 0 /\ h > 0 => size = [width |-> w, height |-> h]
         /\ ~(w > 0 /\ h > 0) => RoundedTo(size, image)
<1> DEFINE iw == image.width
           ih == image.height
           scale == scaling!calcFactors(w, h, iw, ih)
<1>1. iw \in Nat \ {0} /\ ih \in Nat \ {0}
  BY DEF Image
<1>2. PICK x \in scaling!Dimension(w, iw, scale.x), y \in scaling!Dimension(h, ih, scale.y) :
        size = [width |-> x, height |-> y]
  BY DEF scaling!Dimensions
<1>3. CASE w > 0 /\ h > 0
  BY <1>2, <1>3 DEF scaling!Dimension, Size
<1>4. CASE w > 0 /\ h = 0
  <2>1. x = w
    BY <1>4 DEF scaling!Dimension
  <2>2. scale.y.num = iw /\ scale.y.den = w
    BY <1>4 DEF scaling!calcFactors, scaling!Factor, scaling!Scale
  <2>3. y \in Truncated(10 * ih * w + 7 * iw, 10 * iw)
    BY <1>4, <2>2 DEF scaling!Dimension, scaling!Truncated, Truncated
  <2>4. y \in Nat /\ 10 * (y * iw - w * ih) \in -3 * iw .. 7 * iw
    BY <1>1, <2>3, Rounded
  <2> QED
    BY <1>1, <1>2, <1>4, <2>1, <2>4 DEF Size, RoundedTo
<1>5. CASE w = 0 /\ h > 0
  <2>1. y = h
    BY <1>5 DEF scaling!Dimension
  <2>2. scale.x.num = ih /\ scale.x.den = h
    BY <1>5 DEF scaling!calcFactors, scaling!Factor, scaling!Scale
  <2>3. x \in Truncated(10 * iw * h + 7 * ih, 10 * ih)
    BY <1>5, <2>2 DEF scaling!Dimension, scaling!Truncated, Truncated
  <2>4. x \in Nat /\ 10 * (x * ih - h * iw) \in -3 * ih .. 7 * ih
    BY <1>1, <2>3, Rounded
  <2> QED
    BY <1>1, <1>2, <1>5, <2>1, <2>4 DEF Size, RoundedTo
<1>6. CASE w = 0 /\ h = 0
  <2>1. scale.x.num = 1 /\ scale.x.den = 1 /\ scale.y.num = 1 /\ scale.y.den = 1
    BY <1>6 DEF scaling!calcFactors, scaling!Factor, scaling!Scale
  <2>2. x \in Truncated(10 * iw * 1 + 7 * 1, 10) /\ y \in Truncated(10 * ih * 1 + 7 * 1, 10)
    BY <1>6, <2>1 DEF scaling!Dimension, scaling!Truncated, Truncated
  <2>3. x = iw /\ y = ih
    BY <1>1, <2>2 DEF Truncated
  <2>4. 10 * (x * ih - y * iw) = 0
    BY <1>1, <2>3
  <2>5. 0 \in -3 * ih .. 7 * ih
    BY <1>1
  <2>6. size.width = iw /\ size.height = ih
    BY <1>2, <2>3
  <2>7. RoundedTo(size, image)
    BY <2>3, <2>4, <2>5, <2>6 DEF RoundedTo
  <2> QED
    BY <1>1, <1>2, <1>6, <2>3, <2>7 DEF Size
<1> QED
  BY <1>3, <1>4, <1>5, <1>6

-----------------------------------------------------------------------------
(* The pointer of a request under way leads to a size: it comes from the   *)
(* configuration that is served, and its nil was noticed by the validator. *)
InFlight == {"checkWidth", "checkHeight", "measure", "measureHeight", "ratio", "scale",
             "writeWidth", "writeHeight", "read", "resize"}

Pointers ==
  \A p \in Procs :
    /\ req[p].at \in InFlight \cup {"validate"} =>
         serving /\ req[p].name \in DOMAIN config \cup {Literal}
    /\ req[p].at \in InFlight => SizeOf(p) \in Size

TypeInv == TypeOK /\ Pointers

(* What the two stores do to a pointer that leads to a size.               *)
LEMMA Store ==
  ASSUME TypeOK, NEW p \in Procs, NEW n \in Nat, SizeOf(p) \in Size,
         req[p].name \in DOMAIN config \cup {Literal},
         SetWidth(p, n) \/ SetHeight(p, n)
  PROVE  /\ IsSizes(config') /\ DOMAIN config' = DOMAIN config
         /\ own' \in [Procs -> Size]
         /\ \A q \in Procs : q # p => own'[q] = own[q]
         /\ req[p].name = Literal => config' = config
         /\ req[p].name # Literal => own' = own
         /\ \A name \in DOMAIN config : config[name] \in Size => config'[name] \in Size
         /\ \A name \in DOMAIN config :
              name # req[p].name => config'[name] = config[name]
         /\ SetWidth(p, n) => \A name \in DOMAIN config : config'[name].height = config[name].height
         /\ SetHeight(p, n) /\ req[p].name # Literal => config'[req[p].name].height = n
         /\ SetWidth(p, n) /\ req[p].name = Literal => own'[p] = [width |-> n, height |-> own[p].height]
         /\ SetHeight(p, n) /\ req[p].name = Literal => own'[p] = [width |-> own[p].width, height |-> n]
<1>1. /\ own \in [Procs -> Size] /\ DOMAIN config \subseteq Names
      /\ config \in [DOMAIN config -> Size \cup {NoSize}]
  BY DEF TypeOK, IsSizes
<1>2. CASE req[p].name = Literal
  <2>1. config' = config
    BY <1>2 DEF SetWidth, SetHeight
  <2>2. \/ SetWidth(p, n) /\ own' = [own EXCEPT ![p].width = n]
        \/ SetHeight(p, n) /\ own' = [own EXCEPT ![p].height = n]
    BY <1>2 DEF SetWidth, SetHeight
  <2> QED
    BY <1>1, <1>2, <2>1, <2>2 DEF Size, IsSizes, SetWidth, SetHeight
<1>3. CASE req[p].name # Literal
  <2>1. own' = own
    BY <1>3 DEF SetWidth, SetHeight
  <2>2. req[p].name \in DOMAIN config /\ config[req[p].name] \in Size
    BY <1>3 DEF SizeOf
  <2>3. \/ SetWidth(p, n) /\ config' = [config EXCEPT ![req[p].name].width = n]
        \/ SetHeight(p, n) /\ config' = [config EXCEPT ![req[p].name].height = n]
    BY <1>3 DEF SetWidth, SetHeight
  <2>4. DOMAIN config' = DOMAIN config
    BY <2>3
  <2>5. \A name \in DOMAIN config : config'[name] \in Size \cup {NoSize}
    BY <1>1, <2>2, <2>3 DEF Size
  <2>6. config' \in [DOMAIN config -> Size \cup {NoSize}]
    BY <2>3, <2>4, <2>5
  <2> QED
    BY <1>1, <1>3, <2>1, <2>2, <2>3, <2>4, <2>6 DEF Size, IsSizes, SetWidth, SetHeight
<1> QED
  BY <1>2, <1>3

(* A picture, or none yet, has dimensions.                                 *)
LEMMA ImagesAreImages == ASSUME NEW image \in Images \cup {NoImage} PROVE image \in Image
  BY SizesAssumption DEF NoImage, Image

(* TypeInv is inductive: it holds at first, and every step keeps it.       *)
LEMMA TypeInit == Init => TypeInv
<1> SUFFICES ASSUME Init PROVE TypeInv
  OBVIOUS
<1>1. << >> \in [DOMAIN << >> -> Size \cup {NoSize}] /\ DOMAIN << >> = {}
  OBVIOUS
<1>2. IsSizes(<< >>)
  BY <1>1 DEF IsSizes
<1>3. Zero \in Size
  BY DEF Zero, Size
<1>4. \A p \in Procs : req[p] = [at |-> "idle", name |-> Literal, image |-> NoImage,
                                 width |-> 0, new |-> Zero]
  BY DEF Init
<1>5. TypeOK
  BY <1>2, <1>3 DEF Init, TypeOK, Places
<1>6. Pointers
  BY <1>4 DEF Pointers, InFlight
<1> QED
  BY <1>5, <1>6 DEF TypeInv

(* A step that changes nothing but p's request keeps the types and the     *)
(* pointers, provided that p goes on with one that leads to a size.        *)
LEMMA OwnStep ==
  ASSUME TypeInv, NEW p \in Procs, UNCHANGED <<serving, loaded, config, own>>,
         NEW r \in [at : Places, name : Names \cup {Literal}, image : Images \cup {NoImage},
                    width : Nat, new : Size],
         req' = [req EXCEPT ![p] = r],
         r.at \in InFlight \cup {"validate"} => serving /\ r.name \in DOMAIN config \cup {Literal},
         r.at \in InFlight => (IF r.name = Literal THEN own[p] ELSE config[r.name]) \in Size
  PROVE  TypeInv'
<1>1. \A q \in Procs : req'[q] = IF q = p THEN r ELSE req[q]
  BY DEF TypeInv, TypeOK
<1>2. TypeOK'
  BY DEF TypeInv, TypeOK, IsSizes
<1>3. Pointers'
  BY <1>1 DEF TypeInv, Pointers, SizeOf
<1> QED
  BY <1>2, <1>3 DEF TypeInv

(* A test leads to one of two places and changes nothing else.             *)
LEMMA Tested ==
  ASSUME TypeOK, NEW p \in Procs, NEW place, NEW holds, NEW next, NEW otherwise,
         Test(p, place, holds, next, otherwise)
  PROVE  /\ req[p].at = place /\ UNCHANGED <<serving, loaded, config, own>>
         /\ \E to \in {next, otherwise} : req' = [req EXCEPT ![p] = [req[p] EXCEPT !.at = to]]
  BY DEF TypeOK, Test, Goto

(* One case per action, most of them by OwnStep.                           *)
LEMMA TypeStep == TypeInv /\ [Next]_vars => TypeInv'
<1> SUFFICES ASSUME TypeInv, [Next]_vars PROVE TypeInv'
  OBVIOUS
<1> USE DEF TypeInv
<1>1. ASSUME NEW names \in SUBSET Names, NEW sizes \in [names -> Size \cup {NoSize}],
             NEW limits \in Size, Serve(sizes, limits)
      PROVE  TypeInv'
  <2>1. IsSizes(sizes)
    BY DEF IsSizes
  <2>2. /\ serving' = TRUE /\ loaded'.sizes = sizes /\ loaded'.limits = limits
        /\ config' = sizes /\ UNCHANGED <<own, req>>
    BY <1>1 DEF Serve
  <2>3. TypeOK'
    BY <2>1, <2>2 DEF TypeOK, IsSizes
  <2>4. \A p \in Procs : req[p].at \notin InFlight \cup {"validate"}
    BY <1>1 DEF Serve, Pointers
  <2> QED
    BY <2>2, <2>3, <2>4 DEF Pointers
<1>2. ASSUME NEW p \in Procs, Request(p) PROVE TypeInv'
  <2>0. /\ req[p] \in [at : Places, name : Names \cup {Literal}, image : Images \cup {NoImage},
                       width : Nat, new : Size]
        /\ own[p] \in Size
    BY DEF TypeOK
  <2>1. CASE GetImageSize(p)
    <3>1. ASSUME NEW name \in Names \cup {Literal}
          PROVE NewRequest(name) \in [at : Places, name : Names \cup {Literal},
                                      image : Images \cup {NoImage}, width : Nat, new : Size]
      BY DEF NewRequest, Places, Zero, Size
    <3>2. UNCHANGED <<serving, loaded, config>> /\ serving /\ own' \in [Procs -> Size]
          /\ \A q \in Procs : q # p => own'[q] = own[q]
      <4>1. \A size \in Literals \cup {Zero} : size \in Size
        BY SizesAssumption DEF Zero, Size
      <4>2. \E size \in Size : own' = [own EXCEPT ![p] = size]
        BY <2>1, <4>1 DEF GetImageSize
      <4> QED
        BY <2>1, <4>2 DEF GetImageSize, TypeOK
    <3>3. PICK name \in DOMAIN config \cup {Literal} : req' = [req EXCEPT ![p] = NewRequest(name)]
      BY <2>1 DEF GetImageSize
    <3>4. DOMAIN config \subseteq Names
      BY DEF TypeOK, IsSizes
    <3>5. NewRequest(name) \in [at : Places, name : Names \cup {Literal},
                                image : Images \cup {NoImage}, width : Nat, new : Size]
      BY <3>1, <3>3, <3>4
    <3>6. \A q \in Procs : req'[q] = IF q = p THEN NewRequest(name) ELSE req[q]
      BY <3>3 DEF TypeOK
    <3>7. TypeOK'
      BY <3>2, <3>3, <3>5, <3>6 DEF TypeOK, IsSizes
    <3>8. NewRequest(name).at = "validate" /\ NewRequest(name).name = name
      BY DEF NewRequest
    <3>9. Pointers'
      BY <3>2, <3>6, <3>8 DEF Pointers, SizeOf, InFlight
    <3> QED
      BY <3>7, <3>9
  <2>2. CASE CheckHeight(p)
    <3>1. UNCHANGED <<serving, loaded, config, own>> /\ req[p].at = "checkHeight"
      BY <2>2 DEF CheckHeight
    <3>2. SizeOf(p) \in Size
      BY <3>1 DEF Pointers, InFlight
    <3>3. CASE \E image \in Images :
                 req' = [req EXCEPT ![p].at = "measure", ![p].image = image]
      <4>1. PICK image \in Images :
              req' = [req EXCEPT ![p] = [req[p] EXCEPT !.at = "measure", !.image = image]]
        BY <3>3, <2>0 DEF TypeOK
      <4> QED
        BY <2>0, <3>1, <3>2, <4>1, OwnStep DEF Pointers, SizeOf, Places, InFlight
    <3>4. CASE Goto(p, "idle")
      <4>1. req' = [req EXCEPT ![p] = [req[p] EXCEPT !.at = "idle"]]
        BY <3>4, <2>0 DEF TypeOK, Goto
      <4> QED
        BY <2>0, <3>1, <4>1, OwnStep DEF Places, InFlight
    <3> QED
      BY <2>2, <3>3, <3>4 DEF CheckHeight
  <2>3. CASE Panic(p)
    <3>1. req' = [req EXCEPT ![p] = [req[p] EXCEPT !.at = "panic"]]
      BY <2>3, <2>0 DEF TypeOK, Panic, Goto
    <3> QED
      BY <2>0, <2>3, <3>1, OwnStep DEF Panic, Places, InFlight
  <2>4. CASE Validate(p) \/ CheckWidth(p) \/ Measure(p) \/ MeasureHeight(p)
    <3>1. PICK place \in {"idle", "checkWidth", "checkHeight", "measureHeight", "ratio", "read"} :
            req' = [req EXCEPT ![p] = [req[p] EXCEPT !.at = place]]
      BY <2>4, <2>0, Tested DEF TypeOK, Validate, CheckWidth, Measure, MeasureHeight
    <3>2. UNCHANGED <<serving, loaded, config, own>>
      BY <2>4, Tested DEF Validate, CheckWidth, Measure, MeasureHeight
    <3>3. serving /\ req[p].name \in DOMAIN config \cup {Literal} /\ SizeOf(p) \in Size
      <4>1. CASE Validate(p)
        <5>1. req[p].at = "validate" /\ SizeOf(p) # NoSize
          BY <4>1, Tested DEF Validate
        <5> QED
          BY <2>0, <5>1 DEF SizeOf, Pointers, TypeOK, IsSizes
      <4>2. CASE CheckWidth(p) \/ Measure(p) \/ MeasureHeight(p)
        BY <4>2, Tested DEF CheckWidth, Measure, MeasureHeight, Pointers, InFlight
      <4> QED
        BY <2>4, <4>1, <4>2
    <3> QED
      BY <2>0, <3>1, <3>2, <3>3, OwnStep DEF SizeOf, Places, InFlight
  <2>5. ASSUME NEW from \in {"ratio", "read"}, NEW to \in {"scale", "resize"},
               ReadWidth(p, from, to)
        PROVE  TypeInv'
    <3>1. req[p].at = from /\ SizeOf(p) \in Size
      BY <2>5 DEF ReadWidth, Pointers, InFlight
    <3>2. req' = [req EXCEPT ![p] = [req[p] EXCEPT !.at = to, !.width = SizeOf(p).width]]
      BY <2>5, <2>0 DEF TypeOK, ReadWidth
    <3>3. [req[p] EXCEPT !.at = to, !.width = SizeOf(p).width]
            \in [at : Places, name : Names \cup {Literal}, image : Images \cup {NoImage},
                 width : Nat, new : Size]
      BY <2>0, <2>5, <3>1 DEF Places, Size
    <3>4. serving /\ req[p].name \in DOMAIN config \cup {Literal} /\ SizeOf(p) \in Size
      BY <2>5, <3>1 DEF ReadWidth, Pointers, InFlight
    <3>5. [req[p] EXCEPT !.at = to, !.width = SizeOf(p).width].name = req[p].name
      BY <2>0
    <3> HIDE DEF TypeInv
    <3>6. TypeInv /\ UNCHANGED <<serving, loaded, config, own>>
      BY <2>5 DEF TypeInv, ReadWidth
    <3> QED
      BY <3>2, <3>3, <3>4, <3>5, <3>6, OwnStep DEF SizeOf
  <2>6. ASSUME NEW from \in {"scale", "resize"}, NEW to \in {"writeWidth", "done"},
               NEW size \in Size, req[p].at = from,
               req' = [req EXCEPT ![p].at = to, ![p].new = size],
               UNCHANGED <<serving, loaded, config, own>>
        PROVE  TypeInv'
    <3>1. req' = [req EXCEPT ![p] = [req[p] EXCEPT !.at = to, !.new = size]]
      BY <2>6, <2>0 DEF TypeOK
    <3>2. [req[p] EXCEPT !.at = to, !.new = size]
            \in [at : Places, name : Names \cup {Literal}, image : Images \cup {NoImage},
                 width : Nat, new : Size]
      BY <2>0, <2>6 DEF Places
    <3>3. serving /\ req[p].name \in DOMAIN config \cup {Literal} /\ SizeOf(p) \in Size
      BY <2>6 DEF Pointers, InFlight
    <3>4. [req[p] EXCEPT !.at = to, !.new = size].name = req[p].name
      BY <2>0
    <3> HIDE DEF TypeInv
    <3>5. TypeInv /\ UNCHANGED <<serving, loaded, config, own>>
      BY <2>6 DEF TypeInv
    <3> QED
      BY <3>1, <3>2, <3>3, <3>4, <3>5, OwnStep DEF SizeOf
  <2>7. CASE Scale(p)
    <3>1. req[p].width \in Nat /\ SizeOf(p).height \in Nat /\ req[p].image \in Image
      BY <2>0, <2>7, ImagesAreImages DEF Scale, Pointers, InFlight, Size
    <3> QED
      BY <2>6, <2>7, <3>1, InProportion DEF Scale
  <2>8. CASE Resize(p)
    <3>1. req[p].width \in Nat /\ SizeOf(p).height \in Nat /\ req[p].image \in Image
      BY <2>0, <2>8, ImagesAreImages DEF Resize, Pointers, InFlight, Size
    <3> QED
      BY <2>6, <2>8, <3>1, Scaled DEF Resize
  <2>9. ASSUME NEW n \in Nat, SetWidth(p, n) \/ SetHeight(p, n), req[p].at \in InFlight,
               NEW to \in {"writeHeight", "read"}, Goto(p, to), UNCHANGED <<serving, loaded>>
        PROVE  TypeInv'
    <3>1. SizeOf(p) \in Size /\ req[p].name \in DOMAIN config \cup {Literal}
      BY <2>9 DEF Pointers
    <3>2. /\ IsSizes(config') /\ DOMAIN config' = DOMAIN config
          /\ own' \in [Procs -> Size]
          /\ \A name \in DOMAIN config : config[name] \in Size => config'[name] \in Size
      BY <2>9, <3>1, Store
    <3>3. \A q \in Procs : req'[q] = IF q = p THEN [req[p] EXCEPT !.at = to] ELSE req[q]
      BY <2>0, <2>9 DEF Goto, TypeOK
    <3>4. TypeOK'
      BY <2>0, <2>9, <3>2, <3>3 DEF TypeOK, Goto, Places
    <3>5. \A q \in Procs : req[q].at \in InFlight => SizeOf(q)' \in Size
      BY <3>2, <3>3, <2>0, <2>9 DEF Pointers, SizeOf
    <3>6. Pointers'
      BY <2>0, <2>9, <3>2, <3>3, <3>5 DEF Pointers, InFlight
    <3> QED
      BY <3>4, <3>6
  <2>10. CASE WriteWidth(p)
    BY <2>0, <2>9, <2>10 DEF WriteWidth, InFlight, Size
  <2>11. CASE WriteHeight(p)
    BY <2>0, <2>9, <2>11 DEF WriteHeight, InFlight, Size
  <2> QED
    BY <1>2, <2>1, <2>2, <2>3, <2>4, <2>5, <2>7, <2>8, <2>10, <2>11 DEF Request, Ratio, Read
<1>3. CASE UNCHANGED vars
  BY <1>3 DEF vars, TypeOK, Pointers, SizeOf, IsSizes
<1> QED
  BY <1>1, <1>2, <1>3 DEF Next

(***************************************************************************)
(* However many requests share a placeholder, no field of it and of their  *)
(* own is out of its type, and no request goes on with a nil size.         *)
(***************************************************************************)
THEOREM TypeCorrect == Spec => []TypeOK
<1>1. TypeInv => TypeOK
  BY DEF TypeInv
<1> QED
  BY <1>1, TypeInit, TypeStep, PTL DEF Spec

-----------------------------------------------------------------------------
(* A request never touches another one, nor what main has loaded.          *)
LEMMA Frame ==
  ASSUME TypeOK, NEW p \in Procs, Request(p)
  PROVE  UNCHANGED <<serving, loaded>> /\ \A q \in Procs : q # p => req'[q] = req[q]
<1> USE DEF TypeOK, Goto, GetImageSize, Validate, CheckWidth, CheckHeight, Panic, Measure,
            MeasureHeight, Test, ReadWidth, Ratio, Scale, WriteWidth, WriteHeight, Read,
            Resize
<1>1. UNCHANGED <<serving, loaded>>
  BY DEF Request
<1>2. \E r : req' = [req EXCEPT ![p] = r]
  BY DEF Request
<1> QED
  BY <1>1, <1>2

(* What the request of p has computed for its placeholder, and not yet     *)
(* written, has the height of the configuration or none.                   *)
PendingHeights ==
  \A p \in Procs :
    req[p].at \in {"writeWidth", "writeHeight"} /\ req[p].name # Literal =>
      req[p].new.height \in {loaded.sizes[req[p].name].height, 0}

HeightInv == HeightFromConfiguration /\ PendingHeights

(* Only Scale computes a height and only WriteHeight stores one.           *)
LEMMA HeightStep == TypeInv /\ HeightInv /\ [Next]_vars => HeightInv'
<1> SUFFICES ASSUME TypeInv, HeightInv, [Next]_vars PROVE HeightInv'
  OBVIOUS
<1>0. TypeOK /\ Pointers /\ HeightFromConfiguration /\ PendingHeights
  BY DEF TypeInv, HeightInv
<1>1. ASSUME NEW names \in SUBSET Names, NEW sizes \in [names -> Size \cup {NoSize}],
             NEW limits \in Size, Serve(sizes, limits)
      PROVE  HeightInv'
  <2>1. loaded'.sizes = sizes /\ config' = sizes /\ UNCHANGED req
    BY <1>1 DEF Serve
  <2>2. \A p \in Procs : req[p].at \notin InFlight
    BY <1>0, <1>1 DEF Serve, Pointers
  <2> QED
    BY <2>1, <2>2 DEF HeightInv, HeightFromConfiguration, PendingHeights, InFlight
<1>2. ASSUME NEW p \in Procs, Request(p) PROVE HeightInv'
  <2>1. UNCHANGED <<serving, loaded>> /\ \A q \in Procs : q # p => req'[q] = req[q]
    BY <1>0, <1>2, Frame
  <2>2. ASSUME NEW n \in Nat, SetWidth(p, n) \/ SetHeight(p, n), req[p].at \in InFlight
        PROVE  /\ DOMAIN config' = DOMAIN config
               /\ \A name \in DOMAIN config : name # req[p].name => config'[name] = config[name]
               /\ SetWidth(p, n) =>
                    \A name \in DOMAIN config : config'[name].height = config[name].height
               /\ SetHeight(p, n) /\ req[p].name # Literal => config'[req[p].name].height = n
               /\ req[p].name = Literal => config' = config
    <3>1. SizeOf(p) \in Size /\ req[p].name \in DOMAIN config \cup {Literal}
      BY <1>0, <2>2 DEF Pointers
    <3> QED
      BY <1>0, <2>2, <3>1, Store
  <2>3. CASE UNCHANGED config /\ req'[p].at \notin {"writeWidth", "writeHeight"}
    BY <1>0, <2>1, <2>3 DEF HeightInv, HeightFromConfiguration, PendingHeights
  <2>4. CASE \/ GetImageSize(p) \/ Validate(p) \/ CheckWidth(p) \/ CheckHeight(p) \/ Panic(p)
             \/ Measure(p) \/ MeasureHeight(p) \/ Ratio(p) \/ Read(p) \/ Resize(p)
    <3>1. UNCHANGED config
      BY <2>4 DEF GetImageSize, Validate, CheckWidth, CheckHeight, Panic, Measure,
                  MeasureHeight,
         Test, Ratio, Read, ReadWidth, Resize
    <3>2. req'[p].at \notin {"writeWidth", "writeHeight"}
      <4> USE <1>0 DEF TypeOK, Goto
      <4>1. CASE GetImageSize(p)
        BY <4>1 DEF GetImageSize, NewRequest
      <4>2. CASE Validate(p) \/ CheckWidth(p) \/ Measure(p) \/ MeasureHeight(p)
        BY <4>2 DEF Validate, CheckWidth, Measure, MeasureHeight, Test
      <4>3. CASE Panic(p) \/ Ratio(p) \/ Read(p)
        BY <4>3 DEF Panic, Ratio, Read, ReadWidth
      <4>4. CASE CheckHeight(p) \/ Resize(p)
        BY <4>4 DEF CheckHeight, Resize
      <4> QED
        BY <2>4, <4>1, <4>2, <4>3, <4>4
    <3> QED
      BY <2>3, <3>1, <3>2
  <2>5. CASE Scale(p)
    <3>1. req[p].at = "scale" /\ SizeOf(p) \in Size /\ UNCHANGED config
          /\ req[p].name \in DOMAIN config \cup {Literal}
      BY <1>0, <2>5 DEF Scale, Pointers, InFlight
    <3>2. req[p].width \in Nat /\ SizeOf(p).height \in Nat /\ req[p].image \in Image
      BY <1>0, <3>1, ImagesAreImages DEF TypeOK, Size
    <3>3. PICK size \in calculateAspectRatio(req[p].width, SizeOf(p).height,
                                             req[p].image.height, req[p].image.width) :
            req' = [req EXCEPT ![p].at = "writeWidth", ![p].new = size]
      BY <2>5 DEF Scale
    <3>4. size.height \in {SizeOf(p).height, 0}
      BY <3>2, InProportion
    <3>5. req'[p].name = req[p].name /\ req'[p].new = size
      BY <1>0, <3>3 DEF TypeOK
    <3>6. req[p].name # Literal => size.height \in {loaded.sizes[req[p].name].height, 0}
      BY <1>0, <3>1, <3>4 DEF SizeOf, HeightFromConfiguration
    <3> QED
      BY <1>0, <2>1, <3>1, <3>5, <3>6 DEF HeightInv, HeightFromConfiguration, PendingHeights
  <2>6. CASE WriteWidth(p)
    <3>1. req[p].at = "writeWidth" /\ SetWidth(p, req[p].new.width) /\ req[p].new.width \in Nat
      BY <1>0, <2>6 DEF WriteWidth, TypeOK, Size
    <3>2. DOMAIN config' = DOMAIN config
          /\ \A name \in DOMAIN config : config'[name].height = config[name].height
      BY <2>2, <3>1 DEF InFlight
    <3>3. req'[p].name = req[p].name /\ req'[p].new = req[p].new
      BY <1>0, <2>6 DEF WriteWidth, Goto, TypeOK
    <3> QED
      BY <1>0, <2>1, <3>1, <3>2, <3>3 DEF HeightInv, HeightFromConfiguration, PendingHeights
  <2>7. CASE WriteHeight(p)
    <3>1. req[p].at = "writeHeight" /\ SetHeight(p, req[p].new.height) /\ req[p].new.height \in Nat
      BY <1>0, <2>7 DEF WriteHeight, TypeOK, Size
    <3>2. /\ DOMAIN config' = DOMAIN config
          /\ \A name \in DOMAIN config : name # req[p].name => config'[name] = config[name]
          /\ req[p].name # Literal => config'[req[p].name].height = req[p].new.height
          /\ req[p].name = Literal => config' = config
      BY <2>2, <3>1 DEF InFlight
    <3>3. req'[p].at = "read"
      BY <1>0, <2>7 DEF WriteHeight, Goto, TypeOK
    <3>4. req[p].name # Literal => req[p].new.height \in {loaded.sizes[req[p].name].height, 0}
      BY <1>0, <3>1 DEF PendingHeights
    <3> QED
      BY <1>0, <2>1, <3>2, <3>3, <3>4 DEF HeightInv, HeightFromConfiguration, PendingHeights
  <2> QED
    BY <1>2, <2>4, <2>5, <2>6, <2>7 DEF Request
<1>3. CASE UNCHANGED vars
  BY <1>0, <1>3 DEF vars, HeightInv, HeightFromConfiguration, PendingHeights
<1> QED
  BY <1>1, <1>2, <1>3 DEF Next

(***************************************************************************)
(* Whatever the configuration and however many requests write to one       *)
(* placeholder at a time, its height is the configured one or zero.        *)
(***************************************************************************)
THEOREM HeightAlwaysFromConfiguration == Spec => []HeightFromConfiguration
<1>1. Init => HeightInv
  BY DEF Init, HeightInv, HeightFromConfiguration, PendingHeights
<1>2. HeightInv => HeightFromConfiguration
  BY DEF HeightInv
<1> QED
  BY <1>1, <1>2, TypeInit, TypeStep, HeightStep, PTL DEF Spec

-----------------------------------------------------------------------------
(* How a size of the request's own comes to its proportions.               *)
Kept(p) ==
  req[p].name = Literal =>
    /\ req[p].at \in {"writeWidth", "writeHeight"} => Proportional(req[p].new, req[p].image)
    /\ req[p].at = "writeHeight" => own[p].width = req[p].new.width
    /\ req[p].at \in {"read", "resize"} => Proportional(own[p], req[p].image)
    /\ req[p].at = "resize" => req[p].width = own[p].width
    /\ req[p].at = "done" =>
         IF own[p].width > 0 /\ own[p].height > 0
           THEN FitsBelow(req[p].new, req[p].image)
           ELSE RoundedTo(req[p].new, req[p].image)

RatioInv == \A p \in Procs : Kept(p)

(* The proportions go from Scale by way of the two stores to Resize.       *)
LEMMA RatioStep == TypeInv /\ RatioInv /\ [Next]_vars => RatioInv'
<1> SUFFICES ASSUME TypeInv, RatioInv, [Next]_vars PROVE RatioInv'
  OBVIOUS
<1>0. TypeOK /\ Pointers
  BY DEF TypeInv
<1>1. ASSUME NEW names \in SUBSET Names, NEW sizes \in [names -> Size \cup {NoSize}],
             NEW limits \in Size, Serve(sizes, limits)
      PROVE  RatioInv'
  BY <1>1 DEF Serve, RatioInv, Kept
<1>2. ASSUME NEW p \in Procs, Request(p) PROVE RatioInv'
  <2> DEFINE i == req[p].image
  <2>0. i \in Image /\ own[p] \in Size /\ req[p].new \in Size /\ req[p].width \in Nat
    BY <1>0, ImagesAreImages DEF TypeOK
  <2>1. \A q \in Procs : q # p => req'[q] = req[q] /\ own'[q] = own[q]
    <3>1. \A q \in Procs : q # p => req'[q] = req[q]
      BY <1>0, <1>2, Frame
    <3>2. \E size : own' = [own EXCEPT ![p] = size]
      <4>1. own = [own EXCEPT ![p] = own[p]]
        BY <1>0 DEF TypeOK
      <4> QED
        BY <1>2, <4>1 DEF Request, GetImageSize, Validate, CheckWidth, CheckHeight, Panic,
             Measure, MeasureHeight, Test, ReadWidth, Ratio, Scale, WriteWidth,
             WriteHeight, Read, Resize, SetWidth, SetHeight
    <3> QED
      BY <1>0, <3>1, <3>2 DEF TypeOK
  <2>2. ASSUME Kept(p)' PROVE RatioInv'
    BY <2>1, <2>2 DEF RatioInv, Kept
  <2>3. Kept(p)
    BY DEF RatioInv
  <2>4. CASE GetImageSize(p)
    <3>1. req'[p].at = "validate"
      BY <1>0, <2>4 DEF GetImageSize, NewRequest, TypeOK
    <3> QED
      BY <2>2, <3>1 DEF Kept
  <2>5. CASE Validate(p) \/ CheckWidth(p) \/ CheckHeight(p) \/ Panic(p) \/ Ratio(p)
    <3>1. req'[p].at \in {"checkWidth", "checkHeight", "measure", "idle", "panic", "scale"}
      BY <1>0, <2>5 DEF Validate, CheckWidth, CheckHeight, Test, Panic, Ratio, ReadWidth,
                        Goto,
         TypeOK
    <3> QED
      BY <2>2, <3>1 DEF Kept
  <2>6. CASE Measure(p) \/ MeasureHeight(p)
    <3>1. /\ req'[p].name = req[p].name /\ req'[p].image = i /\ UNCHANGED own
          /\ req'[p].at \in {"measureHeight", "ratio", "read"}
          /\ req'[p].at = "read" => ~(SizeOf(p).width > 0 /\ SizeOf(p).height > 0)
      BY <1>0, <2>6 DEF Measure, MeasureHeight, Test, Goto, TypeOK
    <3> QED
      BY <2>2, <3>1 DEF Kept, SizeOf, Proportional
  <2>7. CASE Scale(p)
    <3>1. SizeOf(p).height \in Nat
      BY <1>0, <2>7 DEF Scale, Pointers, InFlight, Size
    <3>2. PICK size \in calculateAspectRatio(req[p].width, SizeOf(p).height, i.height, i.width) :
            req' = [req EXCEPT ![p].at = "writeWidth", ![p].new = size]
      BY <2>7 DEF Scale
    <3>3. Proportional(size, i)
      BY <2>0, <3>1, InProportion
    <3>4. req'[p].at = "writeWidth" /\ req'[p].new = size /\ req'[p].image = i
      BY <1>0, <3>2 DEF TypeOK
    <3> QED
      BY <2>2, <3>3, <3>4 DEF Kept
  <2>8. CASE WriteWidth(p)
    <3>1. req[p].at = "writeWidth"
          /\ req'[p].at = "writeHeight" /\ req'[p].name = req[p].name
          /\ req'[p].new = req[p].new /\ req'[p].image = i
      BY <1>0, <2>8 DEF WriteWidth, Goto, TypeOK
    <3>2. req[p].name = Literal => own'[p].width = req[p].new.width
      BY <1>0, <2>0, <2>8 DEF WriteWidth, SetWidth, TypeOK, Size
    <3> QED
      BY <2>2, <2>3, <3>1, <3>2 DEF Kept
  <2>9. CASE WriteHeight(p)
    <3>1. req[p].at = "writeHeight"
          /\ req'[p].at = "read" /\ req'[p].name = req[p].name /\ req'[p].image = i
      BY <1>0, <2>9 DEF WriteHeight, Goto, TypeOK
    <3>2. req[p].name = Literal => own'[p] = [width |-> own[p].width, height |-> req[p].new.height]
      BY <1>0, <2>0, <2>9 DEF WriteHeight, SetHeight, TypeOK, Size
    <3>3. req[p].name = Literal => Proportional(own'[p], i)
      BY <2>3, <3>1, <3>2 DEF Kept, Proportional, FitsBelow
    <3> QED
      BY <2>2, <3>1, <3>3 DEF Kept
  <2>10. CASE Read(p)
    <3>1. req[p].at = "read" /\ UNCHANGED own
          /\ req'[p].at = "resize" /\ req'[p].name = req[p].name /\ req'[p].image = i
          /\ req'[p].width = SizeOf(p).width
      BY <1>0, <2>10 DEF Read, ReadWidth, TypeOK
    <3> QED
      BY <2>2, <2>3, <3>1 DEF Kept, SizeOf
  <2>11. CASE Resize(p)
    <3>1. SizeOf(p).height \in Nat /\ req[p].at = "resize" /\ UNCHANGED own
      BY <1>0, <2>11 DEF Resize, Pointers, InFlight, Size
    <3>2. PICK size \in scaling!Dimensions(req[p].width, SizeOf(p).height, i.width, i.height) :
            req' = [req EXCEPT ![p].at = "done", ![p].new = size]
      BY <2>11 DEF Resize
    <3>3. LET w == req[p].width
              h == SizeOf(p).height
          IN /\ w > 0 /\ h > 0 => size = [width |-> w, height |-> h]
             /\ ~(w > 0 /\ h > 0) => RoundedTo(size, i)
      BY <2>0, <3>1, Scaled
    <3>4. req'[p].at = "done" /\ req'[p].new = size /\ req'[p].image = i
          /\ req'[p].name = req[p].name
      BY <1>0, <3>2 DEF TypeOK
    <3>5. req[p].name = Literal =>
            /\ Proportional(own[p], i) /\ req[p].width = own[p].width
            /\ SizeOf(p).height = own[p].height
      BY <2>3, <3>1 DEF Kept, SizeOf
    <3>6. req[p].name = Literal /\ own[p].width > 0 /\ own[p].height > 0 => FitsBelow(size, i)
      BY <3>3, <3>5 DEF Proportional, FitsBelow
    <3>7. req[p].name = Literal /\ ~(own[p].width > 0 /\ own[p].height > 0) => RoundedTo(size, i)
      BY <3>3, <3>5
    <3> QED
      BY <2>2, <3>1, <3>4, <3>6, <3>7 DEF Kept
  <2> QED
    BY <1>2, <2>4, <2>5, <2>6, <2>7, <2>8, <2>9, <2>10, <2>11 DEF Request
<1>3. CASE UNCHANGED vars
  BY <1>3 DEF vars, RatioInv, Kept
<1> QED
  BY <1>1, <1>2, <1>3 DEF Next

(***************************************************************************)
(* Whatever the pictures' dimensions and the sizes asked for, a picture    *)
(* resized for a size of the request's own keeps its proportions: within   *)
(* two pixels of width, or rounded where a dimension is zero.              *)
(***************************************************************************)
THEOREM AspectRatioAlwaysKept == Spec => []AspectRatioKept
<1>1. Init => RatioInv
  BY DEF Init, RatioInv, Kept
<1>2. RatioInv => AspectRatioKept
  BY DEF RatioInv, Kept, AspectRatioKept
<1> QED
  BY <1>1, <1>2, TypeInit, TypeStep, RatioStep, PTL DEF Spec

-----------------------------------------------------------------------------
(* What a request has met that panicked: a placeholder without a size.     *)
PanicInv ==
  \A p \in Procs : req[p].at = "panic" =>
    /\ serving /\ req[p].name \in DOMAIN loaded.sizes
    /\ loaded.sizes[req[p].name] = NoSize

(* Panic is taken with a nil pointer only: the height, and by it the size, *)
(* is still that of the configuration that was loaded.                     *)
LEMMA PanicStep == TypeInv /\ HeightInv /\ PanicInv /\ [Next]_vars => PanicInv'
<1> SUFFICES ASSUME TypeInv, HeightInv, PanicInv, [Next]_vars PROVE PanicInv'
  OBVIOUS
<1>0. TypeOK /\ Pointers /\ HeightFromConfiguration
  BY DEF TypeInv, HeightInv
<1>1. ASSUME NEW names \in SUBSET Names, NEW sizes \in [names -> Size \cup {NoSize}],
             NEW limits \in Size, Serve(sizes, limits)
      PROVE  PanicInv'
  BY <1>1 DEF Serve, PanicInv
<1>2. ASSUME NEW p \in Procs, Request(p) PROVE PanicInv'
  <2>1. UNCHANGED <<serving, loaded>> /\ \A q \in Procs : q # p => req'[q] = req[q]
    BY <1>0, <1>2, Frame
  <2>2. CASE Panic(p)
    <3>1. req[p].at = "validate" /\ SizeOf(p) = NoSize /\ req'[p].name = req[p].name
      BY <1>0, <2>2 DEF Panic, Goto, TypeOK
    <3>2. serving /\ req[p].name \in DOMAIN config \cup {Literal}
      BY <1>0, <3>1 DEF Pointers
    <3>3. own[p] # NoSize
      BY <1>0 DEF TypeOK, Size, NoSize
    <3>4. req[p].name \in DOMAIN config /\ config[req[p].name] = NoSize
      BY <3>1, <3>2, <3>3 DEF SizeOf
    <3>5. req[p].name \in DOMAIN loaded.sizes /\ loaded.sizes[req[p].name].height \in {-1}
      <4>1. DOMAIN config = DOMAIN loaded.sizes
            /\ config[req[p].name].height \in {loaded.sizes[req[p].name].height, 0}
        BY <1>0, <3>4 DEF HeightFromConfiguration
      <4> QED
        BY <3>4, <4>1 DEF NoSize
    <3>6. loaded.sizes[req[p].name] \in Size \cup {NoSize}
      BY <1>0, <3>5 DEF TypeOK, IsSizes
    <3>7. loaded.sizes[req[p].name] = NoSize
      BY <3>5, <3>6 DEF Size
    <3> QED
      BY <2>1, <3>1, <3>2, <3>5, <3>7 DEF PanicInv
  <2>3. CASE ~Panic(p)
    <3>1. req'[p].at # "panic"
      BY <1>0, <1>2, <2>3 DEF Request, GetImageSize, NewRequest, Validate, CheckWidth,
         CheckHeight, Measure, MeasureHeight, Test, Ratio, Scale, WriteWidth, WriteHeight,
         Read, Resize, ReadWidth, Goto, TypeOK
    <3> QED
      BY <2>1, <3>1 DEF PanicInv
  <2> QED
    BY <2>2, <2>3
<1>3. CASE UNCHANGED vars
  BY <1>3 DEF vars, PanicInv
<1> QED
  BY <1>1, <1>2, <1>3 DEF Next

-----------------------------------------------------------------------------
(* What values decode to: of the type wanted, and if it is no error then   *)
(* from a value that the type takes.  A value is one of a file, or the     *)
(* null that a name without value amounts to.                              *)
Data == Values \cup {Null}
OfValues(m) == \A key \in DOMAIN m.fields : m.fields[key] \in Values

ByteSize == [Width : 0 .. MaxUint, Height : 0 .. MaxUint]

(* The values of a field are among those of its name in any spelling.      *)
LEMMA AnyOfType ==
  ASSUME NEW m, OfValues(m), NEW name
  PROVE  /\ AnyOf(m, name) \subseteq Data /\ FieldValues(m, name) \subseteq Data
         /\ FieldValues(m, name) \subseteq AnyOf(m, name) \cup Spelt(m, name)
  BY DEF OfValues, Data, AnyOf, Spelt, NamesIn, FieldValues

LEMMA MapType == ASSUME NEW m \in Data, m.kind = "map" PROVE OfValues(m)
  BY ValuesAssumption DEF Data, OfValues, Null

(* The decoders of numbers, strings and Booleans, of what is not a null.   *)
LEMMA UintType ==
  ASSUME NEW v \in Data, v # Null, NEW r \in decodeUint(v)
  PROVE  r.value \in 0 .. MaxUint /\ r.failed \in BOOLEAN /\ (~r.failed => TakesUint(v))
<1> USE DEF Got, Failed, TakesUint
<1>0. v \in Values /\ MaxUint \in Nat \ {0}
  BY NumbersAssumption DEF Data
<1>1. CASE v.kind \in {"int", "float"}
  <2> DEFINE rest == v.is % (MaxUint + 1)
  <2>1. v.is \in Int
    BY <1>0, <1>1, ValuesAssumption
  <2>2. rest \in 0 .. MaxUint
    BY <1>0, <2>1
  <2>3. \E n \in {rest, 0} : r = Got(n)
    BY <1>1 DEF decodeUint
  <2> HIDE DEF rest
  <2>4. 0 \in 0 .. MaxUint
    BY <1>0
  <2>5. \E n \in 0 .. MaxUint : r = Got(n)
    BY <2>2, <2>3, <2>4, Zenon
  <2> QED
    BY <1>1, <2>5
<1>2. CASE v.kind = "bool"
  <2>1. r = Got(IF v.is THEN 1 ELSE 0)
    BY <1>2 DEF decodeUint
  <2>2. v.is \in BOOLEAN
    BY <1>0, <1>2, ValuesAssumption
  <2>3. \E n \in {0, 1} : r = Got(n)
    BY <2>1, <2>2
  <2> QED
    BY <1>0, <1>2, <2>3
<1>3. CASE v.kind = "string" /\ v.is \in DOMAIN Numerals /\ Numerals[v.is] <= MaxUint
  <2>1. r = Got(Numerals[v.is])
    BY <1>3 DEF decodeUint
  <2> QED
    BY <1>0, <1>3, <2>1, NumbersAssumption
<1>4. CASE /\ v.kind \notin {"int", "float", "bool"}
           /\ ~(v.kind = "string" /\ v.is \in DOMAIN Numerals /\ Numerals[v.is] <= MaxUint)
  <2>1. r = Failed(0)
    BY <1>4 DEF decodeUint
  <2> QED
    BY <1>0, <2>1
<1> QED
  BY <1>1, <1>2, <1>3, <1>4

LEMMA StringType ==
  ASSUME NEW v \in Data, v # Null, NEW r \in decodeString(v)
  PROVE  r.failed \in BOOLEAN /\ (~r.failed => TakesString(v))
<1> USE DEF Got, Failed, TakesString
<1>1. CASE v.kind \in {"int", "float", "bool", "string"}
  <2>1. \E x : r = Got(x)
    BY <1>1 DEF decodeString
  <2> QED
    BY <1>1, <2>1
<1>2. CASE v.kind \notin {"int", "float", "bool", "string"}
  <2>1. r = Failed("")
    BY <1>2 DEF decodeString
  <2> QED
    BY <2>1
<1> QED
  BY <1>1, <1>2

LEMMA BoolType ==
  ASSUME NEW v \in Data, v # Null, NEW r \in decodeBool(v)
  PROVE  r.value \in BOOLEAN /\ r.failed \in BOOLEAN /\ (~r.failed => TakesBool(v))
<1> USE DEF Got, Failed, TakesBool
<1>0. v \in Values
  BY DEF Data
<1> DEFINE parses == v.kind = "string" /\ v.is \in Trues \cup Falses \cup {""}
<1>1. CASE v.kind = "bool"
  <2>1. r = Got(v.is)
    BY <1>1 DEF decodeBool
  <2>2. v.is \in BOOLEAN
    BY <1>0, <1>1, ValuesAssumption
  <2> QED
    BY <1>1, <2>1, <2>2
<1>2. CASE v.kind \in {"int", "float"}
  <2>1. r = Got(v.is # 0)
    BY <1>2 DEF decodeBool
  <2> QED
    BY <1>2, <2>1
<1>3. CASE parses
  <2> DEFINE true == v.is \in Trues
  <2>1. r = Got(true)
    BY <1>3 DEF decodeBool
  <2>2. true \in BOOLEAN
    OBVIOUS
  <2> HIDE DEF true
  <2> QED
    BY <1>3, <2>1, <2>2
<1>4. CASE v.kind \notin {"bool", "int", "float"} /\ ~parses
  <2>1. r = Failed(FALSE)
    BY <1>4 DEF decodeBool
  <2> QED
    BY <2>1
<1> QED
  BY <1>1, <1>2, <1>3, <1>4

(* The same of what any of some values decodes to, a null included.        *)
LEMMA UintsType ==
  ASSUME NEW values \in SUBSET Data, NEW r \in Uints(values)
  PROVE  /\ r.value \in 0 .. MaxUint /\ r.failed \in BOOLEAN
         /\ ~r.failed => \E v \in values : TakesUint(v)
<1>1. PICK v \in values : r \in decode(v, 0, decodeUint(v))
  BY DEF Uints
<1>2. CASE v = Null
  <2>1. r = Got(0) /\ TakesUint(v)
    BY <1>1, <1>2 DEF decode, TakesUint
  <2> QED
    BY <2>1, NumbersAssumption DEF Got
<1>3. CASE v # Null
  BY <1>1, <1>3, UintType DEF decode
<1> QED
  BY <1>2, <1>3

LEMMA StringsType ==
  ASSUME NEW values \in SUBSET Data, NEW r \in Strings(values)
  PROVE  r.failed \in BOOLEAN /\ (~r.failed => \E v \in values : TakesString(v))
<1>1. PICK v \in values : r \in decode(v, "", decodeString(v))
  BY DEF Strings
<1>2. CASE v = Null
  <2>1. r = Got("") /\ TakesString(v)
    BY <1>1, <1>2 DEF decode, TakesString
  <2> QED
    BY <2>1 DEF Got
<1>3. CASE v # Null
  BY <1>1, <1>3, StringType DEF decode
<1> QED
  BY <1>2, <1>3

LEMMA BoolsType ==
  ASSUME NEW values \in SUBSET Data, NEW r \in Bools(values)
  PROVE  /\ r.value \in BOOLEAN /\ r.failed \in BOOLEAN
         /\ ~r.failed => \E v \in values : TakesBool(v)
<1>1. PICK v \in values : r \in decode(v, FALSE, decodeBool(v))
  BY DEF Bools
<1>2. CASE v = Null
  <2>1. r = Got(FALSE) /\ TakesBool(v)
    BY <1>1, <1>2 DEF decode, TakesBool
  <2> QED
    BY <2>1 DEF Got
<1>3. CASE v # Null
  BY <1>1, <1>3, BoolType DEF decode
<1> QED
  BY <1>2, <1>3

(* A structure has the values of its fields, and fails if one of them does. *)
LEMMA SizesType ==
  ASSUME NEW values \in SUBSET Data, NEW r \in Sizes(values)
  PROVE  /\ r = [value |-> r.value, failed |-> r.failed]
         /\ r.value \in ByteSize /\ r.failed \in BOOLEAN
         /\ ~r.failed => \E v \in values : TakesSize(v)
<1>1. PICK v \in values : r \in decode(v, NoWidthOrHeight, decodeSize(v))
  BY DEF Sizes
<1>2. NoWidthOrHeight \in ByteSize
  BY NumbersAssumption DEF NoWidthOrHeight, ByteSize
<1>3. CASE v = Null
  <2>1. r = Got(NoWidthOrHeight) /\ TakesSize(v)
    BY <1>1, <1>3 DEF decode, TakesSize
  <2> QED
    BY <1>2, <2>1 DEF Got
<1>4. CASE v # Null /\ v.kind # "map"
  <2>1. r = Failed(NoWidthOrHeight)
    BY <1>1, <1>4 DEF decode, decodeSize, decodeStruct
  <2> QED
    BY <1>2, <2>1 DEF Failed
<1>5. CASE v # Null /\ v.kind = "map"
  <2>1. PICK w \in Uints(FieldValues(v, "Width")), h \in Uints(FieldValues(v, "Height")) :
          r = All([Width |-> w, Height |-> h])
    BY <1>1, <1>5 DEF decode, decodeSize, decodeStruct
  <2>2. FieldValues(v, "Width") \in SUBSET Data /\ FieldValues(v, "Height") \in SUBSET Data
    BY <1>5, MapType, AnyOfType
  <2>3. /\ w.value \in 0 .. MaxUint /\ w.failed \in BOOLEAN
        /\ ~w.failed => \E x \in FieldValues(v, "Width") : TakesUint(x)
    BY <2>2, UintsType
  <2>4. /\ h.value \in 0 .. MaxUint /\ h.failed \in BOOLEAN
        /\ ~h.failed => \E x \in FieldValues(v, "Height") : TakesUint(x)
    BY <2>2, UintsType
  <2>5. /\ r.value = [Width |-> w.value, Height |-> h.value]
        /\ r = [value |-> r.value, failed |-> r.failed]
    BY <2>1 DEF All
  <2>6. r.failed \in BOOLEAN /\ (r.failed <=> w.failed \/ h.failed)
    BY <2>1 DEF All
  <2>7. r.value \in ByteSize /\ r.failed \in BOOLEAN
    BY <2>3, <2>4, <2>5, <2>6 DEF ByteSize
  <2>8. ~r.failed => TakesSize(v)
    BY <1>5, <2>3, <2>4, <2>6 DEF TakesSize
  <2> QED
    BY <2>5, <2>7, <2>8
<1> QED
  BY <1>3, <1>4, <1>5

(* A pointer is nil where there is nothing to point to, and after errors.  *)
LEMMA SizePtrsType ==
  ASSUME NEW values \in SUBSET Data, NEW r \in SizePtrs(values)
  PROVE  /\ r.value = Nil \/ (\E s \in ByteSize : r.value = {s})
         /\ r.failed \in BOOLEAN
         /\ ~r.failed => \E v \in values : TakesSize(v) /\ (r.value = Nil => v = Null)
<1>1. PICK v \in values : r \in decode(v, Nil, decodePtr(decodeSize(v)))
  BY DEF SizePtrs
<1>2. CASE v = Null
  <2>1. r = Got(Nil) /\ TakesSize(v)
    BY <1>1, <1>2 DEF decode, TakesSize
  <2> QED
    BY <1>2, <2>1 DEF Got
<1>3. CASE v # Null
  <2>1. PICK s \in decodeSize(v) : r = [s EXCEPT !.value = IF s.failed THEN Nil ELSE {@}]
    BY <1>1, <1>3 DEF decode, decodePtr
  <2>2. s \in Sizes({v}) /\ {v} \in SUBSET Data
    BY <1>3, <2>1 DEF Sizes, decode
  <2>3. /\ s = [value |-> s.value, failed |-> s.failed] /\ s.value \in ByteSize
        /\ s.failed \in BOOLEAN /\ (~s.failed => \E x \in {v} : TakesSize(x))
    BY <2>2, SizesType
  <2>4. r.value = (IF s.failed THEN Nil ELSE {s.value}) /\ r.failed = s.failed
    BY <2>1, <2>3
  <2> QED
    BY <2>3, <2>4 DEF Nil
<1> QED
  BY <1>2, <1>3

(* A placeholder comes from a value that it takes, and has a size unless   *)
(* that has none.                                                          *)
PlaceholderTaken(placeholder, v) ==
  /\ TakesPlaceholder(v) /\ placeholder.Name \in NamesOf(v)
  /\ placeholder.Size = Nil => Unsized(v)

LEMMA PlaceholdersType ==
  ASSUME NEW v \in Data, NEW r \in Placeholders({v})
  PROVE  /\ r.value.Size = Nil \/ (\E s \in ByteSize : r.value.Size = {s})
         /\ r.failed \in BOOLEAN
         /\ ~r.failed => PlaceholderTaken(r.value, v)
<1>1. r \in decode(v, Unnamed, decodePlaceholder(v))
  BY DEF Placeholders
<1>2. CASE v = Null
  <2>1. r = Got(Unnamed) /\ TakesPlaceholder(v) /\ Unsized(v) /\ NamesOf(v) = {""}
    BY <1>1, <1>2 DEF decode, TakesPlaceholder, Unsized, NamesOf
  <2> QED
    BY <2>1 DEF Got, Unnamed, PlaceholderTaken
<1>3. CASE v # Null /\ v.kind # "map"
  <2>1. r = Failed(Unnamed)
    BY <1>1, <1>3 DEF decode, decodePlaceholder, decodeStruct
  <2> QED
    BY <2>1 DEF Failed, Unnamed
<1>4. CASE v # Null /\ v.kind = "map"
  <2>1. PICK n \in Strings(FieldValues(v, "Name")), s \in SizePtrs(FieldValues(v, "Size")) :
          r = All([Name |-> n, Size |-> s])
    BY <1>1, <1>4 DEF decode, decodePlaceholder, decodeStruct
  <2>2. FieldValues(v, "Name") \in SUBSET Data /\ FieldValues(v, "Size") \in SUBSET Data
    BY <1>4, MapType, AnyOfType
  <2>3. /\ n.failed \in BOOLEAN
        /\ ~n.failed => \E x \in FieldValues(v, "Name") : TakesString(x)
    BY <2>2, StringsType
  <2>4. /\ s.value = Nil \/ (\E x \in ByteSize : s.value = {x})
        /\ s.failed \in BOOLEAN
        /\ ~s.failed => \E x \in FieldValues(v, "Size") : TakesSize(x) /\ (s.value = Nil => x = Null)
    BY <2>2, SizePtrsType
  <2>5. r.value = [Name |-> n.value, Size |-> s.value]
    BY <2>1 DEF All
  <2>6. r.failed \in BOOLEAN /\ (r.failed <=> n.failed \/ s.failed)
    BY <2>1 DEF All
  <2>7. ~r.failed => TakesPlaceholder(v)
    BY <1>4, <2>3, <2>4, <2>6 DEF TakesPlaceholder
  <2>8. r.value.Name \in NamesOf(v)
    BY <1>4, <2>1, <2>5 DEF NamesOf
  <2>9. ~r.failed /\ r.value.Size = Nil => Unsized(v)
    BY <2>4, <2>5, <2>6 DEF Unsized
  <2> QED
    BY <2>4, <2>5, <2>6, <2>7, <2>8, <2>9 DEF PlaceholderTaken
<1> QED
  BY <1>2, <1>3, <1>4

(* A list has the values of its elements, and fails if one of them does.   *)
LEMMA ListType ==
  ASSUME NEW v \in Data, NEW elements,
         v.kind = "list" => DOMAIN elements = DOMAIN v.items,
         NEW r \in decode(v, << >>, decodeSlice(v, elements)), ~r.failed
  PROVE  /\ TakesList(v)
         /\ v.kind # "list" => r.value = << >>
         /\ v.kind = "list" =>
              /\ v.items \in Seq(Values) /\ DOMAIN r.value = DOMAIN v.items
              /\ \A i \in DOMAIN v.items :
                   \E x \in elements[i] : r.value[i] = x.value /\ ~x.failed
<1>1. CASE v = Null
  <2>1. r = Got(<< >>) /\ TakesList(v) /\ v.kind # "list"
    BY <1>1 DEF decode, TakesList, Null
  <2> QED
    BY <2>1 DEF Got
<1>2. CASE v # Null /\ v.kind # "list"
  <2>1. r = IF v = EmptyMap THEN Got(<< >>) ELSE Failed(<< >>)
    BY <1>2 DEF decode, decodeSlice
  <2>2. v = EmptyMap
    BY <2>1 DEF Failed
  <2> QED
    BY <1>2, <2>1, <2>2 DEF Got, TakesList
<1>3. CASE v # Null /\ v.kind = "list"
  <2>1. PICK f \in Selections(elements) : r = All(f)
    BY <1>3 DEF decode, decodeSlice
  <2>2. DOMAIN f = DOMAIN v.items /\ \A i \in DOMAIN v.items : f[i] \in elements[i]
    BY <1>3, <2>1 DEF Selections
  <2>3. DOMAIN r.value = DOMAIN v.items /\ \A i \in DOMAIN v.items : r.value[i] = f[i].value
    BY <2>1, <2>2 DEF All
  <2>4. \A i \in DOMAIN v.items : ~f[i].failed
    <3>1. r.failed <=> \E i \in DOMAIN f : f[i].failed
      BY <2>1 DEF All
    <3> QED
      BY <2>2, <3>1
  <2>5. v.items \in Seq(Values)
    BY <1>3, ValuesAssumption DEF Data
  <2> QED
    BY <1>3, <2>2, <2>3, <2>4, <2>5 DEF TakesList
<1> QED
  BY <1>1, <1>2, <1>3

LEMMA StringListsType ==
  ASSUME NEW values \in SUBSET Data, NEW r \in StringLists(values), ~r.failed
  PROVE  \E v \in values : TakesList(v) /\ \A x \in Items(v) : TakesString(x)
<1>1. PICK v \in values :
        r \in decode(v, << >>, decodeSlice(v, [i \in DOMAIN v.items |-> Strings({v.items[i]})]))
  BY DEF StringLists
<1> DEFINE elements == [i \in DOMAIN v.items |-> Strings({v.items[i]})]
<1>2. /\ TakesList(v)
      /\ v.kind = "list" =>
           /\ v.items \in Seq(Values)
           /\ \A i \in DOMAIN v.items : \E x \in elements[i] : ~x.failed
  BY <1>1, ListType
<1>3. ASSUME NEW x \in Items(v) PROVE TakesString(x)
  <2>1. PICK i \in DOMAIN v.items : x = v.items[i] /\ v.kind = "list"
    BY DEF Items
  <2>2. PICK y \in Strings({x}) : ~y.failed
    BY <1>2, <2>1
  <2>3. {x} \in SUBSET Data
    BY <1>2, <2>1 DEF Data
  <2> QED
    BY <2>2, <2>3, StringsType
<1> QED
  BY <1>2, <1>3

LEMMA SizeListsType ==
  ASSUME NEW values \in SUBSET Data, NEW r \in SizeLists(values), ~r.failed
  PROVE  \E v \in values : TakesList(v) /\ \A x \in Items(v) : TakesSize(x)
<1>1. PICK v \in values :
        r \in decode(v, << >>, decodeSlice(v, [i \in DOMAIN v.items |-> Sizes({v.items[i]})]))
  BY DEF SizeLists
<1> DEFINE elements == [i \in DOMAIN v.items |-> Sizes({v.items[i]})]
<1>2. /\ TakesList(v)
      /\ v.kind = "list" =>
           /\ v.items \in Seq(Values)
           /\ \A i \in DOMAIN v.items : \E x \in elements[i] : ~x.failed
  BY <1>1, ListType
<1>3. ASSUME NEW x \in Items(v) PROVE TakesSize(x)
  <2>1. PICK i \in DOMAIN v.items : x = v.items[i] /\ v.kind = "list"
    BY DEF Items
  <2>2. PICK y \in Sizes({x}) : ~y.failed
    BY <1>2, <2>1
  <2>3. {x} \in SUBSET Data
    BY <1>2, <2>1 DEF Data
  <2> QED
    BY <2>2, <2>3, SizesType
<1> QED
  BY <1>2, <1>3

(* The placeholders of a value, one for each element of its list.          *)
PlaceholdersTaken(placeholders, v) ==
  /\ TakesList(v) /\ \A x \in Items(v) : TakesPlaceholder(x)
  /\ placeholders # << >> => v.kind = "list"
  /\ v.kind = "list" =>
       /\ v.items \in Seq(Values) /\ DOMAIN placeholders = DOMAIN v.items
       /\ \A i \in DOMAIN v.items :
            /\ PlaceholderTaken(placeholders[i], v.items[i])
            /\ placeholders[i].Size = Nil \/ (\E s \in ByteSize : placeholders[i].Size = {s})

LEMMA PlaceholderListsType ==
  ASSUME NEW values \in SUBSET Data, NEW r \in PlaceholderLists(values), ~r.failed
  PROVE  \E v \in values : PlaceholdersTaken(r.value, v)
<1>1. PICK v \in values :
        r \in decode(v, << >>, decodeSlice(v, [i \in DOMAIN v.items |-> Placeholders({v.items[i]})]))
  BY DEF PlaceholderLists
<1> DEFINE elements == [i \in DOMAIN v.items |-> Placeholders({v.items[i]})]
<1> HIDE DEF elements
<1>2. /\ TakesList(v)
      /\ v.kind # "list" => r.value = << >>
      /\ v.kind = "list" =>
           /\ v.items \in Seq(Values) /\ DOMAIN r.value = DOMAIN v.items
           /\ \A i \in DOMAIN v.items : \E x \in elements[i] : r.value[i] = x.value /\ ~x.failed
  <2>1. v \in Data /\ DOMAIN elements = DOMAIN v.items
        /\ r \in decode(v, << >>, decodeSlice(v, elements))
    BY <1>1 DEF elements
  <2> QED
    BY <2>1, ListType
<1>3. ASSUME v.kind = "list", NEW i \in DOMAIN v.items
      PROVE  /\ PlaceholderTaken(r.value[i], v.items[i])
             /\ r.value[i].Size = Nil \/ (\E s \in ByteSize : r.value[i].Size = {s})
  <2>1. PICK y \in Placeholders({v.items[i]}) : r.value[i] = y.value /\ ~y.failed
    BY <1>2, <1>3 DEF elements
  <2>2. v.items[i] \in Data
    BY <1>2, <1>3 DEF Data
  <2> QED
    BY <2>1, <2>2, PlaceholdersType
<1>4. \A x \in Items(v) : TakesPlaceholder(x)
  BY <1>3 DEF Items, PlaceholderTaken
<1> QED
  BY <1>2, <1>3, <1>4 DEF PlaceholdersTaken

(***************************************************************************)
(* What viper's settings decode to without an error is of the types of the *)
(* configuration, and comes from values which the fields take.             *)
(***************************************************************************)
Decoded(c, m) ==
  /\ c.Port \in 0 .. MaxUint /\ c.SizeLimits \in ByteSize
  /\ c.Cacheenabled \in BOOLEAN /\ c.Cachethumbnails \in BOOLEAN
  /\ \E v \in FieldValues(m, "Port") : TakesUint(v)
  /\ \E v \in FieldValues(m, "ImageHost") : TakesString(v)
  /\ \E v \in FieldValues(m, "HostWhiteList") : TakesList(v) /\ \A x \in Items(v) : TakesString(x)
  /\ \E v \in FieldValues(m, "SizeLimits") : TakesSize(v)
  /\ \E v \in FieldValues(m, "Placeholders") : PlaceholdersTaken(c.Placeholders, v)
  /\ \E v \in FieldValues(m, "Warmupsizes") : TakesList(v) /\ \A x \in Items(v) : TakesSize(x)
  /\ \E v \in FieldValues(m, "Cacheenabled") : TakesBool(v)
  /\ \E v \in FieldValues(m, "Cachethumbnails") : TakesBool(v)

LEMMA ConfigurationType ==
  ASSUME NEW m, OfValues(m), NEW r \in decodeConfiguration(m)
  PROVE  DOMAIN r = {"value", "failed"} /\ (~r.failed => Decoded(r.value, m))
<1>1. PICK port \in Uints(FieldValues(m, "Port")),
           host \in Strings(FieldValues(m, "ImageHost")),
           hosts \in StringLists(FieldValues(m, "HostWhiteList")),
           limits \in Sizes(FieldValues(m, "SizeLimits")),
           placeholders \in PlaceholderLists(FieldValues(m, "Placeholders")),
           sizes \in SizeLists(FieldValues(m, "Warmupsizes")),
           enabled \in Bools(FieldValues(m, "Cacheenabled")),
           thumbnails \in Bools(FieldValues(m, "Cachethumbnails")) :
        r = All([Port |-> port, ImageHost |-> host, HostWhiteList |-> hosts, SizeLimits |-> limits,
                 Placeholders |-> placeholders, Warmupsizes |-> sizes,
                 Cacheenabled |-> enabled, Cachethumbnails |-> thumbnails])
  BY DEF decodeConfiguration
<1>2. \A name : FieldValues(m, name) \in SUBSET Data
  BY AnyOfType
<1>3. /\ r.value.Port = port.value /\ r.value.SizeLimits = limits.value
      /\ r.value.Placeholders = placeholders.value
      /\ r.value.Cacheenabled = enabled.value /\ r.value.Cachethumbnails = thumbnails.value
      /\ DOMAIN r = {"value", "failed"}
  BY <1>1 DEF All
<1> SUFFICES ASSUME ~r.failed PROVE Decoded(r.value, m)
  BY <1>3
<1>4. /\ ~port.failed /\ ~host.failed /\ ~hosts.failed /\ ~limits.failed
      /\ ~placeholders.failed /\ ~sizes.failed /\ ~enabled.failed /\ ~thumbnails.failed
  BY <1>1 DEF All
<1>5. /\ port.value \in 0 .. MaxUint /\ \E v \in FieldValues(m, "Port") : TakesUint(v)
  BY <1>2, <1>4, UintsType
<1>6. \E v \in FieldValues(m, "ImageHost") : TakesString(v)
  BY <1>2, <1>4, StringsType
<1>7. \E v \in FieldValues(m, "HostWhiteList") : TakesList(v) /\ \A x \in Items(v) : TakesString(x)
  BY <1>2, <1>4, StringListsType
<1>8. limits.value \in ByteSize /\ \E v \in FieldValues(m, "SizeLimits") : TakesSize(v)
  BY <1>2, <1>4, SizesType
<1>9. \E v \in FieldValues(m, "Placeholders") : PlaceholdersTaken(placeholders.value, v)
  BY <1>2, <1>4, PlaceholderListsType
<1>10. \E v \in FieldValues(m, "Warmupsizes") : TakesList(v) /\ \A x \in Items(v) : TakesSize(x)
  BY <1>2, <1>4, SizeListsType
<1>11. enabled.value \in BOOLEAN /\ \E v \in FieldValues(m, "Cacheenabled") : TakesBool(v)
  BY <1>2, <1>4, BoolsType
<1>12. thumbnails.value \in BOOLEAN /\ \E v \in FieldValues(m, "Cachethumbnails") : TakesBool(v)
  BY <1>2, <1>4, BoolsType
<1> QED
  BY <1>3, <1>5, <1>6, <1>7, <1>8, <1>9, <1>10, <1>11, <1>12 DEF Decoded

(* What insensitiviseMap leaves for a name is one of the values it had.    *)
LEMMA InsensitiveType ==
  ASSUME NEW m, OfValues(m), NEW s \in insensitiviseMap(m)
  PROVE  s.kind = "map" /\ OfValues(s) /\ \A name : FieldValues(s, name) \subseteq AnyOf(m, name)
<1>1. PICK f \in Selections([name \in NamesIn(m) |-> Candidates(m, name)]) :
        s = [kind |-> "map",
             fields |-> [key \in {<<name, "lower">> : name \in NamesIn(m)} |-> f[key[1]]]]
  BY DEF insensitiviseMap
<1>2. \A name \in NamesIn(m) : f[name] \in Spelt(m, name)
  <2>1. \A name \in NamesIn(m) : Candidates(m, name) \subseteq Spelt(m, name)
    BY DEF Candidates, Spelt
  <2> QED
    BY <2>1 DEF Selections
<1>3. DOMAIN s.fields = {<<name, "lower">> : name \in NamesIn(m)}
      /\ \A name \in NamesIn(m) : s.fields[<<name, "lower">>] = f[name]
  BY <1>1
<1>4. OfValues(s)
  BY <1>2, <1>3 DEF OfValues, Spelt
<1>5. ASSUME NEW name PROVE FieldValues(s, name) \subseteq AnyOf(m, name)
  <2>1. <<name, "field">> \notin DOMAIN s.fields
    BY <1>3
  <2>2. NamesIn(s) = NamesIn(m)
    <3>1. \A n : <<n, "lower">>[1] = n
      OBVIOUS
    <3>2. {key[1] : key \in {<<n, "lower">> : n \in NamesIn(m)}} = NamesIn(m)
      BY <3>1
    <3> QED
      BY <1>3, <3>2 DEF NamesIn
  <2>3. name \in NamesIn(m) => Spelt(s, name) \subseteq Spelt(m, name)
    BY <1>2, <1>3 DEF Spelt
  <2> QED
    BY <2>1, <2>2, <2>3 DEF FieldValues, AnyOf
<1> QED
  BY <1>1, <1>4, <1>5

-----------------------------------------------------------------------------
(* Every set of numbers has a least one.                                   *)
LEMMA LeastNumber ==
  ASSUME NEW T \in SUBSET Nat, T # {}
  PROVE  \E n \in T : \A m \in T : n <= m
<1>1. PICK n \in T : \A m \in T : ~(<<m, n>> \in OpToRel(<, Nat))
  BY WFMin, NatLessThanWellFounded
<1>2. \A m \in T : ~(m < n)
  BY <1>1 DEF OpToRel
<1> QED
  BY <1>2

LEMMA MinIsLeast ==
  ASSUME NEW T \in SUBSET Nat, T # {}
  PROVE  FSE!Min(T) \in T /\ \A m \in T : FSE!Min(T) <= m
  BY LeastNumber DEF FSE!Min

(* The file that is found is a map of values, or was a null.               *)
LEMMA ConfigFileType ==
  ASSUME files \in Directories, ConfigFile.kind = "map"
  PROVE  OfValues(ConfigFile)
<1> DEFINE found == {i \in DOMAIN SupportedExts : Exists(SupportedExts[i])}
<1>1. found \in SUBSET Nat /\ found \subseteq DOMAIN SupportedExts
  BY DEF SupportedExts
<1>2. found # {}
  BY DEF ConfigFile, NoFile
<1>3. ConfigFile = Parsed(files[SupportedExts[FSE!Min(found)]])
  BY <1>2 DEF ConfigFile
<1>4. FSE!Min(found) \in DOMAIN SupportedExts
  BY <1>1, <1>2, MinIsLeast
<1>5. CASE ConfigFile = EmptyMap
  BY <1>5 DEF EmptyMap, OfValues
<1>6. CASE ConfigFile # EmptyMap
  <2>1. ConfigFile \in Values
    BY <1>3, <1>4, <1>6, ValuesAssumption DEF Parsed
  <2> QED
    BY <2>1, MapType DEF Data
<1> QED
  BY <1>5, <1>6

(* What requests see of a configuration: the sizes of the first placeholder *)
(* of each name.                                                           *)
First(c, name, i) ==
  /\ i \in DOMAIN c.Placeholders /\ c.Placeholders[i].Name = name
  /\ \A j \in DOMAIN c.Placeholders : c.Placeholders[j].Name = name => i <= j

LEMMA FirstPlaceholder ==
  ASSUME NEW c, NEW v, PlaceholdersTaken(c.Placeholders, v), NEW name \in DOMAIN SizesOf(c)
  PROVE  /\ name \in Names /\ v.kind = "list"
         /\ \E i : /\ First(c, name, i)
                   /\ SizesOf(c)[name] = IF c.Placeholders[i].Size = Nil THEN NoSize
                        ELSE AsSize(CHOOSE s \in c.Placeholders[i].Size : TRUE)
<1> DEFINE places(n) == {i \in DOMAIN c.Placeholders : c.Placeholders[i].Name = n}
           size(n) == c.Placeholders[FSE!Min(places(n))].Size
<1>1. SizesOf(c) = [n \in {n \in Names : places(n) # {}} |->
                      IF size(n) = Nil THEN NoSize ELSE AsSize(CHOOSE s \in size(n) : TRUE)]
  BY DEF SizesOf
<1>2. name \in Names /\ places(name) # {}
  BY <1>1
<1>3. c.Placeholders # << >>
  BY <1>2
<1>4. v.kind = "list" /\ v.items \in Seq(Values) /\ DOMAIN c.Placeholders = DOMAIN v.items
  BY <1>3 DEF PlaceholdersTaken
<1>5. places(name) \in SUBSET Nat
  BY <1>4
<1>6. First(c, name, FSE!Min(places(name)))
  BY <1>2, <1>5, MinIsLeast DEF First
<1>7. SizesOf(c)[name] = IF size(name) = Nil THEN NoSize
                           ELSE AsSize(CHOOSE s \in size(name) : TRUE)
  BY <1>1, <1>2
<1> QED
  BY <1>2, <1>4, <1>6, <1>7

LEMMA AsSizeType == ASSUME NEW s \in ByteSize PROVE AsSize(s) \in Size
  BY NumbersAssumption DEF ByteSize, AsSize, Size

(* It has no size only if its pointer is nil.                              *)
LEMMA FirstSize ==
  ASSUME NEW c, NEW v, PlaceholdersTaken(c.Placeholders, v), NEW name \in DOMAIN SizesOf(c)
  PROVE  /\ SizesOf(c)[name] \in Size \cup {NoSize}
         /\ \E i : /\ First(c, name, i)
                   /\ SizesOf(c)[name] = NoSize => c.Placeholders[i].Size = Nil
<1>1. PICK i : /\ First(c, name, i)
               /\ SizesOf(c)[name] = IF c.Placeholders[i].Size = Nil THEN NoSize
                    ELSE AsSize(CHOOSE s \in c.Placeholders[i].Size : TRUE)
  BY FirstPlaceholder
<1>2. v.kind = "list"
  BY FirstPlaceholder
<1>3. c.Placeholders[i].Size = Nil \/ (\E s \in ByteSize : c.Placeholders[i].Size = {s})
  BY <1>1, <1>2 DEF PlaceholdersTaken, First
<1>4. CASE c.Placeholders[i].Size = Nil
  BY <1>1, <1>4
<1>5. CASE c.Placeholders[i].Size # Nil
  <2>1. PICK s \in ByteSize : c.Placeholders[i].Size = {s}
    BY <1>3, <1>5
  <2>2. SizesOf(c)[name] = AsSize(s)
    BY <1>1, <1>5, <2>1
  <2>3. NoSize \notin Size
    BY DEF NoSize, Size
  <2> QED
    BY <1>1, <2>2, <2>3, AsSizeType
<1> QED
  BY <1>4, <1>5

LEMMA SizesOfType ==
  ASSUME NEW c, NEW v, PlaceholdersTaken(c.Placeholders, v)
  PROVE  \E names \in SUBSET Names : SizesOf(c) \in [names -> Size \cup {NoSize}]
<1>1. \A name \in DOMAIN SizesOf(c) : name \in Names /\ SizesOf(c)[name] \in Size \cup {NoSize}
  BY FirstPlaceholder, FirstSize
<1>2. SizesOf(c) = [name \in DOMAIN SizesOf(c) |-> SizesOf(c)[name]]
  BY DEF SizesOf
<1>3. DOMAIN SizesOf(c) \in SUBSET Names
  BY <1>1
<1>4. SizesOf(c) \in [DOMAIN SizesOf(c) -> Size \cup {NoSize}]
  BY <1>1, <1>2
<1> QED
  BY <1>3, <1>4

-----------------------------------------------------------------------------
(* The steps of main.  The pointer is set only to what the settings decode *)
(* to without an error, and the sizes served are those it leads to.        *)
SettingsRead == ConfigFile.kind = "map" /\ settings \in insensitiviseMap(ConfigFile)

MainInv ==
  /\ files \in Directories
  /\ phase \in {"start", "read", "unmarshalled", "serving", "ended", "panicked"}
  /\ serving \in BOOLEAN /\ (serving <=> phase = "serving")
  /\ phase = "start" => pointer = Nil
  /\ phase = "read" => pointer = Nil /\ SettingsRead
  /\ pointer # Nil => SettingsRead /\ \E c : pointer = {c} /\ Decoded(c, settings)
  /\ serving => \E c \in pointer : loaded.sizes = SizesOf(c)

(* What Unmarshal finds in the settings is from the file.                  *)
LEMMA SettingsType ==
  ASSUME files \in Directories, SettingsRead
  PROVE  /\ OfValues(settings)
         /\ \A name : FieldValues(settings, name) \subseteq AnyOf(ConfigFile, name)
  BY ConfigFileType, InsensitiveType DEF SettingsRead

(* What ListenAndServe hands to the requests has the type they expect.     *)
LEMMA ServedType ==
  ASSUME NEW c, NEW m, Decoded(c, m)
  PROVE  /\ \E names \in SUBSET Names : SizesOf(c) \in [names -> Size \cup {NoSize}]
         /\ AsSize(c.SizeLimits) \in Size
<1>1. PICK v \in FieldValues(m, "Placeholders") : PlaceholdersTaken(c.Placeholders, v)
  BY DEF Decoded
<1> QED
  BY <1>1, SizesOfType, AsSizeType DEF Decoded

LEMMA MainInvInit == MainInit => MainInv
  BY DEF MainInit, Init, MainInv

LEMMA ServesOnce == \A p \in Procs : Request(p) => UNCHANGED <<serving, loaded>>
  BY DEF Request, GetImageSize, Validate, CheckWidth, CheckHeight, Panic, Measure,
         MeasureHeight, Test, Ratio, Scale, WriteWidth, WriteHeight, Read, Resize, ReadWidth

(* Every step of main or of a request keeps the invariant, and is one of   *)
(* the requests' specification or leaves its variables alone.              *)
LEMMA MainStep == MainInv /\ [MainNext]_<<vars, mainVars>> => MainInv' /\ [Next]_vars
<1> SUFFICES ASSUME MainInv, [MainNext]_<<vars, mainVars>> PROVE MainInv' /\ [Next]_vars
  OBVIOUS
<1>1. CASE ReadInConfig
  <2>1. UNCHANGED <<serving, loaded, files, pointer>> /\ UNCHANGED vars
    BY <1>1 DEF ReadInConfig, vars
  <2>2. pointer = Nil /\ ~serving
    BY <1>1 DEF ReadInConfig, MainInv
  <2>3. \/ phase' = "read" /\ ConfigFile.kind = "map" /\ settings' \in insensitiviseMap(ConfigFile)
        \/ phase' = "panicked"
    BY <1>1 DEF ReadInConfig
  <2>4. ConfigFile' = ConfigFile
    BY <2>1 DEF ConfigFile, Exists
  <2>5. phase' = "read" => SettingsRead'
    BY <2>3, <2>4 DEF SettingsRead
  <2>6. phase' \in {"read", "panicked"}
    BY <2>3
  <2> QED
    BY <2>1, <2>2, <2>5, <2>6 DEF MainInv
<1>2. CASE Unmarshal
  <2>1. /\ UNCHANGED <<serving, loaded, files, settings>> /\ UNCHANGED vars
        /\ phase' = "unmarshalled" /\ phase = "read"
        /\ \E r \in decodePtr(decodeConfiguration(settings)) : pointer' = r.value
    BY <1>2 DEF Unmarshal, vars
  <2>2. SettingsRead /\ ~serving
    BY <2>1 DEF MainInv
  <2>3. SettingsRead'
    BY <2>1, <2>2 DEF SettingsRead, ConfigFile, Exists
  <2>4. PICK r \in decodeConfiguration(settings) :
          pointer' = [r EXCEPT !.value = IF r.failed THEN Nil ELSE {@}].value
    BY <2>1 DEF decodePtr
  <2>5. ASSUME pointer' # Nil PROVE \E c : pointer' = {c} /\ Decoded(c, settings')
    <3>1. OfValues(settings)
      BY <2>2, SettingsType DEF MainInv
    <3>2. DOMAIN r = {"value", "failed"} /\ (~r.failed => Decoded(r.value, settings))
      BY <3>1, ConfigurationType
    <3>3. ~r.failed
      BY <2>4, <2>5, <3>2
    <3>4. pointer' = {r.value}
      BY <2>4, <3>2, <3>3
    <3> QED
      BY <2>1, <3>2, <3>3, <3>4
  <2> QED
    BY <2>1, <2>2, <2>3, <2>5 DEF MainInv
<1>3. CASE ListenAndServe
  <2>1. phase = "unmarshalled" /\ UNCHANGED <<files, settings, pointer>> /\ ~serving
    BY <1>3 DEF ListenAndServe, MainInv
  <2>2. SettingsRead => SettingsRead'
    BY <2>1 DEF SettingsRead, ConfigFile, Exists
  <2>3. CASE UNCHANGED vars /\ phase' \in {"panicked", "ended"}
    BY <2>1, <2>2, <2>3 DEF MainInv, vars
  <2>4. ASSUME NEW c \in pointer, phase' = "serving", Serve(SizesOf(c), AsSize(c.SizeLimits))
        PROVE  MainInv' /\ Next
    <3>1. Decoded(c, settings)
      BY DEF MainInv, Nil
    <3>2. Next
      BY <2>4, <3>1, ServedType DEF Next
    <3>3. serving' = TRUE /\ loaded'.sizes = SizesOf(c)
      BY <2>4 DEF Serve
    <3> QED
      BY <2>1, <2>2, <2>4, <3>2, <3>3 DEF MainInv
  <2> QED
    BY <1>3, <2>3, <2>4 DEF ListenAndServe
<1>4. ASSUME NEW p \in Procs, Request(p), UNCHANGED mainVars PROVE MainInv' /\ Next
  <2>1. UNCHANGED <<serving, loaded, files, settings, pointer, phase>>
    BY <1>4, ServesOnce DEF mainVars
  <2>2. SettingsRead <=> SettingsRead'
    BY <2>1 DEF SettingsRead, ConfigFile, Exists
  <2>3. MainInv'
    BY <2>1, <2>2 DEF MainInv
  <2> QED
    BY <1>4, <2>3 DEF Next
<1>5. CASE UNCHANGED <<vars, mainVars>>
  <2>1. UNCHANGED <<serving, loaded, files, settings, pointer, phase>> /\ UNCHANGED vars
    BY <1>5 DEF vars, mainVars
  <2>2. SettingsRead <=> SettingsRead'
    BY <2>1 DEF SettingsRead, ConfigFile, Exists
  <2> QED
    BY <2>1, <2>2 DEF MainInv
<1> QED
  BY <1>1, <1>2, <1>3, <1>4, <1>5 DEF MainNext, Main

(***************************************************************************)
(* What main loads is a configuration as the requests' specification       *)
(* assumes it, whatever the file: of each placeholder of a known name a    *)
(* size or none (resizer.go 260-286).  So the theorems about Spec hold of  *)
(* the service that main starts.                                           *)
(***************************************************************************)
THEOREM MainImplementsPlaceholders == MainSpec => Spec
<1>1. MainInit => Init
  BY DEF MainInit
<1> QED
  BY <1>1, MainInvInit, MainStep, PTL DEF MainSpec, Spec

LEMMA MainInvariants == MainSpec => [](MainInv /\ TypeInv /\ HeightInv /\ PanicInv)
<1>1. MainInit => TypeInv /\ HeightInv /\ PanicInv
  <2> SUFFICES ASSUME MainInit PROVE TypeInv /\ HeightInv /\ PanicInv
    OBVIOUS
  <2>1. Init
    BY DEF MainInit
  <2>2. HeightInv /\ PanicInv
    BY <2>1 DEF Init, HeightInv, HeightFromConfiguration, PendingHeights, PanicInv
  <2> QED
    BY <2>1, <2>2, TypeInit
<1> QED
  BY <1>1, MainInvInit, MainStep, TypeStep, HeightStep, PanicStep, PTL DEF MainSpec

(***************************************************************************)
(* Whatever the file and the spellings of its keys, what viper and         *)
(* mapstructure make of it is within the Go types: unsigned integers of    *)
(* their width, Booleans, and sizes or nil pointers for the requests.      *)
(***************************************************************************)
THEOREM ConfigurationAlwaysTyped == MainSpec => []MainTypeOK
<1>1. MainInv /\ TypeInv => MainTypeOK
  <2> SUFFICES ASSUME MainInv, TypeInv PROVE MainTypeOK
    OBVIOUS
  <2>1. ASSUME NEW c \in pointer
        PROVE  /\ {c.Port, c.SizeLimits.Width, c.SizeLimits.Height} \subseteq 0 .. MaxUint
               /\ c.Cacheenabled \in BOOLEAN /\ c.Cachethumbnails \in BOOLEAN
    <3>1. Decoded(c, settings)
      BY DEF MainInv, Nil
    <3> QED
      BY <3>1 DEF Decoded, ByteSize
  <2> QED
    BY <2>1 DEF MainInv, TypeInv, MainTypeOK
<1> QED
  BY <1>1, MainInvariants, PTL

(***************************************************************************)
(* main ignores the error of the decoding (resizer.go 271), but the        *)
(* service never serves with half a configuration: every field of the      *)
(* structure takes a value that the file has for its name, with all the    *)
(* elements of a list.                                                     *)
(***************************************************************************)
THEOREM AlwaysFullyConfigured == MainSpec => []NeverHalfConfigured
<1>1. MainInv => NeverHalfConfigured
  <2> SUFFICES ASSUME MainInv, serving PROVE TakesConfiguration(ConfigFile)
    BY DEF NeverHalfConfigured
  <2>1. PICK c \in pointer : loaded.sizes = SizesOf(c)
    BY DEF MainInv
  <2>2. SettingsRead /\ Decoded(c, settings) /\ files \in Directories
    BY <2>1 DEF MainInv, Nil
  <2>3. \A name : FieldValues(settings, name) \subseteq AnyOf(ConfigFile, name)
    BY <2>2, SettingsType
  <2> QED
    BY <2>2, <2>3 DEF Decoded, TakesConfiguration, PlaceholdersTaken
<1> QED
  BY <1>1, MainInvariants, PTL

(***************************************************************************)
(* A request panics on its size only if the file has a list of             *)
(* placeholders one of which can have that name and has no size, and none  *)
(* before it has that name for certain (utils.go 82-86).                   *)
(***************************************************************************)
THEOREM OnlyUnsizedAlwaysPanic == MainSpec => []OnlyUnsizedPanic
<1>1. MainInv /\ PanicInv => OnlyUnsizedPanic
  <2> SUFFICES ASSUME MainInv, PanicInv, NEW p \in Procs, req[p].at = "panic"
               PROVE  \E list \in Spelt(ConfigFile, "Placeholders") :
                        list.kind = "list" /\ \E i \in DOMAIN list.items :
                          /\ req[p].name \in NamesOf(list.items[i]) /\ Unsized(list.items[i])
                          /\ \A j \in 1 .. i - 1 : NamesOf(list.items[j]) # {req[p].name}
    BY DEF OnlyUnsizedPanic
  <2> DEFINE name == req[p].name
  <2>1. serving /\ name \in DOMAIN loaded.sizes /\ loaded.sizes[name] = NoSize
    BY DEF PanicInv
  <2>2. PICK c \in pointer : loaded.sizes = SizesOf(c)
    BY <2>1 DEF MainInv
  <2>3. SettingsRead /\ Decoded(c, settings) /\ files \in Directories
    BY <2>2 DEF MainInv, Nil
  <2>4. PICK v \in FieldValues(settings, "Placeholders") : PlaceholdersTaken(c.Placeholders, v)
    BY <2>3 DEF Decoded
  <2>5. PICK i : First(c, name, i) /\ c.Placeholders[i].Size = Nil
    BY <2>1, <2>2, <2>4, FirstSize
  <2>6. v.kind = "list"
    BY <2>1, <2>2, <2>4, FirstPlaceholder
  <2>7. v \in Spelt(ConfigFile, "Placeholders")
    <3>1. v \in AnyOf(ConfigFile, "Placeholders")
      BY <2>3, <2>4, SettingsType
    <3> QED
      BY <2>6, <3>1 DEF AnyOf, Null
  <2>8. v.items \in Seq(Values) /\ DOMAIN c.Placeholders = DOMAIN v.items
        /\ \A j \in DOMAIN v.items : PlaceholderTaken(c.Placeholders[j], v.items[j])
    BY <2>4, <2>6 DEF PlaceholdersTaken
  <2>9. i \in DOMAIN v.items /\ name \in NamesOf(v.items[i]) /\ Unsized(v.items[i])
    BY <2>5, <2>8 DEF First, PlaceholderTaken
  <2>10. ASSUME NEW j \in 1 .. i - 1 PROVE NamesOf(v.items[j]) # {name}
    <3>1. j \in DOMAIN v.items /\ j < i
      BY <2>8, <2>9
    <3>2. c.Placeholders[j].Name # name
      BY <2>5, <2>8, <2>9, <3>1 DEF First
    <3> QED
      BY <2>8, <3>1, <3>2 DEF PlaceholderTaken
  <2> QED
    BY <2>6, <2>7, <2>9, <2>10
<1> QED
  BY <1>1, MainInvariants, PTL
=============================================================================
