------------------------ MODULE ParallelResizeProofs ------------------------
(***************************************************************************)
(* Resize scales an image the way its definition says, for any number of   *)
(* goroutines, any order of their steps and images of any dimensions.      *)
(*                                                                         *)
(* The slices of makeSlice share out the rows: each row is in one slice.   *)
(* So the pixel in column x of a row is made from the line read for x when *)
(* the goroutine of that row has passed x, and blank until then.  The      *)
(* WaitGroup counts the goroutines that have not finished; when it is      *)
(* zero, they have passed every column.                                    *)
(***************************************************************************)
EXTENDS ParallelResize, FiniteSetTheorems, TLAPS

-----------------------------------------------------------------------------
(* Arithmetic: quotients, slices, and the samples of a line.               *)
LEMMA Division ==
  ASSUME NEW n \in Nat, NEW d \in Nat \ {0}
  PROVE  n \div d \in Nat /\ (n \div d) * d <= n /\ n < (n \div d + 1) * d
<1> DEFINE q == n \div d
<1>1. q \in Nat /\ n % d \in Nat /\ n = q * d + (n % d) /\ n % d < d
  OBVIOUS
<1>2. (q + 1) * d = q * d + d
  BY <1>1
<1>3. QED
  BY <1>1, <1>2

LEMMA Monotone ==
  ASSUME NEW a \in Nat, NEW b \in Nat, NEW d \in Nat, a <= b
  PROVE  a * d <= b * d
<1>1. PICK e \in Nat : b = a + e
  BY b - a \in Nat, b = a + (b - a)
<1>2. b * d = a * d + e * d /\ e * d \in Nat /\ a * d \in Nat
  BY <1>1
<1>3. QED
  BY <1>2

(* A quotient compared with a number.                                      *)
LEMMA QuotientAtMost ==
  ASSUME NEW n \in Nat, NEW d \in Nat \ {0}, NEW k \in Nat
  PROVE  n \div d <= k <=> n < (k + 1) * d
<1> DEFINE q == n \div d
<1>1. q \in Nat /\ q * d <= n /\ n < (q + 1) * d
  BY Division
<1>2. ASSUME q <= k PROVE n < (k + 1) * d
  <2>1. (q + 1) * d <= (k + 1) * d
    BY <1>1, <1>2, Monotone
  <2>2. (q + 1) * d \in Nat /\ (k + 1) * d \in Nat
    BY <1>1
  <2>3. QED
    BY <1>1, <2>1, <2>2
<1>3. ASSUME k < q PROVE (k + 1) * d <= n
  <2>1. (k + 1) * d <= q * d
    BY <1>1, <1>3, Monotone
  <2>2. q * d \in Nat /\ (k + 1) * d \in Nat
    BY <1>1
  <2>3. QED
    BY <1>1, <2>1, <2>2
<1>4. (k + 1) * d \in Nat
  OBVIOUS
<1>5. QED
  BY <1>1, <1>2, <1>3, <1>4

LEMMA RowOfSlice ==
  ASSUME NEW n \in Nat \ {0}, NEW rows \in Nat, NEW i \in 0 .. n - 1
  PROVE  /\ Slice(i, n, rows) \subseteq Nat
         /\ \A y \in Nat : y \in Slice(i, n, rows) <=>
              i * rows < (y + 1) * n /\ (y + 1) * n <= (i + 1) * rows
<1>1. i * rows \in Nat /\ (i + 1) * rows \in Nat
  OBVIOUS
<1>2. (i * rows) \div n \in Nat /\ ((i + 1) * rows) \div n \in Nat
  BY <1>1, Division
<1>3. ASSUME NEW y \in Nat
      PROVE  y \in Slice(i, n, rows) <=>
               i * rows < (y + 1) * n /\ (y + 1) * n <= (i + 1) * rows
  <2>1. (i * rows) \div n <= y <=> i * rows < (y + 1) * n
    BY <1>1, QuotientAtMost
  <2>2. ((i + 1) * rows) \div n <= y <=> (i + 1) * rows < (y + 1) * n
    BY <1>1, QuotientAtMost
  <2>3. (y + 1) * n \in Nat
    OBVIOUS
  <2>4. QED
    BY <1>1, <1>2, <2>1, <2>2, <2>3 DEF Slice
<1>4. QED
  BY <1>2, <1>3 DEF Slice

(* makeSlice: the slices are in the image, do not overlap, and leave no    *)
(* row out.                                                                *)
LEMMA SlicesShareRows ==
  ASSUME NEW n \in Nat \ {0}, NEW rows \in Nat
  PROVE  /\ \A i \in 0 .. n - 1 : Slice(i, n, rows) \subseteq 0 .. rows - 1
         /\ \A i, j \in 0 .. n - 1, y \in Nat :
              y \in Slice(i, n, rows) /\ y \in Slice(j, n, rows) => i = j
         /\ \A y \in 0 .. rows - 1 : \E i \in 0 .. n - 1 : y \in Slice(i, n, rows)
<1>1. ASSUME NEW i \in 0 .. n - 1, NEW y \in Slice(i, n, rows)
      PROVE  y \in 0 .. rows - 1
  <2>1. y \in Nat /\ (y + 1) * n <= (i + 1) * rows
    BY RowOfSlice
  <2>2. (i + 1) * rows <= n * rows
    BY Monotone
  <2>3. ASSUME rows <= y PROVE FALSE
    <3>1. rows * n <= y * n
      BY <2>1, <2>3, Monotone
    <3>2. (y + 1) * n = y * n + n /\ n * rows = rows * n
      BY <2>1
    <3>3. y * n \in Nat /\ rows * n \in Nat /\ (i + 1) * rows \in Nat
      BY <2>1
    <3>4. QED
      BY <2>1, <2>2, <3>1, <3>2, <3>3
  <2>4. QED
    BY <2>1, <2>3
<1>2. ASSUME NEW i \in 0 .. n - 1, NEW j \in 0 .. n - 1, NEW y \in Nat, i < j,
             y \in Slice(i, n, rows), y \in Slice(j, n, rows)
      PROVE  FALSE
  <2>1. (y + 1) * n <= (i + 1) * rows /\ j * rows < (y + 1) * n
    BY <1>2, RowOfSlice
  <2>2. (i + 1) * rows <= j * rows
    BY <1>2, Monotone
  <2>3. (y + 1) * n \in Nat /\ (i + 1) * rows \in Nat /\ j * rows \in Nat
    OBVIOUS
  <2>4. QED
    BY <2>1, <2>2, <2>3
<1>3. ASSUME NEW y \in 0 .. rows - 1
      PROVE  \E i \in 0 .. n - 1 : y \in Slice(i, n, rows)
  <2> DEFINE m == (y + 1) * n - 1
             i == m \div rows
  <2>1. rows \in Nat \ {0} /\ (y + 1) * n = y * n + n /\ y * n \in Nat
    OBVIOUS
  <2>2. m \in Nat
    BY <2>1
  <2>3. i \in Nat /\ i * rows <= m /\ m < (i + 1) * rows
    BY <2>1, <2>2, Division
  <2>4. i <= n - 1
    <3>1. (y + 1) * n <= rows * n
      BY Monotone
    <3>2. n * rows = rows * n /\ rows * n \in Nat
      OBVIOUS
    <3>3. m < ((n - 1) + 1) * rows
      BY <2>2, <3>1, <3>2
    <3>4. QED
      BY <2>1, <2>2, <3>3, QuotientAtMost
  <2>5. i * rows < (y + 1) * n /\ (y + 1) * n <= (i + 1) * rows
    <3> HIDE DEF i
    <3>1. i * rows \in Nat /\ (i + 1) * rows \in Nat
      BY <2>3
    <3>2. QED
      BY <2>1, <2>2, <2>3, <3>1
  <2>6. y \in Slice(i, n, rows)
    BY <2>3, <2>4, <2>5, RowOfSlice
  <2>7. QED
    BY <2>3, <2>4, <2>6
<1>4. QED
  BY <1>1, <1>2, <1>3, RowOfSlice

(* A scale in use is a positive fraction.                                  *)
Fraction == [num : Nat \ {0}, den : Nat \ {0}]
Picture == [width : Nat \ {0}, height : Nat \ {0}]

LEMMA FactorsAreFractions ==
  ASSUME NEW size \in Size, NEW image \in Picture
  PROVE  LET factors == calcFactors(size.width, size.height, image.width, image.height)
         IN  factors.x \in Fraction /\ factors.y \in Fraction
  BY DEF calcFactors, Factor, Scale, Size, Picture, Fraction

LEMMA SamplesInLine ==
  ASSUME NEW y \in Nat, NEW scale \in Fraction, NEW length \in Nat \ {0}, NEW r
  PROVE  Samples(y, scale, length, r) \subseteq 0 .. length - 1
<1>1. Unit(scale) \in Nat \ {0} /\ InterpX(y, scale) \in Int
  BY DEF Unit, InterpX, Fraction
<1>2. Start(y, scale) \in Int
  <2>1. TowardsZero(InterpX(y, scale), Unit(scale)) \in Int
    BY <1>1 DEF TowardsZero
  <2>2. Ceil(scale) \in Int
    BY DEF Ceil, Fraction
  <2>3. FilterLength(scale) \in Int
    BY <2>2 DEF FilterLength, AtLeastOne
  <2>4. QED
    BY <2>1, <2>3 DEF Start
<1>3. ASSUME NEW i \in Int
      PROVE  Clamp(Start(y, scale) + i, length - 1) \in 0 .. length - 1
  BY <1>2 DEF Clamp
<1>4. QED
  BY <1>3 DEF Samples

LEMMA DimensionType ==
  ASSUME NEW wanted \in Nat, NEW old \in Nat \ {0}, NEW scale \in Fraction,
         NEW d \in Dimension(wanted, old, scale)
  PROVE  d \in Nat
<1>1. CASE wanted > 0
  BY <1>1 DEF Dimension
<1>2. CASE ~(wanted > 0)
  <2> DEFINE n == 10 * old * scale.den + 7 * scale.num
             m == 10 * scale.num
             q == n \div m
  <2>1. n \in Nat /\ m \in Nat \ {0} /\ m > 0
    <3>1. scale.num \in Nat \ {0} /\ scale.den \in Nat \ {0}
      BY DEF Fraction
    <3>2. 10 * old * scale.den \in Nat
      BY <3>1
    <3>3. QED
      BY <3>1, <3>2
  <2>2. q \in Nat /\ n % m \in Nat /\ n = q * m + (n % m)
    <3> HIDE DEF n, m
    <3>1. QED
      BY <2>1
  <2>3. d = q \/ (n > 0 /\ n % m = 0 /\ d = q - 1)
    BY <1>2 DEF Dimension, Truncated
  <2>4. n > 0 /\ n % m = 0 => q # 0
    BY <2>1, <2>2
  <2>5. QED
    BY <2>2, <2>3, <2>4
<1>3. QED
  BY <1>1, <1>2

LEMMA DimensionsType ==
  ASSUME NEW size \in Size, NEW image \in Picture,
         NEW d \in Dimensions(size.width, size.height, image.width, image.height)
  PROVE  d \in Size
  BY FactorsAreFractions, DimensionType DEF Dimensions, Size, Picture

-----------------------------------------------------------------------------
(* The inductive invariant.  Made is what the goroutines write at column x *)
(* of row y in this pass, HalfWay what the first pass leaves there.        *)
Working == at \in {"first", "second"}
Length == IF at = "first" THEN source.width ELSE source.height
Written == IF at = "first" THEN temp ELSE result
Made(x, y) == UNION {Line(x)[c] : c \in Samples(y, weights, Length, rounding)}
HalfWay(x, y) == {<<c, x>> : c \in Samples(y, Factors.x, source.width, rounding)}

ShapeInv ==
  /\ at \in {"called", "first", "second", "returned"}
  /\ source \in Sources /\ asked \in Asked /\ rounding \in Roundings /\ new \in Size
  /\ weights \in [num : Nat, den : Nat]
  /\ temp \in [Pixels(source.height, new.width) -> SUBSET SourcePixels]
  /\ result \in [Pixels(new.width, new.height) -> SUBSET SourcePixels]
  /\ Working => weights = IF at = "first" THEN Factors.x ELSE Factors.y

Running == {i \in Workers : ~Finished(i)}

CountInv ==
  /\ spawned \in 0 .. Cpus /\ wg \in 0 .. Cpus
  /\ column \in [Workers -> Nat]
  /\ Working => wg = Cardinality(Running) /\ \A i \in Workers : column[i] <= Columns + 1

WrittenInv ==
  Working =>
    \A i \in Workers : \A x \in 0 .. Columns - 1, y \in Slice(i, Cpus, Rows) :
      Written[<<x, y>>] = IF x < column[i] THEN Made(x, y) ELSE {}

HalfWayInv ==
  /\ at = "first" => result = Blank(new.width, new.height)
  /\ at = "second" =>
       \A x \in 0 .. source.height - 1, y \in 0 .. new.width - 1 :
         temp[<<x, y>>] = HalfWay(x, y)

IInv == ShapeInv /\ CountInv /\ WrittenInv /\ HalfWayInv /\ ScalesLikeReference

-----------------------------------------------------------------------------
LEMMA Types ==
  ASSUME ShapeInv
  PROVE  /\ source \in Picture /\ asked \in Size /\ new \in Size
         /\ Factors.x \in Fraction /\ Factors.y \in Fraction
         /\ Rows \in Nat /\ Columns \in Nat /\ Length \in Nat \ {0}
<1>1. source \in Picture /\ asked \in Size /\ new \in Size
  BY ResizeAssumption DEF ShapeInv, Picture
<1>2. Factors.x \in Fraction /\ Factors.y \in Fraction
  BY <1>1, FactorsAreFractions DEF Factors
<1>3. Rows \in Nat /\ Columns \in Nat /\ Length \in Nat \ {0}
  BY <1>1 DEF Rows, Columns, Length, Picture, Size
<1>4. QED
  BY <1>1, <1>2, <1>3

LEMMA SampledPixels ==
  ASSUME ShapeInv, Working, NEW y \in Nat
  PROVE  Samples(y, weights, Length, rounding) \subseteq 0 .. Length - 1
  BY Types, SamplesInLine DEF ShapeInv, Working

(* What is written is made from pixels of the source.                      *)
LEMMA MadeFromSource ==
  ASSUME ShapeInv, Working, NEW x \in 0 .. Columns - 1, NEW y \in Nat
  PROVE  Made(x, y) \subseteq SourcePixels
<1>1. Samples(y, weights, Length, rounding) \subseteq 0 .. Length - 1
  BY SampledPixels
<1>2. ASSUME NEW c \in 0 .. Length - 1
      PROVE  Line(x)[c] \subseteq SourcePixels
  <2>1. CASE at = "first"
    BY <1>2, <2>1 DEF Line, Length, Columns, SourcePixels, Pixels
  <2>2. CASE at = "second"
    <3>1. <<c, x>> \in Pixels(source.height, new.width)
      BY <1>2, <2>2 DEF Length, Columns, Pixels
    <3>2. Line(x)[c] = temp[<<c, x>>]
      BY <1>2, <2>2 DEF Line, Length
    <3>3. QED
      BY <3>1, <3>2 DEF ShapeInv
  <2>3. QED
    BY <2>1, <2>2 DEF Working
<1>3. QED
  BY <1>1, <1>2 DEF Made

LEMMA MadeStays ==
  ASSUME Working, UNCHANGED <<at, source, rounding, new, weights>>,
         at = "second" => UNCHANGED temp, NEW x, NEW y
  PROVE  Made(x, y)' = Made(x, y)
<1>1. Line(x)' = Line(x) /\ Length' = Length
  BY DEF Line, Length, Working
<1>2. QED
  BY <1>1 DEF Made

(* A goroutine writes the pixels of one column of its slice.               *)
LEMMA ScaledPixels ==
  ASSUME Working, NEW i \in Workers, NEW image
  PROVE  /\ DOMAIN Scaled(image, i) = DOMAIN image
         /\ Scaled(image, i) \in [DOMAIN image -> {Scaled(image, i)[p] : p \in DOMAIN image}]
         /\ \A p \in DOMAIN image : Scaled(image, i)[p] =
              IF p[1] = column[i] /\ p[2] \in Slice(i, Cpus, Rows)
                THEN Made(column[i], p[2]) ELSE image[p]
  BY DEF Scaled, Made, Length

LEMMA SlicesOfRows ==
  ASSUME ShapeInv
  PROVE  /\ \A i \in Workers : Slice(i, Cpus, Rows) \subseteq 0 .. Rows - 1
         /\ \A i, j \in Workers, y \in Nat :
              y \in Slice(i, Cpus, Rows) /\ y \in Slice(j, Cpus, Rows) => i = j
         /\ \A y \in 0 .. Rows - 1 : \E i \in Workers : y \in Slice(i, Cpus, Rows)
  BY Types, SlicesShareRows, ResizeAssumption DEF Workers

(* The image written in this pass.                                         *)
LEMMA WrittenType ==
  ASSUME ShapeInv, Working
  PROVE  Written \in [Pixels(Columns, Rows) -> SUBSET SourcePixels]
  BY DEF ShapeInv, Working, Written, Columns, Rows

LEMMA WorkersCounted == IsFiniteSet(Workers) /\ Cardinality(Workers) = Cpus
  BY ResizeAssumption, FS_Interval DEF Workers

-----------------------------------------------------------------------------
LEMMA InvInit == Init => IInv
<1> SUFFICES ASSUME Init
             PROVE  IInv
  OBVIOUS
<1>1. source \in Picture /\ Cpus \in Nat \ {0}
  BY ResizeAssumption DEF Init, Picture
<1>2. ShapeInv
  BY <1>1 DEF Init, ShapeInv, Working, Size, Scale, Blank, Pixels, SourcePixels, Picture
<1>3. CountInv
  BY <1>1 DEF Init, CountInv, Working, Workers
<1>4. WrittenInv /\ HalfWayInv /\ ScalesLikeReference
  BY DEF Init, WrittenInv, HalfWayInv, Working, ScalesLikeReference
<1>5. QED
  BY <1>2, <1>3, <1>4 DEF IInv

(* A pass begins with every goroutine before the first column.             *)
LEMMA PassBegins ==
  ASSUME NEW pass \in {"first", "second"}, NEW scale, BeginPass(pass, scale), ShapeInv',
         Written' = Blank(Columns', Rows')
  PROVE  CountInv' /\ WrittenInv'
<1>1. /\ at' = pass /\ spawned' = 0 /\ wg' = Cpus /\ column' = [i \in Workers |-> 0]
      /\ Cpus \in Nat \ {0}
  BY ResizeAssumption DEF BeginPass
<1>2. Rows' \in Nat /\ Columns' \in Nat
  <2>1. source' \in Picture /\ new' \in Size
    BY ResizeAssumption DEF ShapeInv, Picture
  <2>2. QED
    BY <2>1 DEF Rows, Columns, Picture, Size
<1>3. CountInv'
  <2> DEFINE n == Columns'
  <2>1. \A i \in Workers : column'[i] = 0 /\ 0 # n + 1 /\ 0 <= n + 1
    <3>1. \A i \in Workers : column'[i] = 0
      BY <1>1
    <3>2. n \in Nat
      BY <1>2
    <3> HIDE DEF n
    <3>3. 0 # n + 1 /\ 0 <= n + 1
      BY <3>2
    <3>4. QED
      BY <3>1, <3>3
  <2>2. Running' = Workers
    BY <2>1 DEF Running, Finished
  <2>3. QED
    BY <1>1, <2>1, <2>2, WorkersCounted DEF CountInv
<1>4. WrittenInv'
  <2> SUFFICES ASSUME NEW i \in Workers, NEW x \in 0 .. Columns' - 1,
                      NEW y \in Slice(i, Cpus, Rows')
               PROVE  Written'[<<x, y>>] = {} /\ ~(x < column'[i])
    BY DEF WrittenInv
  <2>1. y \in 0 .. Rows' - 1
    BY <1>1, <1>2, SlicesShareRows DEF Workers
  <2>2. <<x, y>> \in Pixels(Columns', Rows')
    BY <2>1 DEF Pixels
  <2>3. QED
    BY <1>1, <2>2 DEF Blank
<1>5. QED
  BY <1>3, <1>4

LEMMA ResizeKeeps == ASSUME IInv, Resize PROVE IInv'
<1>1. ShapeInv /\ at = "called" /\ UNCHANGED <<source, asked, rounding>>
  BY DEF IInv, Resize
<1>2. source \in Picture /\ asked \in Size /\ Factors.x \in Fraction
  BY <1>1, Types
<1>3. PICK size \in Dimensions(asked.width, asked.height, source.width, source.height) :
        /\ new' = size
        /\ temp' = Blank(source.height, size.width)
        /\ IF size = source
             THEN /\ at' = "returned" /\ result' = Original
                  /\ UNCHANGED <<weights, spawned, column, wg>>
             ELSE result' = Blank(size.width, size.height) /\ BeginPass("first", Factors.x)
  BY DEF Resize
<1>4. size \in Size
  BY <1>2, DimensionsType
<1>5. temp' \in [Pixels(source.height, new'.width) -> SUBSET SourcePixels']
  BY <1>1, <1>3 DEF Blank, SourcePixels
<1>6. CASE size = source
  <2>1. result' \in [Pixels(new'.width, new'.height) -> SUBSET SourcePixels']
    BY <1>1, <1>3, <1>6 DEF Original, SourcePixels
  <2>2. at' = "returned" /\ UNCHANGED <<weights, spawned, column, wg>> /\ new' = source'
    BY <1>1, <1>3, <1>6
  <2>3. ShapeInv'
    BY <1>1, <1>3, <1>4, <1>5, <2>1, <2>2 DEF ShapeInv, Working
  <2>4. CountInv'
    BY <2>2 DEF IInv, CountInv, Working
  <2>5. QED
    BY <2>2, <2>3, <2>4 DEF IInv, WrittenInv, HalfWayInv, ScalesLikeReference, Working
<1>7. CASE size # source
  <2>1. result' = Blank(new'.width, new'.height) /\ BeginPass("first", Factors.x)
    BY <1>3, <1>7
  <2>2. at' = "first" /\ weights' = Factors.x /\ Factors' = Factors
    BY <1>1, <2>1 DEF BeginPass, Factors
  <2>3. result' \in [Pixels(new'.width, new'.height) -> SUBSET SourcePixels']
    BY <2>1 DEF Blank
  <2>4. ShapeInv'
    BY <1>1, <1>2, <1>3, <1>4, <1>5, <2>2, <2>3 DEF ShapeInv, Working, Fraction
  <2>5. Written' = Blank(Columns', Rows')
    BY <1>1, <1>3, <2>2 DEF Written, Columns, Rows
  <2>6. CountInv' /\ WrittenInv'
    BY <2>1, <2>4, <2>5, PassBegins
  <2>7. QED
    BY <2>1, <2>2, <2>4, <2>6 DEF IInv, HalfWayInv, ScalesLikeReference
<1>8. QED
  BY <1>6, <1>7

LEMMA ColumnKeeps == ASSUME IInv, NEW i \in Workers, Column(i) PROVE IInv'
<1> DEFINE x0 == column[i]
<1>1. /\ ShapeInv /\ CountInv /\ WrittenInv /\ HalfWayInv /\ Working
      /\ x0 \in Nat /\ x0 < Columns /\ column' = [column EXCEPT ![i] = x0 + 1]
      /\ UNCHANGED <<at, source, asked, rounding, new, weights, spawned, wg>>
      /\ IF at = "first" THEN temp' = Scaled(temp, i) /\ UNCHANGED result
                         ELSE result' = Scaled(result, i) /\ UNCHANGED temp
  BY DEF IInv, Column, Unfinished, Working, CountInv
<1>2. /\ Rows \in Nat /\ Columns \in Nat
      /\ Rows' = Rows /\ Columns' = Columns /\ SourcePixels' = SourcePixels
      /\ Written' = Scaled(Written, i)
  BY <1>1, Types DEF Rows, Columns, SourcePixels, Written
<1>3. /\ DOMAIN Written = Pixels(Columns, Rows)
      /\ Written \in [Pixels(Columns, Rows) -> SUBSET SourcePixels]
  BY <1>1, WrittenType
<1>4. /\ DOMAIN Written' = Pixels(Columns, Rows)
      /\ \A p \in Pixels(Columns, Rows) : Written'[p] =
           IF p[1] = x0 /\ p[2] \in Slice(i, Cpus, Rows)
             THEN Made(x0, p[2]) ELSE Written[p]
  BY <1>1, <1>2, <1>3, ScaledPixels
<1>5. Written' \in [Pixels(Columns, Rows) -> SUBSET SourcePixels]
  <2>1. ASSUME NEW p \in Pixels(Columns, Rows)
        PROVE  Written'[p] \subseteq SourcePixels
    <3>1. p[2] \in Nat /\ Written[p] \subseteq SourcePixels
      BY <1>2, <1>3 DEF Pixels
    <3>2. Made(x0, p[2]) \subseteq SourcePixels
      BY <1>1, <1>2, <3>1, MadeFromSource
    <3>3. QED
      BY <1>4, <3>1, <3>2
  <2>2. Written' \in [DOMAIN Written -> {Written'[p] : p \in DOMAIN Written}]
    BY <1>1, <1>2, ScaledPixels
  <2>3. QED
    BY <1>3, <2>1, <2>2
<1>6. ShapeInv'
  <2>1. CASE at = "first"
    BY <1>1, <1>2, <1>5, <2>1 DEF ShapeInv, Written, Rows, Columns, Working, Factors
  <2>2. CASE at = "second"
    BY <1>1, <1>2, <1>5, <2>2 DEF ShapeInv, Written, Rows, Columns, Working, Factors
  <2>3. QED
    BY <1>1, <2>1, <2>2 DEF Working
<1>7. CountInv'
  <2>1. \A j \in Workers : column'[j] \in Nat /\ column'[j] <= Columns + 1
                           /\ (column'[j] = Columns + 1 <=> column[j] = Columns + 1)
    BY <1>1, <1>2 DEF CountInv
  <2>2. Running' = Running
    BY <1>2, <2>1 DEF Running, Finished
  <2>3. column' \in [Workers -> Nat]
    BY <1>1 DEF CountInv
  <2>4. QED
    BY <1>1, <1>2, <2>1, <2>2, <2>3 DEF CountInv, Working
<1>8. WrittenInv'
  <2> SUFFICES ASSUME NEW j \in Workers, NEW x \in 0 .. Columns - 1,
                      NEW y \in Slice(j, Cpus, Rows)
               PROVE  Written'[<<x, y>>] = IF x < column'[j] THEN Made(x, y)' ELSE {}
    BY <1>2 DEF WrittenInv
  <2>1. y \in 0 .. Rows - 1 /\ y \in Nat
    BY <1>1, <1>2, SlicesOfRows
  <2>2. <<x, y>> \in Pixels(Columns, Rows)
    BY <2>1 DEF Pixels
  <2>3. Written'[<<x, y>>] = IF x = x0 /\ y \in Slice(i, Cpus, Rows)
                               THEN Made(x0, y) ELSE Written[<<x, y>>]
    BY <1>4, <2>2
  <2>4. Written[<<x, y>>] = IF x < column[j] THEN Made(x, y) ELSE {}
    BY <1>1 DEF WrittenInv
  <2>5. Made(x, y)' = Made(x, y)
    BY <1>1, MadeStays
  <2>6. column[j] \in Nat
    BY <1>1 DEF CountInv
  <2>7. CASE j = i
    <3>1. column'[j] = x0 + 1
      BY <1>1, <2>7 DEF CountInv
    <3>2. CASE x = x0
      BY <1>1, <2>3, <2>5, <2>7, <3>1, <3>2
    <3>3. CASE x # x0
      <4>1. x < column'[j] <=> x < column[j]
        BY <1>1, <2>7, <3>1, <3>3
      <4>2. QED
        BY <2>3, <2>4, <2>5, <3>3, <4>1
    <3>4. QED
      BY <3>2, <3>3
  <2>8. CASE j # i
    <3>1. y \notin Slice(i, Cpus, Rows)
      BY <1>1, <2>1, <2>8, SlicesOfRows
    <3>2. column'[j] = column[j]
      BY <1>1, <2>8 DEF CountInv
    <3>3. QED
      BY <2>3, <2>4, <2>5, <3>1, <3>2
  <2>9. QED
    BY <2>7, <2>8
<1>9. HalfWayInv' /\ ScalesLikeReference'
  BY <1>1 DEF HalfWayInv, HalfWay, Factors, Working, ScalesLikeReference
<1>10. QED
  BY <1>6, <1>7, <1>8, <1>9 DEF IInv

LEMMA DoneKeeps == ASSUME IInv, NEW i \in Workers, Done(i) PROVE IInv'
<1>1. /\ ShapeInv /\ CountInv /\ WrittenInv /\ HalfWayInv /\ Working
      /\ ~Finished(i) /\ (column[i] < Columns => Slice(i, Cpus, Rows) = {})
      /\ column' = [column EXCEPT ![i] = Columns + 1] /\ wg' = wg - 1
      /\ UNCHANGED <<at, source, asked, rounding, new, weights, temp, result, spawned>>
  BY DEF IInv, Done, Unfinished, Working
<1>2. /\ Rows \in Nat /\ Columns \in Nat
      /\ Rows' = Rows /\ Columns' = Columns /\ Written' = Written
      /\ column \in [Workers -> Nat] /\ column[i] \in Nat /\ column[i] <= Columns
  BY <1>1, Types DEF Rows, Columns, Written, CountInv, Finished
<1>3. ShapeInv'
  BY <1>1 DEF ShapeInv, Working, SourcePixels, Factors
<1>4. CountInv'
  <2>1. \A j \in Workers : /\ column'[j] = IF j = i THEN Columns + 1 ELSE column[j]
                           /\ column'[j] <= Columns + 1
    BY <1>1, <1>2 DEF CountInv
  <2>2. Running' = Running \ {i} /\ i \in Running /\ Running \subseteq Workers
    BY <1>1, <1>2, <2>1 DEF Running, Finished
  <2>3. IsFiniteSet(Running)
    BY <2>2, WorkersCounted, FS_Subset
  <2>4. Cardinality(Running') = Cardinality(Running) - 1 /\ Cardinality(Running) \in Nat
    BY <2>2, <2>3, FS_RemoveElement, FS_CardinalityType
  <2>5. wg = Cardinality(Running) /\ wg \in 0 .. Cpus
    BY <1>1 DEF CountInv
  <2>6. Cardinality(Running) # 0
    BY <2>2, <2>3, FS_EmptySet
  <2>7. wg' = Cardinality(Running') /\ wg' \in 0 .. Cpus
    BY <1>1, <2>4, <2>5, <2>6, ResizeAssumption
  <2>8. QED
    BY <1>1, <1>2, <2>1, <2>7 DEF CountInv, Working
<1>5. WrittenInv'
  <2> SUFFICES ASSUME NEW j \in Workers, NEW x \in 0 .. Columns - 1,
                      NEW y \in Slice(j, Cpus, Rows)
               PROVE  Written[<<x, y>>] = IF x < column'[j] THEN Made(x, y)' ELSE {}
    BY <1>2 DEF WrittenInv
  <2>1. Written[<<x, y>>] = IF x < column[j] THEN Made(x, y) ELSE {}
    BY <1>1 DEF WrittenInv
  <2>2. Made(x, y)' = Made(x, y)
    BY <1>1, MadeStays
  <2>3. x < column'[j] <=> x < column[j]
    BY <1>1, <1>2
  <2>4. QED
    BY <2>1, <2>2, <2>3
<1>6. HalfWayInv' /\ ScalesLikeReference'
  BY <1>1 DEF HalfWayInv, HalfWay, Factors, Working, ScalesLikeReference
<1>7. QED
  BY <1>3, <1>4, <1>5, <1>6 DEF IInv

-----------------------------------------------------------------------------
(* The WaitGroup is at zero: every pixel of the pass has been made.        *)
LEMMA PassIsOver ==
  ASSUME IInv, Working, Waited, NEW x \in 0 .. Columns - 1, NEW y \in 0 .. Rows - 1
  PROVE  Written[<<x, y>>] = Made(x, y)
<1>1. PICK i \in Workers : y \in Slice(i, Cpus, Rows)
  BY SlicesOfRows DEF IInv
<1>2. Running = {}
  <2>1. Running \subseteq Workers
    BY DEF Running
  <2>2. IsFiniteSet(Running)
    BY <2>1, WorkersCounted, FS_Subset
  <2>3. Cardinality(Running) = 0
    BY DEF IInv, CountInv, Waited
  <2>4. QED
    BY <2>2, <2>3, FS_EmptySet
<1>3. column[i] = Columns + 1
  BY <1>2 DEF Running, Finished
<1>4. x < column[i]
  BY <1>3, Types DEF IInv
<1>5. QED
  BY <1>1, <1>4 DEF IInv, WrittenInv

LEMMA FirstPassHalves ==
  ASSUME ShapeInv, at = "first", NEW x, NEW y \in Nat
  PROVE  Made(x, y) = HalfWay(x, y)
<1>1. weights = Factors.x /\ Length = source.width
  BY DEF ShapeInv, Working, Length
<1>2. Samples(y, Factors.x, source.width, rounding) \subseteq 0 .. source.width - 1
  BY <1>1, SampledPixels DEF Working
<1>3. \A c \in 0 .. source.width - 1 : Line(x)[c] = {<<c, x>>}
  BY DEF Line
<1>4. QED
  BY <1>1, <1>2, <1>3 DEF Made, HalfWay

LEMMA SecondPassCompletes ==
  ASSUME ShapeInv, HalfWayInv, at = "second",
         NEW x \in 0 .. new.width - 1, NEW y \in Nat
  PROVE  Made(x, y) = Samples(x, Factors.x, source.width, rounding)
                        \X Samples(y, Factors.y, source.height, rounding)
<1>1. weights = Factors.y /\ Length = source.height
  BY DEF ShapeInv, Working, Length
<1>2. Samples(y, Factors.y, source.height, rounding) \subseteq 0 .. source.height - 1
  BY <1>1, SampledPixels DEF Working
<1>3. \A c \in 0 .. source.height - 1 :
        Line(x)[c] = {<<a, c>> : a \in Samples(x, Factors.x, source.width, rounding)}
  <2>1. \A c \in 0 .. source.height - 1 : Line(x)[c] = temp[<<c, x>>]
    BY DEF Line
  <2>2. \A c \in 0 .. source.height - 1 : temp[<<c, x>>] = HalfWay(c, x)
    BY DEF HalfWayInv
  <2>3. QED
    BY <2>1, <2>2 DEF HalfWay
<1>4. Made(x, y) = UNION {{<<a, c>> : a \in Samples(x, Factors.x, source.width, rounding)} :
                            c \in Samples(y, Factors.y, source.height, rounding)}
  BY <1>1, <1>2, <1>3 DEF Made
<1>5. QED
  BY <1>4

LEMMA SecondPassKeeps == ASSUME IInv, SecondPass PROVE IInv'
<1>1. /\ ShapeInv /\ HalfWayInv /\ at = "first" /\ Working /\ Waited
      /\ UNCHANGED <<source, asked, rounding, new, temp, result>>
      /\ BeginPass("second", Factors.y)
  BY DEF IInv, SecondPass, Working
<1>2. at' = "second" /\ weights' = Factors.y
  BY <1>1 DEF BeginPass
<1>3. Factors.y \in Fraction /\ Columns \in Nat /\ Rows \in Nat
  BY <1>1, Types
<1>4. ShapeInv'
  BY <1>1, <1>2, <1>3 DEF ShapeInv, Working, SourcePixels, Factors, Fraction
<1>5. Written' = Blank(Columns', Rows')
  BY <1>1, <1>2 DEF Written, Columns, Rows, HalfWayInv
<1>6. CountInv' /\ WrittenInv'
  BY <1>1, <1>4, <1>5, PassBegins
<1>7. HalfWayInv'
  <2>1. ASSUME NEW x \in 0 .. source.height - 1, NEW y \in 0 .. new.width - 1
        PROVE  temp[<<x, y>>] = HalfWay(x, y)
    <3>1. Columns = source.height /\ Rows = new.width /\ Written = temp /\ y \in Nat
      BY <1>1 DEF Columns, Rows, Written
    <3>2. temp[<<x, y>>] = Made(x, y)
      BY <1>1, <3>1, PassIsOver
    <3>3. QED
      BY <1>1, <3>1, <3>2, FirstPassHalves
  <2>2. \A x, y : HalfWay(x, y)' = HalfWay(x, y)
    BY <1>1 DEF HalfWay, Factors
  <2>3. QED
    BY <1>1, <1>2, <2>1, <2>2 DEF HalfWayInv
<1>8. QED
  BY <1>2, <1>4, <1>6, <1>7 DEF IInv, ScalesLikeReference

LEMMA ReturnKeeps == ASSUME IInv, Return PROVE IInv'
<1>1. /\ ShapeInv /\ HalfWayInv /\ CountInv /\ at = "second" /\ Working /\ Waited
      /\ at' = "returned"
      /\ UNCHANGED <<source, asked, rounding, new, weights, temp, result, spawned, column, wg>>
  BY DEF IInv, Return, Working
<1>2. ASSUME NEW x \in 0 .. new.width - 1, NEW y \in 0 .. new.height - 1
      PROVE  result[<<x, y>>] = Reference[<<x, y>>]
  <2>1. Columns = new.width /\ Rows = new.height /\ Written = result /\ y \in Nat
    BY <1>1 DEF Columns, Rows, Written
  <2>2. result[<<x, y>>] = Made(x, y)
    BY <1>1, <2>1, PassIsOver
  <2>3. <<x, y>> \in Pixels(new.width, new.height)
    BY DEF Pixels
  <2>4. QED
    BY <1>1, <2>1, <2>2, <2>3, SecondPassCompletes DEF Reference
<1>3. result = Reference
  <2>1. \A p \in Pixels(new.width, new.height) : result[p] = Reference[p]
    BY <1>2 DEF Pixels
  <2>2. result \in [Pixels(new.width, new.height) -> SUBSET SourcePixels]
    BY <1>1 DEF ShapeInv
  <2>3. QED
    BY <2>1, <2>2 DEF Reference
<1>4. Reference' = Reference
  BY <1>1 DEF Reference, Factors
<1>5. ShapeInv' /\ CountInv'
  BY <1>1 DEF ShapeInv, CountInv, Working, SourcePixels
<1>6. QED
  BY <1>1, <1>3, <1>4, <1>5 DEF IInv, WrittenInv, HalfWayInv, Working, ScalesLikeReference

LEMMA InvNext == ASSUME IInv, [Next]_vars PROVE IInv'
<1>1. ASSUME spawned' \in 0 .. Cpus,
             UNCHANGED <<at, source, asked, rounding, new, weights, temp, result, column, wg>>
      PROVE  IInv'
  <2>1. /\ UNCHANGED Working /\ UNCHANGED SourcePixels /\ UNCHANGED Factors
        /\ UNCHANGED Rows /\ UNCHANGED Columns /\ UNCHANGED Written
        /\ UNCHANGED Running /\ UNCHANGED Reference
    BY <1>1 DEF Working, SourcePixels, Factors, Rows, Columns, Written, Running, Finished,
                Reference
  <2>2. \A x, y : Made(x, y)' = Made(x, y) /\ HalfWay(x, y)' = HalfWay(x, y)
    BY <1>1 DEF Made, Line, Length, HalfWay, Factors
  <2>3. ShapeInv'
    BY <1>1, <2>1 DEF IInv, ShapeInv
  <2>4. CountInv'
    BY <1>1, <2>1 DEF IInv, CountInv
  <2>5. WrittenInv'
    BY <1>1, <2>1, <2>2 DEF IInv, WrittenInv
  <2>6. HalfWayInv' /\ ScalesLikeReference'
    BY <1>1, <2>1, <2>2 DEF IInv, HalfWayInv, ScalesLikeReference
  <2>7. QED
    BY <2>3, <2>4, <2>5, <2>6 DEF IInv
<1>2. CASE UNCHANGED vars
  BY <1>1, <1>2 DEF vars, IInv, CountInv
<1>3. CASE Spawn
  BY <1>1, <1>3, ResizeAssumption DEF Spawn, IInv, CountInv
<1>4. QED
  BY <1>2, <1>3, ResizeKeeps, SecondPassKeeps, ReturnKeeps, ColumnKeeps, DoneKeeps
     DEF Next, Caller, Worker

LEMMA Invariant == Spec => []IInv
<1>1. IInv /\ [Next]_vars => IInv'
  BY InvNext
<1>2. QED
  BY <1>1, InvInit, PTL DEF Spec

(* Pixels, images and counters stay what they are declared to be: every    *)
(* pixel, of both images and at every moment, is made from pixels of the   *)
(* source only.                                                            *)
THEOREM TypeCorrect == Spec => []TypeOK
<1>1. IInv => TypeOK
  BY DEF IInv, ShapeInv, CountInv, TypeOK
<1>2. QED
  BY <1>1, Invariant, PTL

(* The picture returned is the one scaled in both directions, by           *)
(* definition, whatever the number of goroutines and their interleaving.   *)
THEOREM AlwaysScalesLikeReference == Spec => []ScalesLikeReference
<1>1. IInv => ScalesLikeReference
  BY DEF IInv
<1>2. QED
  BY <1>1, Invariant, PTL

(* No goroutine writes where another one has written, or twice.            *)
THEOREM PixelsAlwaysWrittenOnce == Spec => PixelsWrittenOnce
<1> DEFINE Once == \A i \in Workers : Column(i) =>
                     \A y \in Slice(i, Cpus, Rows) :
                       (IF at = "first" THEN temp ELSE result)[<<column[i], y>>] = {}
<1>1. IInv => Once
  <2> SUFFICES ASSUME IInv, NEW i \in Workers, Column(i), NEW y \in Slice(i, Cpus, Rows)
               PROVE  Written[<<column[i], y>>] = {}
    BY DEF Written
  <2>1. Working /\ column[i] \in Nat /\ column[i] < Columns /\ Columns \in Nat
    BY Types DEF Column, Unfinished, Working, IInv, CountInv
  <2>2. column[i] \in 0 .. Columns - 1
    BY <2>1
  <2>3. QED
    BY <2>1, <2>2 DEF IInv, WrittenInv
<1>2. IInv => [Once]_vars
  BY <1>1
<1>3. QED
  BY <1>2, Invariant, PTL DEF PixelsWrittenOnce

-----------------------------------------------------------------------------
(***************************************************************************)
(* Why Resize returns.  Somebody can always go on: the first conjunct of   *)
(* each disjunct is where, the rest is what its step waits for.  And what  *)
(* is left to do gets less with each step: the goroutines to start, and    *)
(* the columns, with the deferred Done, that each has before it.           *)
(***************************************************************************)
SomebodyGoesOn ==
  \/ at = "called" /\ Dimensions(asked.width, asked.height, source.width, source.height) # {}
  \/ Working /\ (spawned < Cpus \/ Waited)
  \/ Working /\ \E i \in Workers : i < spawned /\ ~Finished(i)

Left == {task \in Workers \X (0 .. Columns) : column[task[1]] <= task[2]}
StepsLeft == Cardinality(Left) + (Cpus - spawned)

PassesLeft == CASE at = "called" -> 3 [] at = "first" -> 2 [] at = "second" -> 1 [] OTHER -> 0

GetsLess ==
  \/ PassesLeft' < PassesLeft
  \/ PassesLeft' = PassesLeft /\ StepsLeft' < StepsLeft

LEMMA DimensionsExist ==
  ASSUME NEW size \in Size, NEW image \in Picture
  PROVE  Dimensions(size.width, size.height, image.width, image.height) # {}
<1> DEFINE scale == calcFactors(size.width, size.height, image.width, image.height)
<1>1. \A wanted, old, s : Dimension(wanted, old, s) # {}
  BY DEF Dimension, Truncated
<1>2. PICK w : w \in Dimension(size.width, image.width, scale.x)
  BY <1>1
<1>3. PICK h : h \in Dimension(size.height, image.height, scale.y)
  BY <1>1
<1>4. [width |-> w, height |-> h]
        \in Dimensions(size.width, size.height, image.width, image.height)
  BY <1>2, <1>3 DEF Dimensions
<1>5. QED
  BY <1>4

(* Nobody waits for ever: the WaitGroup is above zero only as long as a    *)
(* goroutine has yet to count itself out.                                  *)
LEMMA GoesOn == ASSUME IInv, at # "returned" PROVE SomebodyGoesOn
<1>1. at = "called" \/ Working
  BY DEF IInv, ShapeInv, Working
<1>2. CASE at = "called"
  BY <1>2, Types, DimensionsExist DEF IInv, SomebodyGoesOn
<1>3. CASE Working /\ spawned = Cpus /\ wg # 0
  <2>1. Running # {}
    BY <1>3, FS_EmptySet DEF IInv, CountInv
  <2>2. PICK i \in Workers : ~Finished(i)
    BY <2>1 DEF Running
  <2>3. i < spawned
    BY <1>3, ResizeAssumption DEF Workers
  <2>4. QED
    BY <1>3, <2>2, <2>3 DEF SomebodyGoesOn
<1>4. CASE Working /\ (spawned # Cpus \/ wg = 0)
  BY <1>4, ResizeAssumption DEF IInv, CountInv, SomebodyGoesOn, Waited
<1>5. QED
  BY <1>1, <1>2, <1>3, <1>4

LEMMA LeftIsFinite == ASSUME IInv PROVE IsFiniteSet(Left) /\ Cardinality(Left) \in Nat
<1>1. Columns \in Nat
  BY Types DEF IInv
<1>2. IsFiniteSet(Workers \X (0 .. Columns))
  <2>1. IsFiniteSet(0 .. Columns)
    BY <1>1, FS_Interval
  <2>2. IsFiniteSet(Workers)
    BY WorkersCounted
  <2>3. QED
    BY ONLY <2>1, <2>2, FS_Product
<1>3. Left \subseteq Workers \X (0 .. Columns)
  BY DEF Left
<1>4. IsFiniteSet(Left)
  BY <1>2, <1>3, FS_Subset
<1>5. QED
  BY <1>4, FS_CardinalityType

LEMMA StepsLeftType == ASSUME IInv PROVE StepsLeft \in Nat
  BY LeftIsFinite, ResizeAssumption DEF IInv, CountInv, StepsLeft

(* A goroutine that moves on leaves behind the columns it has passed.      *)
LEMMA LeftGetsLess ==
  ASSUME IInv, NEW i \in Workers, column[i] <= Columns,
         NEW next \in Nat, column[i] < next, column' = [column EXCEPT ![i] = next],
         UNCHANGED <<at, source, new, spawned>>
  PROVE  GetsLess
<1>1. /\ Columns' = Columns /\ Columns \in Nat
      /\ column \in [Workers -> Nat] /\ column[i] \in Nat
  BY Types DEF Columns, IInv, CountInv
<1>2. /\ Left' \subseteq Left \ {<<i, column[i]>>}
      /\ <<i, column[i]>> \in Left
  <2>1. ASSUME NEW task \in Left'
        PROVE  task \in Left /\ task # <<i, column[i]>>
    <3>1. task \in Workers \X (0 .. Columns) /\ column'[task[1]] <= task[2]
      BY <1>1 DEF Left
    <3>2. PICK j \in Workers, c \in 0 .. Columns : task = <<j, c>>
      BY <3>1
    <3>3. column'[j] <= c
      BY <3>1, <3>2
    <3>4. column[j] <= c /\ (j = i => c # column[i])
      BY <1>1, <3>3
    <3>5. QED
      BY <3>2, <3>4 DEF Left
  <2>2. <<i, column[i]>> \in Left
    BY <1>1 DEF Left
  <2>3. QED
    BY <2>1, <2>2
<1>3. Cardinality(Left') < Cardinality(Left) /\ Cardinality(Left') \in Nat
  <2>1. IsFiniteSet(Left) /\ Cardinality(Left) \in Nat
    BY LeftIsFinite
  <2>2. /\ Cardinality(Left \ {<<i, column[i]>>}) = Cardinality(Left) - 1
        /\ IsFiniteSet(Left \ {<<i, column[i]>>})
    BY <1>2, <2>1, FS_RemoveElement, FS_Subset
  <2>3. IsFiniteSet(Left') /\ Cardinality(Left') <= Cardinality(Left) - 1
    BY <1>2, <2>2, FS_Subset
  <2>4. Cardinality(Left') \in Nat
    BY <2>3, FS_CardinalityType
  <2>5. QED
    BY <2>1, <2>3, <2>4
<1>4. PassesLeft' = PassesLeft
  BY DEF PassesLeft
<1>5. StepsLeft' < StepsLeft
  BY <1>3, LeftIsFinite, ResizeAssumption DEF StepsLeft, IInv, CountInv
<1>6. QED
  BY <1>4, <1>5 DEF GetsLess

LEMMA GetsLessNext == IInv /\ Next => GetsLess
<1> SUFFICES ASSUME IInv, Next
             PROVE  GetsLess
  OBVIOUS
<1>1. Columns \in Nat /\ column \in [Workers -> Nat]
  BY Types DEF IInv, CountInv
<1>2. CASE Resize
  BY <1>2 DEF Resize, BeginPass, PassesLeft, GetsLess
<1>3. CASE Spawn
  <2>1. Left' = Left /\ PassesLeft' = PassesLeft
    BY <1>3 DEF Spawn, Left, Columns, PassesLeft
  <2>2. spawned \in Nat /\ spawned' = spawned + 1
    BY <1>3 DEF Spawn, IInv, CountInv
  <2>3. QED
    BY <2>1, <2>2, LeftIsFinite, ResizeAssumption DEF StepsLeft, GetsLess
<1>4. CASE SecondPass \/ Return
  BY <1>4 DEF SecondPass, Return, BeginPass, PassesLeft, GetsLess
<1>5. ASSUME NEW i \in Workers, Column(i)
      PROVE  GetsLess
  <2>1. /\ column[i] \in Nat /\ column[i] < Columns
        /\ column' = [column EXCEPT ![i] = column[i] + 1]
        /\ UNCHANGED <<at, source, new, spawned>>
    BY <1>1, <1>5 DEF Column, Unfinished
  <2>2. column[i] <= Columns /\ column[i] < column[i] + 1 /\ column[i] + 1 \in Nat
    BY <1>1, <2>1
  <2>3. QED
    BY <2>1, <2>2, LeftGetsLess
<1>6. ASSUME NEW i \in Workers, Done(i)
      PROVE  GetsLess
  <2>1. /\ column[i] \in Nat /\ column[i] <= Columns + 1 /\ column[i] # Columns + 1
        /\ column' = [column EXCEPT ![i] = Columns + 1]
        /\ UNCHANGED <<at, source, new, spawned>>
    BY <1>1, <1>6 DEF Done, Finished, Working, IInv, CountInv
  <2>2. column[i] <= Columns /\ column[i] < Columns + 1 /\ Columns + 1 \in Nat
    BY <1>1, <2>1
  <2>3. QED
    BY <2>1, <2>2, LeftGetsLess
<1>7. QED
  BY <1>2, <1>3, <1>4, <1>5, <1>6 DEF Next, Caller, Worker

(* While the picture is not scaled somebody can go on, and every step      *)
(* leaves less to do: neither the WaitGroup nor a goroutine without rows   *)
(* keeps Resize from returning (resize.go 343-583).                        *)
THEOREM ResizeGetsOn ==
  Spec => /\ [](at # "returned" => SomebodyGoesOn)
          /\ [](PassesLeft \in Nat /\ StepsLeft \in Nat)
          /\ [][GetsLess]_vars
<1>1. IInv => (at # "returned" => SomebodyGoesOn)
  BY GoesOn
<1>2. IInv => PassesLeft \in Nat /\ StepsLeft \in Nat
  BY StepsLeftType DEF PassesLeft
<1>3. IInv /\ [Next]_vars => [GetsLess]_vars
  BY GetsLessNext
<1>4. QED
  BY <1>1, <1>2, <1>3, Invariant, PTL DEF Spec

-----------------------------------------------------------------------------
(* Which samples make a pixel.  Sample k of a line is near pixel y of the  *)
(* scaled line when it is in the box of the pixel.                         *)
Near(k, y, scale, r) ==
  \/ -Box(scale) < Distance(k, y, scale) /\ Distance(k, y, scale) < Box(scale)
  \/ Distance(k, y, scale) = Box(scale) /\ <<y, scale>> \in r.left
  \/ /\ Distance(k, y, scale) = -Box(scale)
     /\ IF scale.num > scale.den THEN <<y, scale>> \in r.right ELSE <<y, scale>> \notin r.left

Half(scale) == AtLeastOne(Ceil(scale))
Middle(y, scale) == TowardsZero(InterpX(y, scale), Unit(scale))

(* The filter has as many samples on both sides of the middle, enough for  *)
(* the box of a pixel.                                                     *)
LEMMA FilterShape ==
  ASSUME NEW scale \in Fraction, NEW y \in Nat
  PROVE  /\ Half(scale) \in Nat \ {0} /\ scale.num <= Half(scale) * scale.den
         /\ FilterLength(scale) = 2 * Half(scale)
         /\ Start(y, scale) = Middle(y, scale) - Half(scale) + 1
         /\ InterpX(y, scale) \in Int /\ InterpX(y, scale) > -scale.den
         /\ Middle(y, scale) \in Int
         /\ InterpX(y, scale) >= 0 =>
              /\ Unit(scale) * Middle(y, scale) <= InterpX(y, scale)
              /\ InterpX(y, scale) < Unit(scale) * Middle(y, scale) + Unit(scale)
         /\ InterpX(y, scale) < 0 => Middle(y, scale) = 0
<1> DEFINE num == scale.num
           den == scale.den
           c == (num + den - 1) \div den
<1>1. num \in Nat \ {0} /\ den \in Nat \ {0}
  BY DEF Fraction
<1>2. c \in Nat /\ num + den - 1 < (c + 1) * den
  <2> HIDE DEF num, den
  <2>1. num + den - 1 \in Nat
    BY <1>1
  <2>2. QED
    BY <1>1, <2>1, Division
<1>3. num <= c * den /\ c # 0
  <2> HIDE DEF c, num, den
  <2>1. (c + 1) * den = c * den + den /\ c * den \in Nat
    BY <1>1, <1>2
  <2>2. num <= c * den
    BY <1>1, <1>2, <2>1
  <2>3. QED
    BY <1>1, <2>2
<1>4. Half(scale) = c
  BY <1>2, <1>3 DEF Half, AtLeastOne, Ceil
<1>5. FilterLength(scale) = 2 * c
  BY <1>2, <1>3 DEF FilterLength, AtLeastOne, Ceil
<1>6. FilterLength(scale) \div 2 = c
  <2> HIDE DEF c
  <2>1. (2 * c) \div 2 = c
    BY <1>2
  <2>2. QED
    BY <1>5, <2>1
<1>7. num * (2 * y + 1) \in Nat /\ num * (2 * y + 1) >= 1
  <2> HIDE DEF num
  <2>1. num * (2 * y + 1) = num * (2 * y) + num /\ num * (2 * y) \in Nat
    BY <1>1
  <2>2. QED
    BY <1>1, <2>1
<1>8. InterpX(y, scale) \in Int /\ InterpX(y, scale) > -den
  BY <1>1, <1>7 DEF InterpX
<1>9. Unit(scale) \in Nat \ {0} /\ Unit(scale) = 2 * den
  BY <1>1 DEF Unit
<1>10. CASE InterpX(y, scale) >= 0
  <2> DEFINE x == InterpX(y, scale)
             u == Unit(scale)
             t == x \div u
  <2>1. t \in Nat /\ t * u <= x /\ x < (t + 1) * u
    <3>1. x \in Nat /\ u \in Nat \ {0}
      BY <1>8, <1>9, <1>10
    <3> HIDE DEF x, u
    <3>2. QED
      BY <3>1, Division
  <2>2. Middle(y, scale) = t
    BY <1>10 DEF Middle, TowardsZero
  <2>3. u * t = t * u /\ (t + 1) * u = u * t + u
    <3> HIDE DEF t, u
    <3>1. QED
      BY <1>9, <2>1 DEF u
  <2>4. u * t <= x /\ x < u * t + u
    BY <2>1, <2>3
  <2>5. QED
    BY <1>2, <1>3, <1>4, <1>5, <1>6, <1>8, <1>10, <2>1, <2>2, <2>4 DEF Start, Middle
<1>11. CASE InterpX(y, scale) < 0
  <2>1. -InterpX(y, scale) \in Nat /\ -InterpX(y, scale) < Unit(scale)
    BY <1>1, <1>8, <1>9, <1>11
  <2>2. (-InterpX(y, scale)) \div Unit(scale) = 0
    <3> DEFINE n == -InterpX(y, scale)
               u == Unit(scale)
    <3>1. n \in Nat /\ u \in Nat \ {0} /\ n < u
      BY <1>9, <2>1
    <3> HIDE DEF n, u
    <3>2. n \div u \in Nat /\ n \div u <= 0
      BY <3>1, Division, QuotientAtMost
    <3>3. QED
      BY <3>2 DEF n, u
  <2>3. Middle(y, scale) = 0
    BY <1>8, <1>11, <2>2 DEF Middle, TowardsZero
  <2>4. QED
    BY <1>2, <1>3, <1>4, <1>5, <1>6, <1>8, <1>11, <2>3 DEF Start, Middle
<1>12. QED
  BY <1>8, <1>10, <1>11

LEMMA InBoxIsNear ==
  ASSUME NEW scale \in Fraction, NEW y \in Nat, NEW i \in Int, NEW r
  PROVE  InBox(i, y, scale, r) <=> Near(Start(y, scale) + i, y, scale, r)
  BY DEF InBox, Near

(* A sample near a pixel is in its box, edges included.                    *)
LEMMA NearTouches ==
  ASSUME NEW scale \in Fraction, NEW y \in Nat, NEW k \in Int, NEW r, Near(k, y, scale, r)
  PROVE  -Box(scale) <= Distance(k, y, scale) /\ Distance(k, y, scale) <= Box(scale)
<1>1. InterpX(y, scale) \in Int /\ Box(scale) \in Nat /\ Unit(scale) \in Nat
  BY FilterShape DEF Box, Unit, Fraction
<1>2. Distance(k, y, scale) \in Int
  <2>1. Unit(scale) * k \in Int
    BY <1>1
  <2>2. QED
    BY <1>1, <2>1 DEF Distance
<1>3. QED
  BY <1>1, <1>2 DEF Near

(* A pixel is made from something: the sample in the middle, or the next.  *)
LEMMA SomeSampleIsNear ==
  ASSUME NEW scale \in Fraction, NEW y \in Nat, NEW r
  PROVE  \E i \in 0 .. FilterLength(scale) - 1 : InBox(i, y, scale, r)
<1> DEFINE u == Unit(scale)
           x == InterpX(y, scale)
           t == Middle(y, scale)
           h == Half(scale)
           d == Distance(t, y, scale)
<1>1. /\ scale.num \in Nat \ {0} /\ scale.den \in Nat \ {0} /\ u = 2 * scale.den
      /\ Box(scale) \in Nat /\ scale.den <= Box(scale)
      /\ (scale.num > scale.den => scale.den < Box(scale))
      /\ (~(scale.num > scale.den) => scale.den = Box(scale))
  BY DEF Fraction, Unit, Box
<1>2. /\ h \in Nat \ {0} /\ FilterLength(scale) = 2 * h /\ Start(y, scale) = t - h + 1
      /\ x \in Int /\ x > -scale.den /\ t \in Int
      /\ x >= 0 => u * t <= x /\ x < u * t + u
      /\ x < 0 => t = 0
  BY FilterShape
<1>3. u * t \in Int /\ u * (t + 1) = u * t + u
  BY <1>1, <1>2
<1>4. d = x - u * t /\ Distance(t + 1, y, scale) = d - u
  BY <1>1, <1>2, <1>3 DEF Distance
<1>5. -scale.den < d /\ d < u
  <2>1. CASE x >= 0
    BY <1>1, <1>2, <1>3, <1>4, <2>1
  <2>2. CASE x < 0
    <3>1. u * t = 0
      BY <1>1, <1>2, <2>2
    <3>2. QED
      BY <1>1, <1>2, <1>4, <2>2, <3>1
  <2>3. QED
    BY <1>2, <2>1, <2>2
<1>6. d \in Int
  BY <1>1, <1>2, <1>3, <1>4
<1>7. ASSUME Near(t, y, scale, r)
      PROVE  \E i \in 0 .. FilterLength(scale) - 1 : InBox(i, y, scale, r)
  <2>1. Start(y, scale) + (h - 1) = t /\ h - 1 \in 0 .. FilterLength(scale) - 1
    BY <1>2
  <2>2. QED
    BY <1>7, <2>1, InBoxIsNear
<1>8. ASSUME Near(t + 1, y, scale, r)
      PROVE  \E i \in 0 .. FilterLength(scale) - 1 : InBox(i, y, scale, r)
  <2>1. Start(y, scale) + h = t + 1 /\ h \in 0 .. FilterLength(scale) - 1
    BY <1>2
  <2>2. QED
    BY <1>8, <2>1, InBoxIsNear
<1> HIDE DEF d, u, x, t, h
<1>9. CASE d < Box(scale)
  <2>1. -Box(scale) < d
    BY <1>1, <1>5, <1>6
  <2>2. Near(t, y, scale, r)
    BY <1>9, <2>1 DEF Near, d
  <2>3. QED
    BY <1>7, <2>2
<1>10. CASE d = Box(scale) /\ ~(scale.num > scale.den)
  <2>1. d - u = -Box(scale)
    BY <1>1, <1>6, <1>10
  <2>2. <<y, scale>> \in r.left => Near(t, y, scale, r)
    BY <1>10 DEF Near, d
  <2>3. <<y, scale>> \notin r.left => Near(t + 1, y, scale, r)
    BY <1>4, <1>10, <2>1 DEF Near
  <2>4. QED
    BY <1>7, <1>8, <2>2, <2>3
<1>11. CASE d > Box(scale) \/ (d = Box(scale) /\ scale.num > scale.den)
  <2>1. -Box(scale) < d - u /\ d - u < Box(scale)
    BY <1>1, <1>5, <1>6, <1>11
  <2>2. Near(t + 1, y, scale, r)
    BY <1>4, <2>1 DEF Near
  <2>3. QED
    BY <1>8, <2>2
<1>12. QED
  BY <1>1, <1>6, <1>9, <1>10, <1>11

LEMMA SamplesNotEmpty ==
  ASSUME NEW scale \in Fraction, NEW y \in Nat, NEW length \in Nat \ {0}, NEW r
  PROVE  Samples(y, scale, length, r) # {}
  BY SomeSampleIsNear DEF Samples

(* Scaled up, two samples are never near the same pixel: when both are on  *)
(* an edge of its box, one of them is in it.                               *)
LEMMA OneSampleUp ==
  ASSUME NEW scale \in Fraction, scale.num <= scale.den, NEW y \in Nat, NEW r,
         NEW j \in Int, NEW k \in Int, j < k, Near(j, y, scale, r), Near(k, y, scale, r)
  PROVE  FALSE
<1> DEFINE den == scale.den
           x == InterpX(y, scale)
<1>1. den \in Nat \ {0} /\ Box(scale) = den /\ x \in Int /\ ~(scale.num > den)
  BY FilterShape DEF Box, Fraction
<1>2. Distance(j, y, scale) = x - (2 * den) * j /\ Distance(k, y, scale) = x - (2 * den) * k
  BY DEF Distance, Unit
<1>3. Distance(j, y, scale) <= den /\ -den <= Distance(k, y, scale)
  BY <1>1, NearTouches
<1>4. PICK e \in Nat : k = j + 1 + e
  BY k - (j + 1) \in Nat, k = j + 1 + (k - (j + 1))
<1>5. (2 * den) * k = (2 * den) * j + 2 * den + (2 * den) * e
  BY <1>1, <1>4
<1>6. (2 * den) * e \in Nat /\ (2 * den) * j \in Int
  BY <1>1
<1>7. Distance(j, y, scale) = den /\ Distance(k, y, scale) = -den
  <2> DEFINE b == (2 * den) * j
             c == (2 * den) * e
  <2>1. /\ Distance(j, y, scale) = x - b /\ Distance(k, y, scale) = x - (b + 2 * den + c)
        /\ b \in Int /\ c \in Nat
    BY <1>2, <1>5, <1>6
  <2> HIDE DEF b, c, x, den
  <2>2. QED
    BY <1>1, <1>3, <2>1
<1>8. <<y, scale>> \in r.left /\ <<y, scale>> \notin r.left
  BY <1>1, <1>7 DEF Near
<1>9. QED
  BY <1>8

LEMMA SingleSampleUp ==
  ASSUME NEW scale \in Fraction, scale.num <= scale.den, NEW y \in Nat,
         NEW length \in Nat \ {0}, NEW r
  PROVE  \E k \in 0 .. length - 1 : Samples(y, scale, length, r) = {k}
<1>1. PICK i \in 0 .. FilterLength(scale) - 1 : InBox(i, y, scale, r)
  BY SomeSampleIsNear
<1>2. Start(y, scale) \in Int
  BY FilterShape
<1>3. \A j \in 0 .. FilterLength(scale) - 1 : InBox(j, y, scale, r) => j = i
  <2> SUFFICES ASSUME NEW j \in 0 .. FilterLength(scale) - 1, InBox(j, y, scale, r), j # i
               PROVE  FALSE
    OBVIOUS
  <2>1. Near(Start(y, scale) + i, y, scale, r) /\ Near(Start(y, scale) + j, y, scale, r)
    BY <1>1, InBoxIsNear
  <2>2. Start(y, scale) + i < Start(y, scale) + j \/ Start(y, scale) + j < Start(y, scale) + i
    BY <1>2
  <2>3. QED
    BY <1>2, <2>1, <2>2, OneSampleUp
<1>4. Samples(y, scale, length, r) = {Clamp(Start(y, scale) + i, length - 1)}
  BY <1>1, <1>3 DEF Samples
<1>5. QED
  BY <1>4, SamplesInLine

(* Scaled down, the boxes of the pixels share out the samples: the box of  *)
(* pixel y goes from y * num to (y + 1) * num, in units where sample k is  *)
(* at den * (k + 1/2).                                                     *)
LEMMA DistanceDown ==
  ASSUME NEW scale \in Fraction, scale.den <= scale.num, NEW y \in Nat, NEW k \in Int
  PROVE  LET at2 == scale.den * (2 * k + 1) IN
         /\ at2 \in Int /\ y * scale.num \in Nat /\ (y + 1) * scale.num \in Nat
         /\ Box(scale) = scale.num /\ scale.num \in Nat \ {0}
         /\ Distance(k, y, scale) = scale.num - (at2 - 2 * (y * scale.num))
         /\ Distance(k, y, scale) = (2 * ((y + 1) * scale.num) - at2) - scale.num
<1> DEFINE num == scale.num
           den == scale.den
<1>1. num \in Nat \ {0} /\ den \in Nat \ {0} /\ Box(scale) = num
  BY DEF Fraction, Box
<1>2. Distance(k, y, scale) = num * (2 * y + 1) - den - (2 * den) * k
  BY DEF Distance, InterpX, Unit
<1>3. /\ num * (2 * y + 1) = 2 * (y * num) + num
      /\ (y + 1) * num = y * num + num
      /\ den * (2 * k + 1) = 2 * (den * k) + den
      /\ (2 * den) * k = 2 * (den * k)
      /\ y * num \in Nat /\ den * k \in Int
  <2> HIDE DEF num, den
  <2>1. QED
    BY <1>1
<1>4. QED
  <2> HIDE DEF num, den
  <2>1. /\ den * (2 * k + 1) \in Int /\ y * num \in Nat /\ (y + 1) * num \in Nat
        /\ Distance(k, y, scale) = num - (den * (2 * k + 1) - 2 * (y * num))
        /\ Distance(k, y, scale) = (2 * ((y + 1) * num) - den * (2 * k + 1)) - num
    BY <1>1, <1>2, <1>3
  <2>2. QED
    BY <1>1, <2>1 DEF num, den

LEMMA NearDown ==
  ASSUME NEW scale \in Fraction, scale.den <= scale.num, NEW y \in Nat, NEW k \in Int, NEW r
  PROVE  /\ Near(k, y, scale, r) => /\ 2 * (y * scale.num) <= scale.den * (2 * k + 1)
                                    /\ scale.den * (2 * k + 1) <= 2 * ((y + 1) * scale.num)
         /\ ~OnEdge(k, y, scale) =>
              (Near(k, y, scale, r) <=> /\ 2 * (y * scale.num) < scale.den * (2 * k + 1)
                                        /\ scale.den * (2 * k + 1) < 2 * ((y + 1) * scale.num))
         /\ ~OnEdge(k, y, scale) => /\ 2 * (y * scale.num) # scale.den * (2 * k + 1)
                                    /\ scale.den * (2 * k + 1) # 2 * ((y + 1) * scale.num)
<1> DEFINE at2 == scale.den * (2 * k + 1)
           from == y * scale.num
           to == (y + 1) * scale.num
           num == scale.num
           d == Distance(k, y, scale)
<1>1. /\ at2 \in Int /\ from \in Nat /\ to \in Nat /\ Box(scale) = num /\ num \in Nat \ {0}
      /\ d = num - (at2 - 2 * from) /\ d = (2 * to - at2) - num
  BY DistanceDown
<1>2. Near(k, y, scale, r) => -num <= d /\ d <= num
  BY <1>1, NearTouches
<1>3. ~OnEdge(k, y, scale) => d # num /\ d # -num /\ (Near(k, y, scale, r) <=> -num < d /\ d < num)
  BY <1>1 DEF OnEdge, Near
<1> HIDE DEF at2, from, to, num, d
<1>4. /\ (-num <= d <=> at2 <= 2 * to) /\ (d <= num <=> 2 * from <= at2)
      /\ (-num < d <=> at2 < 2 * to) /\ (d < num <=> 2 * from < at2)
      /\ (d = num <=> 2 * from = at2) /\ (d = -num <=> at2 = 2 * to)
  BY <1>1
<1>5. QED
  BY <1>2, <1>3, <1>4 DEF at2, from, to, num, d

LEMMA FilterLongEnough ==
  ASSUME NEW scale \in Fraction, scale.den <= scale.num, NEW y \in Nat, NEW k \in Int, NEW r,
         Near(k, y, scale, r)
  PROVE  k - Start(y, scale) \in 0 .. FilterLength(scale) - 1
<1> DEFINE num == scale.num
           den == scale.den
           u == Unit(scale)
           x == InterpX(y, scale)
           t == Middle(y, scale)
           h == Half(scale)
<1>1. /\ num \in Nat \ {0} /\ den \in Nat \ {0} /\ u = 2 * den /\ den <= num
      /\ Box(scale) = num
  BY DEF Fraction, Unit, Box
<1>2. /\ h \in Nat \ {0} /\ num <= h * den /\ FilterLength(scale) = 2 * h
      /\ Start(y, scale) = t - h + 1 /\ x \in Int /\ t \in Int
      /\ x >= 0 => u * t <= x /\ x < u * t + u
  BY FilterShape
<1>3. x >= 0
  <2>1. x = num * (2 * y + 1) - den
    BY DEF InterpX
  <2>2. num * (2 * y + 1) = num * (2 * y) + num /\ num * (2 * y) \in Nat
    <3> HIDE DEF num
    <3>1. QED
      BY <1>1
  <2>3. QED
    BY <1>1, <2>1, <2>2
<1>4. -num <= x - u * k /\ x - u * k <= num
  BY <1>1, NearTouches DEF Distance
<1> HIDE DEF num, den, u, x, t, h
<1>5. u * h = 2 * (h * den) /\ h * den \in Nat /\ u \in Nat
  BY <1>1, <1>2
<1>6. ASSUME t - k >= h PROVE FALSE
  <2>1. PICK e \in Nat : t = k + h + e
    BY <1>2, <1>6, t - k - h \in Nat, t = k + h + (t - k - h)
  <2>2. u * t = u * k + u * h + u * e /\ u * e \in Nat /\ u * k \in Int
    BY <1>2, <1>5, <2>1
  <2>3. QED
    BY <1>1, <1>2, <1>3, <1>4, <1>5, <2>2
<1>7. ASSUME k - t >= h + 1 PROVE FALSE
  <2>1. PICK e \in Nat : k = t + h + 1 + e
    BY <1>2, <1>7, k - t - h - 1 \in Nat, k = t + h + 1 + (k - t - h - 1)
  <2>2. u * k = u * t + u * h + u + u * e /\ u * e \in Nat /\ u * t \in Int
    BY <1>2, <1>5, <2>1
  <2>3. QED
    BY <1>1, <1>2, <1>3, <1>4, <1>5, <2>2
<1>8. QED
  BY <1>2, <1>6, <1>7

LEMMA SamplesDown ==
  ASSUME NEW length \in Nat \ {0}, NEW n \in 1 .. length, NEW y \in 0 .. n - 1, NEW r
  PROVE  Samples(y, Scale(length, n), length, r) =
           {k \in 0 .. length - 1 : Near(k, y, Scale(length, n), r)}
<1> DEFINE scale == Scale(length, n)
<1>1. scale \in Fraction /\ scale.num = length /\ scale.den = n /\ n <= length /\ y \in Nat
  BY DEF Scale, Fraction
<1>2. Start(y, scale) \in Int
  BY <1>1, FilterShape
<1> HIDE DEF scale
<1>3. ASSUME NEW k \in Int, Near(k, y, scale, r)
      PROVE  k \in 0 .. length - 1
  <2>1. 2 * (y * length) <= n * (2 * k + 1) /\ n * (2 * k + 1) <= 2 * ((y + 1) * length)
    BY <1>1, <1>3, NearDown
  <2>2. y * length \in Nat /\ (y + 1) * length <= n * length /\ n * length \in Nat
        /\ (y + 1) * length \in Nat
    BY <1>1, Monotone
  <2>3. ASSUME k < 0 PROVE FALSE
    <3>1. PICK e \in Nat : k = -1 - e
      BY <2>3, -1 - k \in Nat, k = -1 - (-1 - k)
    <3>2. n * (2 * k + 1) = -n - 2 * (n * e) /\ n * e \in Nat
      BY <3>1
    <3>3. QED
      BY <2>1, <2>2, <3>2
  <2>4. ASSUME k >= length PROVE FALSE
    <3>1. PICK e \in Nat : k = length + e
      BY <2>4, k - length \in Nat, k = length + (k - length)
    <3>2. n * (2 * k + 1) = 2 * (n * length) + n + 2 * (n * e) /\ n * e \in Nat
      BY <3>1
    <3>3. QED
      BY <2>1, <2>2, <3>2
  <2>5. QED
    BY <2>3, <2>4
<1>4. ASSUME NEW i \in 0 .. FilterLength(scale) - 1, InBox(i, y, scale, r)
      PROVE  /\ Clamp(Start(y, scale) + i, length - 1) = Start(y, scale) + i
             /\ Near(Start(y, scale) + i, y, scale, r)
             /\ Start(y, scale) + i \in 0 .. length - 1
  <2>1. Near(Start(y, scale) + i, y, scale, r)
    BY <1>1, <1>4, InBoxIsNear
  <2>2. Start(y, scale) + i \in 0 .. length - 1
    BY <1>2, <1>3, <2>1
  <2>3. QED
    BY <2>1, <2>2 DEF Clamp
<1>5. ASSUME NEW k \in 0 .. length - 1, Near(k, y, scale, r)
      PROVE  \E i \in 0 .. FilterLength(scale) - 1 :
               InBox(i, y, scale, r) /\ k = Clamp(Start(y, scale) + i, length - 1)
  <2> DEFINE i == k - Start(y, scale)
  <2>1. i \in 0 .. FilterLength(scale) - 1 /\ Start(y, scale) + i = k
    BY <1>1, <1>2, <1>5, FilterLongEnough
  <2>2. InBox(i, y, scale, r)
    BY <1>1, <1>2, <1>5, <2>1, InBoxIsNear
  <2>3. QED
    BY <1>4, <2>1, <2>2
<1>6. QED
  BY <1>4, <1>5 DEF Samples, scale

(* A sample that is on the edge of no box is in one of them; one that is   *)
(* in two is between neighbours.                                           *)
LEMMA BoxesShareSamples ==
  ASSUME NEW length \in Nat \ {0}, NEW n \in 1 .. length, NEW k \in 0 .. length - 1, NEW r
  PROVE  /\ (\A y \in 0 .. n - 1 : ~OnEdge(k, y, Scale(length, n))) =>
              \E y \in 0 .. n - 1 : \A z \in 0 .. n - 1 :
                k \in Samples(z, Scale(length, n), length, r) <=> z = y
         /\ \A y, z \in 0 .. n - 1 :
              k \in Samples(y, Scale(length, n), length, r)
                /\ k \in Samples(z, Scale(length, n), length, r) => y - z \in -1 .. 1
<1> DEFINE scale == Scale(length, n)
           place == n * (2 * k + 1)
           m == place - 1
           d == 2 * length
<1>1. scale \in Fraction /\ scale.num = length /\ scale.den = n /\ n <= length
  BY DEF Scale, Fraction
<1>2. \A y \in 0 .. n - 1 :
        /\ k \in Samples(y, scale, length, r) =>
             2 * (y * length) <= place /\ place <= 2 * ((y + 1) * length)
        /\ ~OnEdge(k, y, scale) =>
             /\ k \in Samples(y, scale, length, r) <=>
                  2 * (y * length) < place /\ place < 2 * ((y + 1) * length)
             /\ 2 * (y * length) # place /\ place # 2 * ((y + 1) * length)
  <2> SUFFICES ASSUME NEW y \in 0 .. n - 1
               PROVE  /\ k \in Samples(y, scale, length, r) =>
                           2 * (y * length) <= place /\ place <= 2 * ((y + 1) * length)
                      /\ ~OnEdge(k, y, scale) =>
                           /\ k \in Samples(y, scale, length, r) <=>
                                2 * (y * length) < place /\ place < 2 * ((y + 1) * length)
                           /\ 2 * (y * length) # place /\ place # 2 * ((y + 1) * length)
    OBVIOUS
  <2>1. k \in Samples(y, scale, length, r) <=> Near(k, y, scale, r)
    BY SamplesDown
  <2>2. y \in Nat /\ k \in Int /\ scale.den <= scale.num
    BY <1>1
  <2> HIDE DEF scale
  <2>3. QED
    BY <1>1, <2>1, <2>2, NearDown
<1>3. m \in Nat /\ place \in Nat /\ d \in Nat \ {0}
  <2>1. n * (2 * k + 1) = 2 * (n * k) + n /\ n * k \in Nat
    OBVIOUS
  <2>2. QED
    BY <2>1
<1>4. \E y \in 0 .. n - 1 : 2 * (y * length) < place /\ place <= 2 * ((y + 1) * length)
  <2> DEFINE y == m \div d
  <2>1. y \in Nat /\ y * d <= m /\ m < (y + 1) * d
    <3> HIDE DEF m, d
    <3>1. QED
      BY <1>3, Division
  <2>2. y <= n - 1
    <3>1. (2 * k + 1) * n <= d * n
      BY Monotone
    <3>2. n * (2 * k + 1) = (2 * k + 1) * n /\ d * n = n * d /\ n * d \in Nat
      OBVIOUS
    <3>3. m < ((n - 1) + 1) * d
      BY <1>3, <3>1, <3>2
    <3> HIDE DEF m, d
    <3>4. QED
      BY <1>3, <3>3, QuotientAtMost
  <2> HIDE DEF y
  <2>3. y * d = 2 * (y * length) /\ (y + 1) * d = 2 * ((y + 1) * length)
        /\ y * length \in Nat /\ (y + 1) * length \in Nat
    BY <2>1
  <2>4. 2 * (y * length) < place /\ place <= 2 * ((y + 1) * length)
    BY <1>3, <2>1, <2>3
  <2>5. y \in 0 .. n - 1
    BY <2>1, <2>2
  <2>6. QED
    BY <2>4, <2>5
<1> HIDE DEF place, m, d, scale
<1>5. ASSUME \A y \in 0 .. n - 1 : ~OnEdge(k, y, scale)
      PROVE  \E y \in 0 .. n - 1 : \A z \in 0 .. n - 1 :
               k \in Samples(z, scale, length, r) <=> z = y
  <2>1. PICK y \in 0 .. n - 1 : 2 * (y * length) < place /\ place <= 2 * ((y + 1) * length)
    BY <1>4
  <2>2. k \in Samples(y, scale, length, r)
    <3>1. y * length \in Nat /\ (y + 1) * length \in Nat
      OBVIOUS
    <3>2. place < 2 * ((y + 1) * length)
      BY <1>2, <1>3, <1>5, <2>1, <3>1
    <3>3. QED
      BY <1>2, <1>5, <2>1, <3>2
  <2>3. ASSUME NEW z \in 0 .. n - 1, k \in Samples(z, scale, length, r), z # y
        PROVE  FALSE
    <3>1. 2 * (z * length) < place /\ place < 2 * ((z + 1) * length)
      BY <1>2, <1>5, <2>3
    <3>2. (y < z => (y + 1) * length <= z * length) /\ (z < y => (z + 1) * length <= y * length)
      BY Monotone
    <3>3. /\ y * length \in Nat /\ z * length \in Nat
          /\ (y + 1) * length \in Nat /\ (z + 1) * length \in Nat
      OBVIOUS
    <3>4. QED
      BY <1>3, <2>1, <2>3, <3>1, <3>2, <3>3
  <2>4. QED
    BY <2>2, <2>3
<1>6. ASSUME NEW y \in 0 .. n - 1, NEW z \in 0 .. n - 1, y + 2 <= z,
             k \in Samples(y, scale, length, r), k \in Samples(z, scale, length, r)
      PROVE  FALSE
  <2>1. place <= 2 * ((y + 1) * length) /\ 2 * (z * length) <= place
    BY <1>2, <1>6
  <2>2. (y + 2) * length <= z * length
    BY <1>6, Monotone
  <2>3. /\ (y + 2) * length = (y + 1) * length + length
        /\ (y + 1) * length \in Nat /\ z * length \in Nat
    OBVIOUS
  <2>4. QED
    BY <1>3, <2>1, <2>2, <2>3
<1>7. \A y, z \in 0 .. n - 1 :
        k \in Samples(y, scale, length, r) /\ k \in Samples(z, scale, length, r) =>
          y - z \in -1 .. 1
  BY <1>6
<1>8. QED
  BY <1>5, <1>7 DEF scale

-----------------------------------------------------------------------------
(* What Resize returns: the image itself, or the reference.  For BoxesFit  *)
(* the invariant remembers where the new dimensions come from.             *)
ReturnedInv ==
  /\ at # "called" => new \in Dimensions(asked.width, asked.height, source.width, source.height)
  /\ Working => new # source
  /\ at = "returned" /\ new = source => result = Original

LEMMA ReturnedInit == Init => ReturnedInv
  BY DEF Init, ReturnedInv, Working

LEMMA ReturnedNext == ReturnedInv /\ [Next]_vars => ReturnedInv'
<1> SUFFICES ASSUME ReturnedInv, [Next]_vars
             PROVE  ReturnedInv'
  OBVIOUS
<1>1. CASE Resize
  <2>1. PICK size \in Dimensions(asked.width, asked.height, source.width, source.height) :
          /\ new' = size
          /\ IF size = source THEN at' = "returned" /\ result' = Original
                              ELSE at' = "first"
    BY <1>1 DEF Resize, BeginPass
  <2>2. UNCHANGED <<source, asked>>
    BY <1>1 DEF Resize
  <2>3. Original' = Original
    BY <2>2 DEF Original, SourcePixels
  <2>4. QED
    BY <2>1, <2>2, <2>3 DEF ReturnedInv, Working
<1>2. ASSUME UNCHANGED <<source, asked, new>>, at # "called", at' # "called",
             at = "returned" => UNCHANGED <<at, result>>,
             at \in {"first", "second", "returned"}
      PROVE  ReturnedInv'
  <2>1. Original' = Original
    BY <1>2 DEF Original, SourcePixels
  <2>2. QED
    BY <1>2, <2>1 DEF ReturnedInv, Working
<1>3. CASE UNCHANGED vars
  BY <1>3 DEF vars, ReturnedInv, Working, Original, SourcePixels
<1>4. CASE Spawn
  BY <1>2, <1>4 DEF Spawn
<1>5. CASE SecondPass \/ Return
  BY <1>2, <1>5 DEF SecondPass, Return, BeginPass
<1>6. ASSUME NEW i \in Workers, Column(i) \/ Done(i)
      PROVE  ReturnedInv'
  <2>1. /\ at \in {"first", "second"}
        /\ UNCHANGED <<at, source, asked, new>>
    BY <1>6 DEF Column, Done, Unfinished
  <2>2. QED
    BY <1>2, <2>1
<1>7. QED
  BY <1>1, <1>3, <1>4, <1>5, <1>6 DEF Next, Caller, Worker

(* Made larger in both dimensions, both factors are at most one.           *)
LEMMA FactorsUp ==
  ASSUME NEW size \in Size, NEW image \in Picture,
         NEW d \in Dimensions(size.width, size.height, image.width, image.height),
         d.width >= image.width, d.height >= image.height
  PROVE  LET factors == calcFactors(size.width, size.height, image.width, image.height)
         IN  factors.x.num <= factors.x.den /\ factors.y.num <= factors.y.den
<1>1. /\ size.width > 0 => d.width = size.width
      /\ size.height > 0 => d.height = size.height
  BY DEF Dimensions, Dimension
<1>2. QED
  BY <1>1 DEF calcFactors, Factor, Scale, Size, Picture

LEMMA FactorsDown ==
  ASSUME NEW size \in Size, NEW image \in Picture, size.width > 0, size.height > 0,
         NEW d \in Dimensions(size.width, size.height, image.width, image.height)
  PROVE  /\ d = size
         /\ calcFactors(size.width, size.height, image.width, image.height) =
              [x |-> Scale(image.width, size.width), y |-> Scale(image.height, size.height)]
  BY DEF Dimensions, Dimension, calcFactors, Factor, Size

(* How an image shares out the pixels of the source.                       *)
MadeIn(image, s) == {pixel \in DOMAIN image : s \in image[pixel]}
SharesOut(image) ==
  \A s \in SourcePixels :
    /\ ~OnSomeEdge(s) => \E p \in DOMAIN image : MadeIn(image, s) = {p}
    /\ \A p, q \in MadeIn(image, s) : NextTo(p, q)

LEMMA OriginalFits == ASSUME source \in Picture PROVE SharesOut(Original)
<1>1. \A s \in SourcePixels : MadeIn(Original, s) = {s} /\ s \in DOMAIN Original
  BY DEF Original, MadeIn
<1>2. \A s \in SourcePixels : NextTo(s, s)
  BY DEF SourcePixels, Pixels, NextTo, Picture
<1>3. QED
  BY <1>1, <1>2 DEF SharesOut

LEMMA ReferencePixels ==
  /\ DOMAIN Reference = Pixels(new.width, new.height)
  /\ \A x \in 0 .. new.width - 1, y \in 0 .. new.height - 1 :
       Reference[<<x, y>>] = Samples(x, Factors.x, source.width, rounding)
                               \X Samples(y, Factors.y, source.height, rounding)
  BY DEF Reference, Pixels

LEMMA ReferenceShares ==
  ASSUME source \in Picture, new \in Size,
         new.width \in 1 .. source.width, new.height \in 1 .. source.height,
         Factors = [x |-> Scale(source.width, new.width), y |-> Scale(source.height, new.height)]
  PROVE  SharesOut(Reference)
<1> DEFINE sx == Factors.x
           sy == Factors.y
           w == source.width
           h == source.height
           X == 0 .. new.width - 1
           Y == 0 .. new.height - 1
<1>1. /\ w \in Nat \ {0} /\ h \in Nat \ {0}
      /\ sx = Scale(w, new.width) /\ sy = Scale(h, new.height)
  BY DEF Picture
<1> SUFFICES ASSUME NEW a \in 0 .. w - 1, NEW b \in 0 .. h - 1
             PROVE  /\ ~OnSomeEdge(<<a, b>>) =>
                         \E p \in DOMAIN Reference : MadeIn(Reference, <<a, b>>) = {p}
                    /\ \A p, q \in MadeIn(Reference, <<a, b>>) : NextTo(p, q)
  BY DEF SharesOut, SourcePixels, Pixels
<1> DEFINE OfColumn(x) == a \in Samples(x, sx, w, rounding)
           OfRow(y) == b \in Samples(y, sy, h, rounding)
<1>2. DOMAIN Reference = X \X Y
  BY ReferencePixels DEF Pixels
<1>3. \A x \in X, y \in Y : <<a, b>> \in Reference[<<x, y>>] <=> OfColumn(x) /\ OfRow(y)
  BY ReferencePixels
<1>4. /\ (\A x \in X : ~OnEdge(a, x, sx)) => \E x \in X : \A z \in X : OfColumn(z) <=> z = x
      /\ \A x, z \in X : OfColumn(x) /\ OfColumn(z) => x - z \in -1 .. 1
  <2> DEFINE n == new.width
             scale == Scale(w, n)
  <2>1. n \in 1 .. w /\ a \in 0 .. w - 1 /\ w \in Nat \ {0}
    BY <1>1
  <2> HIDE DEF n, w
  <2>2. /\ (\A x \in 0 .. n - 1 : ~OnEdge(a, x, scale)) =>
             \E x \in 0 .. n - 1 : \A z \in 0 .. n - 1 :
               a \in Samples(z, scale, w, rounding) <=> z = x
        /\ \A x, z \in 0 .. n - 1 :
             a \in Samples(x, scale, w, rounding) /\ a \in Samples(z, scale, w, rounding) =>
               x - z \in -1 .. 1
    BY ONLY <2>1, BoxesShareSamples
  <2>3. sx = scale
    BY <1>1 DEF n
  <2> HIDE DEF sx, scale
  <2>4. QED
    BY <2>2, <2>3 DEF n
<1>5. /\ (\A y \in Y : ~OnEdge(b, y, sy)) => \E y \in Y : \A z \in Y : OfRow(z) <=> z = y
      /\ \A y, z \in Y : OfRow(y) /\ OfRow(z) => y - z \in -1 .. 1
  <2> DEFINE n == new.height
             scale == Scale(h, n)
  <2>1. n \in 1 .. h /\ b \in 0 .. h - 1 /\ h \in Nat \ {0}
    BY <1>1
  <2> HIDE DEF n, h
  <2>2. /\ (\A y \in 0 .. n - 1 : ~OnEdge(b, y, scale)) =>
             \E y \in 0 .. n - 1 : \A z \in 0 .. n - 1 :
               b \in Samples(z, scale, h, rounding) <=> z = y
        /\ \A y, z \in 0 .. n - 1 :
             b \in Samples(y, scale, h, rounding) /\ b \in Samples(z, scale, h, rounding) =>
               y - z \in -1 .. 1
    BY ONLY <2>1, BoxesShareSamples
  <2>3. sy = scale
    BY <1>1 DEF n
  <2> HIDE DEF sy, scale
  <2>4. QED
    BY <2>2, <2>3 DEF n
<1>6. ~OnSomeEdge(<<a, b>>) =>
        (\A x \in X : ~OnEdge(a, x, sx)) /\ (\A y \in Y : ~OnEdge(b, y, sy))
  BY DEF OnSomeEdge
<1> HIDE DEF OfColumn, OfRow, X, Y, sx, sy, w, h
<1>7. ASSUME ~OnSomeEdge(<<a, b>>)
      PROVE  \E p \in DOMAIN Reference : MadeIn(Reference, <<a, b>>) = {p}
  <2>1. PICK x \in X : \A z \in X : OfColumn(z) <=> z = x
    BY <1>4, <1>6, <1>7
  <2>2. PICK y \in Y : \A z \in Y : OfRow(z) <=> z = y
    BY <1>5, <1>6, <1>7
  <2>3. \A p \in X \X Y : <<a, b>> \in Reference[p] <=> p = <<x, y>>
    BY <1>3, <2>1, <2>2
  <2>4. MadeIn(Reference, <<a, b>>) = {<<x, y>>} /\ <<x, y>> \in DOMAIN Reference
    BY <1>2, <2>3 DEF MadeIn
  <2>5. QED
    BY <2>4
<1>8. ASSUME NEW p \in MadeIn(Reference, <<a, b>>), NEW q \in MadeIn(Reference, <<a, b>>)
      PROVE  NextTo(p, q)
  <2>1. /\ p \in X \X Y /\ <<a, b>> \in Reference[p]
        /\ q \in X \X Y /\ <<a, b>> \in Reference[q]
    BY <1>2, <1>8 DEF MadeIn
  <2>2. /\ p[1] \in X /\ p[2] \in Y /\ p = <<p[1], p[2]>>
        /\ q[1] \in X /\ q[2] \in Y /\ q = <<q[1], q[2]>>
    BY <2>1
  <2>3. OfColumn(p[1]) /\ OfRow(p[2]) /\ OfColumn(q[1]) /\ OfRow(q[2])
    BY <1>3, <2>1, <2>2
  <2>4. QED
    BY <1>4, <1>5, <2>2, <2>3 DEF NextTo
<1>9. QED
  BY <1>7, <1>8

LEMMA ReferenceFits ==
  ASSUME source \in Picture, new \in Size, Factors.x \in Fraction, Factors.y \in Fraction
  PROVE  /\ \A p \in DOMAIN Reference : Reference[p] # {}
         /\ Factors.x.num <= Factors.x.den /\ Factors.y.num <= Factors.y.den =>
              \A p \in DOMAIN Reference : \E from \in SourcePixels : Reference[p] = {from}
<1>1. source.width \in Nat \ {0} /\ source.height \in Nat \ {0}
  BY DEF Picture
<1> SUFFICES ASSUME NEW x \in 0 .. new.width - 1, NEW y \in 0 .. new.height - 1
             PROVE  /\ Reference[<<x, y>>] # {}
                    /\ Factors.x.num <= Factors.x.den /\ Factors.y.num <= Factors.y.den =>
                         \E from \in SourcePixels : Reference[<<x, y>>] = {from}
  BY ReferencePixels DEF Pixels
<1> DEFINE X == Samples(x, Factors.x, source.width, rounding)
           Y == Samples(y, Factors.y, source.height, rounding)
<1>2. Reference[<<x, y>>] = X \X Y
  BY ReferencePixels
<1>3. X # {} /\ Y # {}
  BY <1>1, SamplesNotEmpty
<1>4. ASSUME Factors.x.num <= Factors.x.den, Factors.y.num <= Factors.y.den
      PROVE  \E from \in SourcePixels : X \X Y = {from}
  <2>1. PICK a \in 0 .. source.width - 1 : X = {a}
    BY <1>1, <1>4, SingleSampleUp
  <2>2. PICK b \in 0 .. source.height - 1 : Y = {b}
    BY <1>1, <1>4, SingleSampleUp
  <2>3. X \X Y = {<<a, b>>} /\ <<a, b>> \in SourcePixels
    BY <2>1, <2>2 DEF SourcePixels, Pixels
  <2>4. QED
    BY <2>3
<1> HIDE DEF X, Y
<1>5. X \X Y # {}
  <2>1. PICK a \in X, b \in Y : TRUE
    BY <1>3
  <2>2. <<a, b>> \in X \X Y
    OBVIOUS
  <2>3. QED
    BY <2>2
<1>6. QED
  BY <1>2, <1>4, <1>5

(* No pixel is made from nothing, for images of any dimensions and however *)
(* the arithmetic rounds; scaled down, the pixels of the source are shared *)
(* out but on the edges of boxes, and scaled up, each new pixel is one of  *)
(* the source.                                                             *)
THEOREM BoxesAlwaysFit == Spec => []BoxesFit
<1>1. IInv /\ ReturnedInv => BoxesFit
  <2> SUFFICES ASSUME IInv, ReturnedInv, at = "returned"
               PROVE  /\ \A pixel \in DOMAIN result : result[pixel] # {}
                      /\ asked.width \in 1 .. source.width /\ asked.height \in 1 .. source.height =>
                           SharesOut(result)
                      /\ new.width >= source.width /\ new.height >= source.height =>
                           \A pixel \in DOMAIN result :
                             \E from \in SourcePixels : result[pixel] = {from}
    BY DEF BoxesFit, SharesOut, MadeIn, MadeFrom
  <2>1. /\ source \in Picture /\ asked \in Size /\ new \in Size
        /\ Factors.x \in Fraction /\ Factors.y \in Fraction
        /\ new \in Dimensions(asked.width, asked.height, source.width, source.height)
    BY Types DEF IInv, ReturnedInv
  <2>2. CASE new = source
    <3>1. result = Original
      BY <2>2 DEF ReturnedInv
    <3>2. \A pixel \in DOMAIN Original : pixel \in SourcePixels /\ Original[pixel] = {pixel}
      BY DEF Original
    <3>3. QED
      BY <2>1, <3>1, <3>2, OriginalFits
  <2>3. CASE new # source
    <3>1. result = Reference
      BY <2>3 DEF IInv, ScalesLikeReference
    <3>2. ASSUME asked.width \in 1 .. source.width, asked.height \in 1 .. source.height
          PROVE  SharesOut(Reference)
      <4>1. asked.width > 0 /\ asked.height > 0
        BY <3>2
      <4>2. new = asked /\ Factors = [x |-> Scale(source.width, asked.width),
                                      y |-> Scale(source.height, asked.height)]
        BY <2>1, <4>1, FactorsDown DEF Factors
      <4>3. QED
        BY <2>1, <3>2, <4>2, ReferenceShares
    <3>3. ASSUME new.width >= source.width, new.height >= source.height
          PROVE  Factors.x.num <= Factors.x.den /\ Factors.y.num <= Factors.y.den
      BY <2>1, <3>3, FactorsUp DEF Factors
    <3>4. QED
      BY <2>1, <3>1, <3>2, <3>3, ReferenceFits
  <2>4. QED
    BY <2>2, <2>3
<1>2. Spec => []ReturnedInv
  BY ReturnedInit, ReturnedNext, PTL DEF Spec
<1>3. QED
  BY <1>1, <1>2, Invariant, PTL
=============================================================================
