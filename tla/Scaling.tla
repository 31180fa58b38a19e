------------------------------ MODULE Scaling ------------------------------
(***************************************************************************)
(* The arithmetic of resize.Resize with NearestNeighbor, the only          *)
(* interpolation the service asks for: what the new dimensions are, which  *)
(* samples of a line of pixels make one pixel of the scaled line, and how  *)
(* the lines are shared out to the goroutines.                             *)
(*                                                                         *)
(* A scale is a fraction.  The code has a float64 for it, and rounds where *)
(* the exact result is on a boundary: where 0.7 plus a quotient is an      *)
(* integer, truncation may also give one less (Truncated), and a sample on *)
(* the edge of a pixel's box may be in it or not (InBox).                  *)
(***************************************************************************)
EXTENDS Sizer

Scale(old, new) == [num |-> old, den |-> new]

(* One of the two factors: that of its own dimension, that of the other    *)
(* dimension if the own one is zero, one if both are.                      *)
Factor(own, oldOwn, other, oldOther) ==
  IF own > 0 THEN Scale(oldOwn, own)
  ELSE IF other > 0 THEN Scale(oldOther, other)
  ELSE Scale(1, 1)

calcFactors(width, height, oldWidth, oldHeight) ==
  [x |-> Factor(width, oldWidth, height, oldHeight),
   y |-> Factor(height, oldHeight, width, oldWidth)]

(* A dimension of zero is 0.7 + old / scale, truncated.                    *)
Dimension(asked, old, scale) ==
  IF asked > 0 THEN {asked}
  ELSE Truncated(10 * old * scale.den + 7 * scale.num, 10 * scale.num)

(* Mutant of Dimensions: a dimension of zero is rounded down.              *)
DimensionsRoundedDown(width, height, oldWidth, oldHeight) ==
  LET scale == calcFactors(width, height, oldWidth, oldHeight) IN
  {[width |-> IF width > 0 THEN width ELSE (oldWidth * scale.x.den) \div scale.x.num,
    height |-> IF height > 0 THEN height ELSE (oldHeight * scale.y.den) \div scale.y.num]}

Dimensions(width, height, oldWidth, oldHeight) ==
  LET scale == calcFactors(width, height, oldWidth, oldHeight) IN
  {[width |-> w, height |-> h] : w \in Dimension(width, oldWidth, scale.x),
                                 h \in Dimension(height, oldHeight, scale.y)}

-----------------------------------------------------------------------------
(* The weights of pixel y of the scaled line.  Its centre in the old line  *)
(* is interpX = scale * (y + 1/2) - 1/2, below in units of 1 / (2 * den).  *)
(* int() truncates towards zero, which matters for the first pixel only.   *)
Unit(scale) == 2 * scale.den
InterpX(y, scale) == scale.num * (2 * y + 1) - scale.den
TowardsZero(n, d) == IF n >= 0 THEN n \div d ELSE -((-n) \div d)
Ceil(scale) == (scale.num + scale.den - 1) \div scale.den
AtLeastOne(n) == IF n > 1 THEN n ELSE 1
FilterLength(scale) == 2 * AtLeastOne(Ceil(scale))
Start(y, scale) == TowardsZero(InterpX(y, scale), Unit(scale)) - FilterLength(scale) \div 2 + 1

(* How far the centre of a pixel is from a sample of the line, how far the *)
(* box around the centre reaches, and the samples on the edge of the box.  *)
Distance(k, y, scale) == InterpX(y, scale) - Unit(scale) * k
Box(scale) == IF scale.num > scale.den THEN scale.num ELSE scale.den
OnEdge(k, y, scale) == Distance(k, y, scale) \in {-Box(scale), Box(scale)}

(* Mutant of InBox: the box is closed on both sides.                       *)
InClosedBox(i, y, scale, rounding) ==
  LET distance == Distance(Start(y, scale) + i, y, scale)
  IN -Box(scale) <= distance /\ distance <= Box(scale)

(* A sample i of the filter counts when it is in the box of the pixel,     *)
(* -1/2 <= (interpX - start - i) * min(1 / scale, 1) < 1/2.  In a float64  *)
(* a sample on the edge may be in or out: from 15 pixels to 14, sample 7   *)
(* is in the boxes of pixels 6 and 7.  rounding says which pixels have     *)
(* the sample on their left edge, which the one on the right.  Scaled up,  *)
(* the factor is 1 and the two distances differ by exactly 1, so that one  *)
(* of the two is in.  The other samples are further from the edges than    *)
(* rounding reaches.                                                       *)
InBox(i, y, scale, rounding) ==
  LET distance == Distance(Start(y, scale) + i, y, scale) IN
  \/ -Box(scale) < distance /\ distance < Box(scale)
  \/ distance = Box(scale) /\ <<y, scale>> \in rounding.left
  \/ /\ distance = -Box(scale)
     /\ IF scale.num > scale.den THEN <<y, scale>> \in rounding.right
                                 ELSE <<y, scale>> \notin rounding.left

Clamp(xi, maxX) == IF xi < 0 THEN 0 ELSE IF xi >= maxX THEN maxX ELSE xi

(* The pixels of a line of the given length that pixel y is made from.     *)
Samples(y, scale, length, rounding) ==
  {Clamp(Start(y, scale) + i, length - 1) :
     i \in {j \in 0 .. FilterLength(scale) - 1 : InBox(j, y, scale, rounding)}}

-----------------------------------------------------------------------------
(* Mutant of Slice: the row after the last is in it.                       *)
SliceOverlapping(i, n, rows) ==
  {y \in (i * rows) \div n .. ((i + 1) * rows) \div n : y < rows}

(* The rows of an image that makeSlice gives to goroutine i of n.          *)
Slice(i, n, rows) == (i * rows) \div n .. ((i + 1) * rows) \div n - 1
=============================================================================
