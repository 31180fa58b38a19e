------------------------------- MODULE Sizer -------------------------------
(***************************************************************************)
(* The arithmetic of calculateAspectRatio, on positive dimensions of the   *)
(* image.                                                                  *)
(*                                                                         *)
(* The code computes with float32 and truncates.  As long as the products  *)
(* are below 2^22 a quotient that is no integer is far enough from the     *)
(* next one for truncation to give its integer part; one that is an        *)
(* integer may come out just below it and truncate to one less.  Both      *)
(* outcomes are allowed here.                                              *)
(***************************************************************************)
EXTENDS Integers

(* Mutant of Truncated: one less even when the quotient is no integer.     *)
TruncatedBelow(n, d) == {n \div d, n \div d - 1}

Truncated(n, d) ==
  {n \div d} \cup (IF n > 0 /\ n % d = 0 THEN {n \div d - 1} ELSE {})

(* What the two branches return: the height of the request and a width in  *)
(* proportion to it, unless the width of the request asks for no height.   *)
Returned(width, height, scaled, ratioWidth, ratioHeight) ==
  IF scaled > 0
    THEN {[width |-> w, height |-> height] : w \in Truncated(height * ratioHeight, ratioWidth)}
    ELSE {[width |-> width, height |-> 0]}

(* Mutant of calculateAspectRatio: the scaled height is compared with the  *)
(* height that was asked for, and returned when it is not higher.          *)
calculateAspectRatioToFit(width, height, imageWidth, imageHeight) ==
  UNION {IF scaled > height
           THEN Returned(width, height, scaled, imageWidth, imageHeight)
           ELSE {[width |-> width, height |-> scaled]} :
           scaled \in Truncated(width * imageWidth, imageHeight)}

(* imageWidth and imageHeight are the names of the code, whose caller      *)
(* gives the height of the image first.                                    *)
calculateAspectRatio(width, height, imageWidth, imageHeight) ==
  UNION {Returned(width, height, scaled, imageWidth, imageHeight) :
           scaled \in Truncated(width * imageWidth, imageHeight)}
=============================================================================
