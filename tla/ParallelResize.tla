--------------------------- MODULE ParallelResize ---------------------------
(***************************************************************************)
(* resizeNearest: an image is scaled in two passes.  The first scales the  *)
(* rows and leaves the image transposed, the second does the same to the   *)
(* transposed image.  In each pass a number of goroutines work at a slice  *)
(* of the rows of the new image, and a WaitGroup holds the second pass     *)
(* back until the first is over.  The goroutines share the variables that  *)
(* hold the weights, and these are assigned anew for the second pass.      *)
(*                                                                         *)
(* A pixel is the set of the source pixels it is made from; that they are  *)
(* added up and divided, and in which pixel format, is left out.           *)
(***************************************************************************)
EXTENDS Scaling

CONSTANTS
  Cpus,      (* runtime.GOMAXPROCS                                         *)
  Sources,   (* dimensions of the images                                   *)
  Asked,     (* dimensions asked for, zero for "in proportion"             *)
  Roundings  (* the ways in which float64 may round on the edges of boxes  *)

Size == [width : Nat, height : Nat]

ASSUME ResizeAssumption ==
  /\ Cpus \in Nat \ {0}
  /\ Sources \subseteq [width : Nat \ {0}, height : Nat \ {0}]
  /\ Asked \subseteq Size

VARIABLES
  at,       (* where the caller is: called, in a pass, or returned         *)
  source,   (* the dimensions of the image to scale                        *)
  asked,    (* the dimensions given to Resize                              *)
  rounding, (* which pixels get the samples on the edges of their boxes    *)
  new,      (* the dimensions of the new image                             *)
  weights,  (* the scale from which coeffs and offset were last made       *)
  temp,     (* the transposed image                                        *)
  result,
  spawned,  (* how many goroutines of this pass have been started          *)
  column,   (* the next column each goroutine works at                     *)
  wg        (* the WaitGroup                                               *)

vars == <<at, source, asked, rounding, new, weights, temp, result, spawned, column, wg>>

Workers == 0 .. Cpus - 1
Pixels(width, height) == (0 .. width - 1) \X (0 .. height - 1)
SourcePixels == Pixels(source.width, source.height)
Blank(width, height) == [pixel \in Pixels(width, height) |-> {}]

TypeOK ==
  /\ at \in {"called", "first", "second", "returned"}
  /\ source \in Sources /\ asked \in Asked /\ rounding \in Roundings /\ new \in Size
  /\ weights \in [num : Nat, den : Nat]
  /\ DOMAIN temp = Pixels(source.height, new.width)
  /\ DOMAIN result = Pixels(new.width, new.height)
  /\ \A image \in {temp, result} : \A pixel \in DOMAIN image : image[pixel] \subseteq SourcePixels
  /\ spawned \in 0 .. Cpus /\ wg \in 0 .. Cpus
  /\ column \in [Workers -> Nat]

Init ==
  /\ at = "called"
  /\ source \in Sources /\ asked \in Asked /\ rounding \in Roundings
  /\ new = [width |-> 0, height |-> 0]
  /\ weights = Scale(1, 1)
  /\ temp = Blank(source.height, 0) /\ result = Blank(0, 0)
  /\ spawned = 0 /\ wg = 0
  /\ column = [i \in Workers |-> 0]

-----------------------------------------------------------------------------
Factors == calcFactors(asked.width, asked.height, source.width, source.height)
Original == [pixel \in SourcePixels |-> {pixel}]

(* Mutant of BeginPass: one goroutine too many is waited for.              *)
BeginPassOverCounted(pass, scale) ==
  /\ at' = pass
  /\ weights' = scale
  /\ spawned' = 0 /\ wg' = Cpus + 1
  /\ column' = [i \in Workers |-> 0]

(* The weights are made and the goroutines are about to be started.        *)
BeginPass(pass, scale) ==
  /\ at' = pass
  /\ weights' = scale
  /\ spawned' = 0 /\ wg' = Cpus
  /\ column' = [i \in Workers |-> 0]

(* An image that has the dimensions already is returned as it is.          *)
Resize ==
  /\ at = "called"
  /\ \E size \in Dimensions(asked.width, asked.height, source.width, source.height) :
       /\ new' = size
       /\ temp' = Blank(source.height, size.width)
       /\ IF size = source
            THEN /\ at' = "returned"
                 /\ result' = Original
                 /\ UNCHANGED <<weights, spawned, column, wg>>
            ELSE /\ result' = Blank(size.width, size.height)
                 /\ BeginPass("first", Factors.x)
  /\ UNCHANGED <<source, asked, rounding>>

Spawn ==
  /\ at \in {"first", "second"} /\ spawned < Cpus
  /\ spawned' = spawned + 1
  /\ UNCHANGED <<at, source, asked, rounding, new, weights, temp, result, column, wg>>

(* The image a goroutine writes, by its rows and columns, and the line it  *)
(* reads for a column of it.                                               *)
Rows == IF at = "first" THEN new.width ELSE new.height
Columns == IF at = "first" THEN source.height ELSE new.width
Line(x) ==
  IF at = "first"
    THEN [c \in 0 .. source.width - 1 |-> {<<c, x>>}]
    ELSE [c \in 0 .. source.height - 1 |-> temp[<<c, x>>]]

Unfinished(i) ==
  /\ at \in {"first", "second"} /\ i < spawned
  /\ column[i] < Columns /\ Slice(i, Cpus, Rows) # {}

Scaled(image, i) ==
  LET x == column[i]
      line == Line(x)
      length == IF at = "first" THEN source.width ELSE source.height
  IN [pixel \in DOMAIN image |->
        IF pixel[1] = x /\ pixel[2] \in Slice(i, Cpus, Rows)
          THEN UNION {line[c] : c \in Samples(pixel[2], weights, length, rounding)}
          ELSE image[pixel]]

(* Goroutine i goes through the columns of its slice.                      *)
Column(i) ==
  /\ Unfinished(i)
  /\ IF at = "first" THEN temp' = Scaled(temp, i) /\ UNCHANGED result
                     ELSE result' = Scaled(result, i) /\ UNCHANGED temp
  /\ column' = [column EXCEPT ![i] = @ + 1]
  /\ UNCHANGED <<at, source, asked, rounding, new, weights, spawned, wg>>

Finished(i) == column[i] = Columns + 1

(* Mutant of Done: not by a goroutine without rows.                        *)
DoneAfterWork(i) ==
  /\ at \in {"first", "second"} /\ i < spawned
  /\ column[i] = Columns
  /\ column' = [column EXCEPT ![i] = Columns + 1]
  /\ wg' = wg - 1
  /\ UNCHANGED <<at, source, asked, rounding, new, weights, temp, result, spawned>>

(* The deferred Done: the column after the last one stands for it.         *)
Done(i) ==
  /\ at \in {"first", "second"} /\ i < spawned
  /\ ~Unfinished(i) /\ ~Finished(i)
  /\ column' = [column EXCEPT ![i] = Columns + 1]
  /\ wg' = wg - 1
  /\ UNCHANGED <<at, source, asked, rounding, new, weights, temp, result, spawned>>

(* Mutant of Waited: the caller goes on when it has started the last.      *)
NotWaited == spawned = Cpus

Waited == spawned = Cpus /\ wg = 0

SecondPass ==
  /\ at = "first" /\ Waited
  /\ BeginPass("second", Factors.y)
  /\ UNCHANGED <<source, asked, rounding, new, temp, result>>

Return ==
  /\ at = "second" /\ Waited
  /\ at' = "returned"
  /\ UNCHANGED <<source, asked, rounding, new, weights, temp, result, spawned, column, wg>>

Worker(i) == Column(i) \/ Done(i)
Caller == Resize \/ Spawn \/ SecondPass \/ Return

Next == Caller \/ \E i \in Workers : Worker(i)

(* The scheduler runs the caller and each goroutine.                       *)
Spec == Init /\ [][Next]_vars /\ WF_vars(Caller) /\ \A i \in Workers : WF_vars(Worker(i))

-----------------------------------------------------------------------------
(* The scaled image, by definition: pixel x, y is made from the columns    *)
(* that make x of a row and the rows that make y of a column.              *)
Reference ==
  [pixel \in Pixels(new.width, new.height) |->
     Samples(pixel[1], Factors.x, source.width, rounding)
       \X Samples(pixel[2], Factors.y, source.height, rounding)]

(***************************************************************************)
(* Whatever the goroutines' order and number, the picture that Resize      *)
(* returns is the one scaled in both directions: both passes, transposed   *)
(* twice, over slices that leave no row out (resize.go 343-583).           *)
(***************************************************************************)
ScalesLikeReference == at = "returned" /\ new # source => result = Reference

(***************************************************************************)
(* A pixel is written once: the slices of two goroutines never overlap, so *)
(* that their writes need no lock (makeSlice, resize.go 612-614).          *)
(***************************************************************************)
PixelsWrittenOnce ==
  [][\A i \in Workers : Column(i) =>
       \A y \in Slice(i, Cpus, Rows) :
         (IF at = "first" THEN temp ELSE result)[<<column[i], y>>] = {}]_vars

(* A source pixel on the edge of a new pixel's box, in its row or column.  *)
OnSomeEdge(s) ==
  \/ \E x \in 0 .. new.width - 1 : OnEdge(s[1], x, Factors.x)
  \/ \E y \in 0 .. new.height - 1 : OnEdge(s[2], y, Factors.y)

NextTo(p, q) == p[1] - q[1] \in -1 .. 1 /\ p[2] - q[2] \in -1 .. 1

MadeFrom(s) == {pixel \in DOMAIN result : s \in result[pixel]}

(***************************************************************************)
(* No pixel is made from nothing, which would be a division by zero        *)
(* (nearest.go 65).  Scaled down to two given dimensions, the new pixels   *)
(* share out those of the source: each is in exactly one of the new ones,  *)
(* but on the edges of their boxes, where float64 may give it to several,  *)
(* next to each other, or to none.  Scaled up, each new one is one of the  *)
(* source.                                                                 *)
(***************************************************************************)
BoxesFit ==
  at = "returned" =>
    /\ \A pixel \in DOMAIN result : result[pixel] # {}
    /\ asked.width \in 1 .. source.width /\ asked.height \in 1 .. source.height =>
         \A s \in SourcePixels :
           /\ ~OnSomeEdge(s) => \E p \in DOMAIN result : MadeFrom(s) = {p}
           /\ \A p, q \in MadeFrom(s) : NextTo(p, q)
    /\ new.width >= source.width /\ new.height >= source.height =>
         \A pixel \in DOMAIN result : \E from \in SourcePixels : result[pixel] = {from}

(***************************************************************************)
(* Resize returns: every goroutine counts itself out of the WaitGroup, the *)
(* ones with no row to work at included.                                   *)
(***************************************************************************)
ResizeReturns == <>(at = "returned")
=============================================================================
