----------------------------- MODULE Timestamps -----------------------------
(***************************************************************************)
(* The arithmetic of stream-sync (gstinterpipesrc.c).  A time stamp is an  *)
(* unsigned integer that counts from the base time of its pipeline, and    *)
(* GST_CLOCK_TIME_NONE is its largest value.  A buffer or an event that    *)
(* goes from one pipeline to another is shifted by the difference of their *)
(* base times.                                                             *)
(***************************************************************************)
EXTENDS Integers

CONSTANT W  \* number of values of a stamp (2^64 in the code)

ASSUME WidthAssumption == W \in Nat /\ W > 1

Stamps == 0 .. W - 1
NONE == W - 1

\* Subtraction and addition of unsigned integers, which wrap.
Minus(a, b) == IF a >= b THEN a - b ELSE a - b + W
Plus(a, b) == IF a + b < W THEN a + b ELSE a + b - W

\* A stamp of a node with base time nodeBase, in a pipeline with base time myBase.
Shift(t, nodeBase, myBase) ==
  IF myBase > nodeBase THEN Minus(t, myBase - nodeBase) ELSE Plus(t, nodeBase - myBase)

\* The check made on PTS, and on nothing else.
PtsFits(t, nodeBase, myBase) == myBase > nodeBase => t >= myBase - nodeBase

\* Both stamps of a buffer.
Compensated(b, nodeBase, myBase) ==
  [pts |-> Shift(b.pts, nodeBase, myBase),
   dts |-> IF b.dts = NONE THEN NONE ELSE Shift(b.dts, nodeBase, myBase)]

\* restart-ts leaves both stamps to be set by the base class.
Restarted == [pts |-> NONE, dts |-> NONE]
=============================================================================
