-------------------------- MODULE TimestampsProof --------------------------
(* What the arithmetic of stream-sync does, whatever the width of a stamp. *)
EXTENDS Timestamps, TLAPS

\* A shifted stamp is a stamp.
LEMMA ShiftTyped ==
  ASSUME NEW t \in Stamps, NEW a \in Stamps, NEW b \in Stamps
  PROVE  Shift(t, a, b) \in Stamps
BY WidthAssumption DEF Stamps, Shift, Minus, Plus

\* Shifting both stamps of a buffer gives a buffer's stamps again.
LEMMA CompensatedTyped ==
  ASSUME NEW x \in [pts : Stamps, dts : Stamps], NEW a \in Stamps, NEW b \in Stamps
  PROVE  Compensated(x, a, b) \in [pts : Stamps, dts : Stamps]
<1>1. Shift(x.pts, a, b) \in Stamps /\ Shift(x.dts, a, b) \in Stamps
  BY ShiftTyped
<1>2. NONE \in Stamps
  BY WidthAssumption DEF NONE, Stamps
<1> QED BY <1>1, <1>2 DEF Compensated

\* A stamp that passes the check of gst_inter_pipe_src_push_buffer, and does not
\* run over the end of the range, denotes the same instant in both pipelines.
THEOREM InstantKept ==
  ASSUME NEW t \in Stamps, NEW nodeBase \in Stamps, NEW myBase \in Stamps,
         PtsFits(t, nodeBase, myBase),
         t + nodeBase < W + myBase
  PROVE  Shift(t, nodeBase, myBase) + myBase = t + nodeBase
BY WidthAssumption DEF Stamps, Shift, Minus, Plus, PtsFits

\* Such stamps keep their order, so that the buffers of a node stay in order.
THEOREM OrderKept ==
  ASSUME NEW t \in Stamps, NEW u \in Stamps, t <= u,
         NEW nodeBase \in Stamps, NEW myBase \in Stamps,
         PtsFits(t, nodeBase, myBase),
         u + nodeBase < W + myBase
  PROVE  Shift(t, nodeBase, myBase) <= Shift(u, nodeBase, myBase)
BY WidthAssumption DEF Stamps, Shift, Minus, Plus, PtsFits

\* Only PTS is checked: a DTS that lies before the base time of the listener
\* wraps, and comes out after the PTS of its buffer instead of before.
THEOREM DtsWraps ==
  ASSUME NEW dts \in Stamps, NEW pts \in Stamps, dts <= pts,
         NEW nodeBase \in Stamps, NEW myBase \in Stamps,
         PtsFits(pts, nodeBase, myBase),
         ~PtsFits(dts, nodeBase, myBase)
  PROVE  Shift(dts, nodeBase, myBase) > Shift(pts, nodeBase, myBase)
BY WidthAssumption DEF Stamps, Shift, Minus, Plus, PtsFits

\* GST_CLOCK_TIME_NONE is not looked for in PTS: a buffer without PTS passes the
\* check and comes out with one, unless the base times are equal.
THEOREM NonePtsShifted ==
  ASSUME NEW nodeBase \in Stamps, NEW myBase \in Stamps, nodeBase # myBase
  PROVE  PtsFits(NONE, nodeBase, myBase) /\ Shift(NONE, nodeBase, myBase) # NONE
BY WidthAssumption DEF Stamps, NONE, Shift, Minus, Plus, PtsFits

\* No information is lost, wrapped or not: the shift back gives the stamp again.
THEOREM ShiftBack ==
  ASSUME NEW t \in Stamps, NEW a \in Stamps, NEW b \in Stamps
  PROVE  Shift(Shift(t, a, b), b, a) = t
<1>1. CASE b > a
  BY <1>1, WidthAssumption DEF Stamps, Shift, Minus, Plus
<1>2. CASE b <= a
  BY <1>2, WidthAssumption DEF Stamps, Shift, Minus, Plus
<1> QED BY <1>1, <1>2 DEF Stamps
=============================================================================
