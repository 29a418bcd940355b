------------------------------ MODULE MCStream ------------------------------
(* Instances of Stream for TLC. *)
EXTENDS Stream, TLC

CONSTANTS s1, s2, s3, s4, k1, k2, k3

\* s1 goes between the sinks and compensates, s2 stays on k1 and changes nothing;
\* s3 and s4 listen to k3 and may be paused and stopped, and s4 restarts the stamps.
AllSrcs == {s1, s2, s3, s4}
AllSinks == {k1, k2, k3}
Sync == s1 :> "compensate" @@ s2 :> "passthrough" @@ s3 :> "passthrough" @@ s4 :> "restart"
Homes == s1 :> {k1, k2} @@ s2 :> {k1} @@ s3 :> {k3} @@ s4 :> {k3}

\* With s1, buffers of k1 go back by 1 and those of k2 forward by 1.
SrcBases == s1 :> {3} @@ s2 :> {2} @@ s3 :> {2} @@ s4 :> {5}
SinkBases == k1 :> 2 @@ k2 :> 4 @@ k3 :> 2

Buf(p, d) == [pts |-> p, dts |-> d]
Films ==
  k1 :> <<Buf(0, 0), Buf(2, 1)>> @@ k2 :> <<Buf(1, NONE)>> @@ k3 :> <<Buf(1, 0), Buf(2, 1)>>

Seen == k1 :> {"serialized"} @@ k2 :> {"oob"} @@ k3 :> {"serialized"}
Budget == k1 :> 1 @@ k2 :> 1 @@ k3 :> 2

Off == [x \in AllSrcs \union AllSinks |-> "off"]
Shared == s1 :> "new" @@ s2 :> "playing" @@ k1 :> "new" @@ Off
Switching == s1 :> "playing" @@ k1 :> "playing" @@ k2 :> "playing" @@ Off
Halting == s3 :> "new" @@ k3 :> "new" @@ Off
Restarting == s4 :> "new" @@ k3 :> "new" @@ Off
Plain == s3 :> "playing" @@ k3 :> "playing" @@ Off
FourScenes == {Shared, Switching, Halting, Restarting}
OneScene == {Plain}
=============================================================================
