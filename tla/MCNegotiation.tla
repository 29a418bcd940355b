--------------------------- MODULE MCNegotiation ---------------------------
(* Instances of Negotiation for TLC. *)
EXTENDS Negotiation, TLC

CONSTANTS s1, s2, f1, f2, f3

TwoSrcs == {s1, s2}
TwoFormats == {f1, f2}
ThreeFormats == {f1, f2, f3}

\* The sources meet in f2 only, and a query for f1 or f3 suits one of them.
Tastes == s1 :> {f1, f2} @@ s2 :> {f2, f3}

\* s1 offers less than s2.
Narrow == s1 :> {f1} @@ s2 :> {f1, f2}
=============================================================================
