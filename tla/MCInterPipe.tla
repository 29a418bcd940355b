----------------------------- MODULE MCInterPipe -----------------------------
(* Instances of InterPipe for TLC. *)
EXTENDS InterPipe, TLC

CONSTANTS s1, s2, k1, k2, k3, n1, n2, l1, l2

OneName == {n1}
TwoNames == {n1, n2}
OneSrc == {s1}
TwoSrcs == {s1, s2}
OneSink == {k1}
TwoSinks == {k1, k2}
ThreeSinks == {k1, k2, k3}

\* Each source has a name of its own.
OwnName == s1 :> l1
OwnNames == s1 :> l1 @@ s2 :> l2

\* Two sources of different pipelines have the same name.
SameName == s1 :> l1 @@ s2 :> l1

Nobody == {}
K1RefusesS1 == {<<k1, s1>>}
K1RefusesBoth == {<<k1, s1>>, <<k1, s2>>}
TwoRefuseS1 == {<<k1, s1>>, <<k2, s1>>}

NameSymmetry == Permutations(NodeNames)
NodeSymmetry == Permutations(NodeNames) \union Permutations(Sinks)
=============================================================================
