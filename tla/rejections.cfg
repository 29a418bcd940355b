SPECIFICATION Spec
CONSTANTS
  s1 = s1
  s2 = s2
  k1 = k1
  k2 = k2
  k3 = k3
  n1 = n1
  n2 = n2
  l1 = l1
  l2 = l2
  NULL = NULL
  Srcs <- OneSrc
  Sinks <- ThreeSinks
  NodeNames <- TwoNames
  ListenerNames = {l1}
  NameOf <- OwnName
  MayBlock <- Nobody
  MayRefuse <- TwoRefuseS1
  MayKick <- OneSink
  FreshNames = TRUE
  Renames = FALSE
  MaxBusy = 1
INVARIANT FedByName
INVARIANT DetachedUnlessListening
INVARIANT RefusedGoesBack
INVARIANT PendingHears
