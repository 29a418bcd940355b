SPECIFICATION Spec
CONSTANTS
  s1 = s1
  s2 = s2
  k1 = k1
  k2 = k2
  k3 = k3
  n1 = n1
  n2 = n2
  l1 = l1
  l2 = l2
  NULL = NULL
  Srcs <- TwoSrcs
  Sinks <- ThreeSinks
  NodeNames <- TwoNames
  ListenerNames = {l1, l2}
  NameOf <- OwnNames
  MayBlock <- Nobody
  MayRefuse <- Nobody
  MayKick <- Nobody
  FreshNames = TRUE
  Renames = FALSE
  MaxBusy = 1
SYMMETRY NodeSymmetry
INVARIANT TypeOK
INVARIANT FedByName
INVARIANT DetachedUnlessListening
INVARIANT TablesAgree
INVARIANT Connected
PROPERTY ListenRegisters
INVARIANT UpstreamFromListener
