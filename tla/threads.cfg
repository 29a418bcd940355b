SPECIFICATION Spec
CONSTANTS
  s1 = s1
  s2 = s2
  k1 = k1
  k2 = k2
  k3 = k3
  n1 = n1
  n2 = n2
  l1 = l1
  l2 = l2
  NULL = NULL
  Srcs <- OneSrc
  Sinks <- TwoSinks
  NodeNames <- TwoNames
  ListenerNames = {l1}
  NameOf <- OwnName
  MayBlock <- Nobody
  MayRefuse <- K1RefusesS1
  MayKick <- Nobody
  FreshNames = TRUE
  Renames = FALSE
  MaxBusy = 3
SYMMETRY NameSymmetry
INVARIANT OneFeed
PROPERTY LeaveDetaches
PROPERTY ImplementsFeed
