SPECIFICATION Spec
CONSTANTS
  s1 = s1
  s2 = s2
  s3 = s3
  s4 = s4
  k1 = k1
  k2 = k2
  k3 = k3
  NULL = NULL
  W = 16
  Srcs <- AllSrcs
  Sinks <- AllSinks
  Mode <- Sync
  Nodes <- Homes
  Bases <- SrcBases
  NodeBase <- SinkBases
  Media <- Films
  Kinds <- Seen
  MaxEvents <- Budget
  ForwardsEvents <- AllSinks
  ForwardsEos = {k1, k3}
  AcceptsEvents = {s1, s3}
  AcceptsEos <- AllSrcs
  Scenes <- FourScenes
  Halts = {s3, s4}
  Switches = {s1}
INVARIANT TypeOK
INVARIANT InOrder
INVARIANT StampKept
INVARIANT NothingMissed
INVARIANT EarlyByOne
PROPERTY FedWhileAttached
PROPERTY EosArrives
