SPECIFICATION Spec
CONSTANTS
  core = core
  g1 = g1
  w1 = w1
  w2 = w2
  m1 = m1
  Gateways <- OneGateway
  Core = core
  Slots <- TwoSlots
  Messages <- OneMessage
  Paths <- Unsigned
  Operations <- SomeOperations
  PerSecond = 2
  FreshFor = 1
  NonceTTL = 4
  Ahead = 1
  Limit = 1
  Window = 1
  CommandLimit = 1
  MaxDeliveries = 2
  MaxCalls = 2
  MaxFaults = 1
  Horizon = 5
SYMMETRY SlotSymmetry
INVARIANTS
  AcceptedOnceUnlessAtEdges
  ReplayedMeansAccepted
PROPERTIES
  RefusedForCause
CHECK_DEADLOCK FALSE
