SPECIFICATION Spec
CONSTANTS
  t1 = t1
  t2 = t2
  pa = pa
  pb = pb
  alice = alice
  sam = sam
  r1 = r1
  r2 = r2
  r3 = r3
  Client = Client
  NoOne = NoOne
  Tickets <- TwoTickets
  Products <- TwoProducts
  Staff <- BothStaff
  Requests <- ThreeRequests
  Agents <- JustAlice
  Supers <- JustSam
  Scopes <- AliceJustA
  ScopeHead <- HeadA
  TicketProduct <- TicketOwner
  Mechanism <- Mechanisms
  CallbackUrls <- TwoProducts
  Operations <- EveryOperation
  PoolSize = 3
SYMMETRY RequestSymmetry
INVARIANTS
  SingleHolder
  ResolvedMeansRevoked
  LayersAgree
  RevokeHasEvent
  StampsMatchStatus
  ClosedAccessForCause
PROPERTIES
  PromiseKept
  LegalUnlessOvertaken
CHECK_DEADLOCK FALSE
