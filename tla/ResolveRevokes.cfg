SPECIFICATION DeliverySpec
CONSTANTS
  t1 = t1
  t2 = t2
  pa = pa
  pb = pb
  alice = alice
  sam = sam
  r1 = r1
  r2 = r2
  r3 = r3
  Client = Client
  NoOne = NoOne
  Tickets <- OneTicket
  Products <- TwoProducts
  Staff <- JustSam
  Requests <- TwoRequests
  Agents <- Nobody
  Supers <- JustSam
  Scopes <- AllProducts
  ScopeHead <- HeadA
  TicketProduct <- TicketOwner
  Mechanism <- Mechanisms
  CallbackUrls <- TwoProducts
  Operations <- AccessOperations
  PoolSize = 2
  Answers <- AnyAnswer
  Unsigned <- NoProducts
  MaxAttempts = 2
  BatchLimit = 2
  MaxCrashes = 0
SYMMETRY RequestSymmetry
INVARIANTS
  ResolveRevokesBoth
CHECK_DEADLOCK FALSE
