SPECIFICATION FairDeliverySpec
CONSTANTS
  t1 = t1
  t2 = t2
  pa = pa
  pb = pb
  alice = alice
  sam = sam
  r1 = r1
  r2 = r2
  r3 = r3
  Client = Client
  NoOne = NoOne
  Tickets <- OneTicket
  Products <- TwoProducts
  Staff <- BothStaff
  Requests <- TwoRequests
  Agents <- JustAlice
  Supers <- JustSam
  Scopes <- AllProducts
  ScopeHead <- HeadOwn
  TicketProduct <- TicketOwner
  Mechanism <- Mechanisms
  CallbackUrls <- TwoProducts
  Operations <- StaffOperations
  PoolSize = 1
  Answers <- UnlessDenied
  Unsigned <- JustB
  MaxAttempts = 2
  BatchLimit = 2
  MaxCrashes = 1
INVARIANTS
  GivenUpForCause
PROPERTIES
  EveryRowSettles
CHECK_DEADLOCK FALSE
