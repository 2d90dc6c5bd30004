SPECIFICATION DeliverySpec
CONSTANTS
  t1 = t1
  t2 = t2
  pa = pa
  pb = pb
  alice = alice
  sam = sam
  r1 = r1
  r2 = r2
  r3 = r3
  Client = Client
  NoOne = NoOne
  Tickets <- OneTicket
  Products <- TwoProducts
  Staff <- BothStaff
  Requests <- TwoRequests
  Agents <- BothStaff
  Supers <- Nobody
  Scopes <- AllProducts
  ScopeHead <- HeadOwn
  TicketProduct <- TicketOwner
  Mechanism <- Mechanisms
  CallbackUrls <- TwoProducts
  Operations <- AccessOperations
  PoolSize = 2
  Answers <- UnlessRefused
  Unsigned <- NoProducts
  MaxAttempts = 2
  BatchLimit = 2
  MaxCrashes = 1
SYMMETRY RequestSymmetry
INVARIANTS
  PendingHasRow
  ConfirmedMeansAcknowledged
  RevokedMeansNotHeld
  GrantedMeansHeld
PROPERTIES
  RevokedStaysRevoked
CHECK_DEADLOCK FALSE
