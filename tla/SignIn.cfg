SPECIFICATION Spec
CONSTANTS
  v1 = v1
  v2 = v2
  pa = pa
  Visits <- TwoVisits
  Products <- OneProduct
  MaxFailures = 2
  LockFor = 2
  SessionTTL = 1
  LoginLimit = 1
  MaxGuesses = 4
  MaxEdits = 1
  MaxFaults = 1
  Horizon = 3
SYMMETRY VisitSymmetry
INVARIANTS
  AuthorityRunsOut
  GuessesBounded
CHECK_DEADLOCK FALSE
