SPECIFICATION Spec
CONSTANTS
  r0 = r0
  r1 = r1
  r2 = r2
  c1 = c1
  f1 = f1
  u1 = u1
  Nobody = Nobody
  Never = Never
  Raises <- ThreeRaises
  Raised <- OneRaised
  Chats <- OneChat
  Files <- OneFile
  Users <- OneUser
  Scores <- TwoScores
  MinScore = 1
  MaxExtras = 3
  MaxFaults = 1
  Horizon = 2
  Limit = 1
  Fine = 2
SYMMETRY ReadsSymmetry
INVARIANTS
  NumbersGapless
  SelfServedCounts
  PagesMissOnlyTies
  FlagMatchesPayload
CHECK_DEADLOCK FALSE
