SPECIFICATION Spec
CONSTANTS
  k1 = k1
  k2 = k2
  t1 = t1
  t2 = t2
  j1 = j1
  j2 = j2
  Keys <- TwoKeys
  Tokens <- TwoTokens
  Jtis <- TwoJtis
  JwksTTL = 3
  Cooldown = 2
  Lifetime = 1
  Tolerance = 1
  FetchLimit = 1
  MaxFetches = 2
  Horizon = 5
SYMMETRY KeysSymmetry
INVARIANTS
  WithdrawnKeyDies
  RefetchesSpaced
PROPERTIES
  GenuineTurnedAwayForCause
CHECK_DEADLOCK FALSE
