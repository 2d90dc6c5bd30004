SPECIFICATION Spec
CONSTANTS
  p1 = p1
  g1 = g1
  pub = pub
  cid = cid
  colour = colour
  title = title
  policy = policy
  issuer = issuer
  Products <- OneProduct
  Gateways <- OneGateway
  Columns <- BothColumns
  WidgetEdits <- TwoMerges
  ConfigEdits <- OneConfig
  TenantEdits <- OneUpdate
  Created <- NoProduct
  TTL = 1
  LookupLimit = 1
  Horizon = 4
SYMMETRY CacheSymmetry
INVARIANTS
  StaleAtMost
  StaleForCause
  
CHECK_DEADLOCK FALSE
