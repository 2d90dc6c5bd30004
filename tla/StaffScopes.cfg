SPECIFICATION ScopesSpec
CONSTANTS
  e1 = e1
  e2 = e2
  pa = pa
  pb = pb
  Origin = Origin
  NoAccount = NoAccount
  Edits <- TwoEdits
  Tenants <- TwoTenants
  MaxFailedEdits = 1
SYMMETRY StaffSymmetry
PROPERTIES
  EditReplaces
  OutOfReachUntouched
CHECK_DEADLOCK FALSE
