---------------------------- MODULE MCStaffScopes ----------------------------
(* A small instance of StaffScopes for TLC.                                  *)
EXTENDS StaffScopes, TLC

CONSTANTS e1, e2, pa, pb

TwoEdits    == {e1, e2}
TwoTenants == {pa, pb}

StaffSymmetry == Permutations(TwoEdits) \cup Permutations(TwoTenants)
=============================================================================
