------------------------------ MODULE MCSignIn ------------------------------
(* A small instance of SignIn for TLC.                                       *)
EXTENDS SignIn, TLC

CONSTANTS v1, v2, pa

TwoVisits  == {v1, v2}
OneProduct == {pa}

VisitSymmetry == Permutations(TwoVisits)
=============================================================================
