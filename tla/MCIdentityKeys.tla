--------------------------- MODULE MCIdentityKeys ---------------------------
(* A small instance of IdentityKeys for TLC.                                 *)
EXTENDS IdentityKeys, TLC

CONSTANTS k1, k2, t1, t2, j1, j2

TwoKeys   == {k1, k2}
TwoTokens == {t1, t2}
TwoJtis   == {j1, j2}

KeysSymmetry ==
  Permutations(TwoKeys) \cup Permutations(TwoTokens) \cup Permutations(TwoJtis)
=============================================================================
