-------------------------- MODULE MCCredentialCache --------------------------
(* A small instance of CredentialCache for TLC.                              *)
EXTENDS CredentialCache, TLC

CONSTANTS p1, g1, pub, cid, colour, title, policy, issuer

OneProduct   == {p1}
NoProduct    == {}
OneGateway   == {g1}
BothColumns  == {pub, cid}
TwoMerges    == {colour, title}
OneConfig    == {policy}
OneUpdate    == {issuer}

CacheSymmetry == Permutations(TwoMerges) \cup Permutations(BothColumns)
=============================================================================
