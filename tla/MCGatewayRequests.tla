-------------------------- MODULE MCGatewayRequests --------------------------
(* A small instance of GatewayRequests for TLC.                              *)
EXTENDS GatewayRequests, TLC

CONSTANTS core, g1, w1, w2, m1

OneGateway  == {g1}
TwoSlots    == {w1, w2}
OneMessage  == {m1}

Unsigned == {"publishable"}

(* An operation a publishable key may ask for, and one it may not.           *)
SomeOperations == {"write", "unlisted"}

SlotSymmetry == Permutations(TwoSlots)
=============================================================================
