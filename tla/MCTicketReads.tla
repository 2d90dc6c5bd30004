---------------------------- MODULE MCTicketReads ----------------------------
(* A small instance of TicketReads, and so of RaiseTicket, for TLC.           *)
EXTENDS TicketReads, TLC

CONSTANTS r0, r1, r2, c1, f1, u1

ThreeRaises == {r0, r1, r2}
OneRaised   == {r0}
OneChat     == {c1}
OneFile     == {f1}
OneUser     == {u1}
TwoScores   == {0, 2}

ReadsSymmetry == Permutations({r1, r2})
=============================================================================
