--------------------------- MODULE MCTicketAccess ---------------------------
(* Small instances of TicketAccess: a callback tenant, a pre-authorised one, *)
(* and two support users.                                                   *)
EXTENDS TicketAccess, TLC

CONSTANTS t1, t2, pa, pb, alice, sam, r1, r2, r3

OneTicket == {t1}
TwoTickets == {t1, t2}
TwoProducts == {pa, pb}
BothStaff == {alice, sam}
JustAlice == {alice}
JustSam == {sam}
Nobody == {}
TwoRequests == {r1, r2}
ThreeRequests == {r1, r2, r3}

(* t1 belongs to the callback tenant, t2 to the other.                      *)
TicketOwner == [t \in Tickets |-> IF t = t1 THEN pa ELSE pb]
Mechanisms == (pa :> "both" @@ pb :> "preauth")
AllProducts == [u \in Staff |-> TwoProducts]
AliceJustA == [u \in Staff |-> IF u = alice THEN {pa} ELSE TwoProducts]

(* The session lists pa first for everyone.                                *)
HeadA == [u \in Staff |-> pa]

EveryOperation == AllOperations
AccessOperations == {"assign", "admin_status", "client_status"}
StaffOperations == {"assign", "admin_status"}

RequestSymmetry == Permutations(Requests)
=============================================================================
