-------------------------- MODULE MCAccessDelivery --------------------------
(* Small instances of AccessDelivery: the tenants and support users of       *)
(* MCTicketAccess, with the ways a callback may end.                        *)
EXTENDS AccessDelivery, MCTicketAccess

NoProducts == {}
HeadOwn == [u \in Staff |-> IF u = alice THEN pa ELSE pb]
JustB == {pb}

AnyAnswer == AllAnswers
UnlessRefused == AllAnswers \ {"client_error"}
UnlessDenied == AllAnswers \ {"denied"}
=============================================================================
