--------------------------- MODULE PlatformAccess ---------------------------
(***************************************************************************)
(* What the platform promises about the payload of a ticket: at any time at *)
(* most one support user holds it, only an assignment hands it over, only   *)
(* to a user scoped to the ticket's tenant, and a resolved ticket is held   *)
(* by nobody.  How the grants are stored, and how requests interleave, is   *)
(* left to the implementation.                                              *)
(***************************************************************************)
CONSTANTS Tickets, Staff, NoOne,
          MayHold         \* the support users scoped to a ticket's tenant

VARIABLES holder,         \* who may read the payload of a ticket, or NoOne
          resolved        \* whether the ticket stands resolved

accessVars == <<holder, resolved>>

AccessInit ==
  /\ holder = [t \in Tickets |-> NoOne]
  /\ resolved = [t \in Tickets |-> FALSE]

Assign(t, u) ==
  /\ u \in MayHold[t]
  /\ holder' = [holder EXCEPT ![t] = u]
  /\ resolved' = [resolved EXCEPT ![t] = FALSE]

Resolve(t) ==
  /\ holder' = [holder EXCEPT ![t] = NoOne]
  /\ resolved' = [resolved EXCEPT ![t] = TRUE]

(* Support staff close the ticket.                                          *)
Withdraw(t) ==
  /\ holder' = [holder EXCEPT ![t] = NoOne]
  /\ resolved' = [resolved EXCEPT ![t] = FALSE]

(* Any other change of status leaves the holder alone.                      *)
Move(t) ==
  /\ resolved' = [resolved EXCEPT ![t] = FALSE]
  /\ UNCHANGED holder

AccessNext ==
  \E t \in Tickets :
    \/ \E u \in Staff : Assign(t, u)
    \/ Resolve(t)
    \/ Withdraw(t)
    \/ Move(t)

AccessSpec == AccessInit /\ [][AccessNext]_accessVars
=============================================================================
