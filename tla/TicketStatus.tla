---------------------------- MODULE TicketStatus ----------------------------
(***************************************************************************)
(* The ticket state machine as data: the statuses, the table of legal       *)
(* transitions and the side effects each target status asks for.            *)
(* Source: shared/types/ticket.ts and core-service/src/tickets/             *)
(* state-machine.ts.                                                        *)
(***************************************************************************)

Statuses == {"open", "assigned", "in_progress", "waiting_on_raiser",
             "resolved", "closed"}

TRANSITIONS ==
  {<<"open", "assigned">>, <<"open", "closed">>,
   <<"assigned", "in_progress">>, <<"assigned", "open">>,
   <<"assigned", "resolved">>,
   <<"in_progress", "waiting_on_raiser">>, <<"in_progress", "resolved">>,
   <<"waiting_on_raiser", "in_progress">>,
   <<"waiting_on_raiser", "resolved">>,
   <<"resolved", "closed">>, <<"resolved", "open">>,
   <<"closed", "open">>}

(* A variant of CanTransition that allows any move.                         *)
AnyMove(from, to) == from # to

(* assertTransition throws unless this holds.                               *)
CanTransition(from, to) == <<from, to>> \in TRANSITIONS

(* What a product credential or an end user may set.                        *)
PRODUCT_SETTABLE_STATUSES == {"closed", "open"}

(* A variant of Revokes that forgets resolving.                             *)
RevokesOnCloseOnly(to) == to = "closed"

(* A variant of Revokes that does not re-assert the revoke on close.         *)
RevokesOnResolveOnly(to) == to = "resolved"

(* effectsFor(to).accessAction = 'revoke'.  The 'issue' and 'reissue'       *)
(* actions of the other statuses are read by no caller.                     *)
Revokes(to) == to \in {"resolved", "closed"}

(* effectsFor(to).event, without its "ticket." prefix.                      *)
EventFor(to) == IF to = "open" THEN "reopened" ELSE to

(* A variant of Stamped that lets a reopened ticket keep its old dates.     *)
StampedKeepsDates(tk, to) ==
  [tk EXCEPT !.assigned_at = @ \/ to = "assigned",
             !.resolved_at = @ \/ to = "resolved",
             !.closed_at   = @ \/ to = "closed"]

(* effectsFor(to).stamp applied to a ticket row; a timestamp column is       *)
(* reduced to whether it is set.                                            *)
Stamped(tk, to) ==
  [tk EXCEPT !.assigned_at = @ \/ to = "assigned",
             !.resolved_at = to # "open" /\ (@ \/ to = "resolved"),
             !.closed_at   = to # "open" /\ (@ \/ to = "closed")]
=============================================================================
