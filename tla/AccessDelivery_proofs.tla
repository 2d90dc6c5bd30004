----------------------- MODULE AccessDelivery_proofs -----------------------
(***************************************************************************)
(* Proofs about TicketAccess, for every set of tickets, requests, support    *)
(* users and tenants, and about AccessDelivery, which extends it, for any    *)
(* answers of the products and any number of crashes; the last part is about  *)
(* the order of deliveries and what the products honour.                     *)
(***************************************************************************)
EXTENDS AccessDelivery, FiniteSetTheorems, TLAPS

-----------------------------------------------------------------------------
(* TicketAccess.  The safety invariants are not inductive alone: they rest    *)
(* on what a request may look like at each phase (RequestsOK).               *)

(* What a request that passed its checks asks for.                          *)
WellFormed(c) ==
  /\ c \in Call
  /\ c.op # "none"
  /\ c.ticket \in Tickets
  /\ c.caller \in Staff \cup {Client}
  /\ c.op = "assign" => /\ c.agent \in Staff /\ c.to = "assigned"
                         /\ Eligible(c.agent, c.ticket)
  /\ c.op = "client_status" => c.to \in PRODUCT_SETTABLE_STATUSES

(* A request that has not begun names no ticket, one that has is well        *)
(* formed, and only one that committed may have issued a grant.             *)
RequestsOK ==
  \A r \in Requests :
    /\ phase[r] = "idle" => call[r] = NoCall
    /\ phase[r] # "idle" => WellFormed(call[r])
    /\ phase[r] # "done" => platform[r] = "none" /\ product[r] = "none"

(* A row of the outbox was written by a committed request and is about a      *)
(* callback grant that a committed request issued.                           *)
RowsOK ==
  \A row \in outbox :
    /\ phase[row.by] = "done" /\ phase[row.grant] = "done"
    /\ Callback(call[row.grant].ticket)
    /\ product[row.grant] # "none"

TypeInv == TypeOK /\ RequestsOK /\ RowsOK

-----------------------------------------------------------------------------
(* The reading steps.                                                       *)

(* Whichever handler opens a request, what it asks for is well formed.      *)
LEMMA BeginWellFormed ==
  ASSUME TypeOK, NEW r \in Requests, BeginRequest(r)
  PROVE  \E c \in Call : WellFormed(c) /\ Begin(r, c)
<1> USE ActorsAssumption DEF Asking, Call, WellFormed, AllOperations
<1>0. \A t \in Tickets : ticket[t].status \in Statuses
  BY DEF TypeOK, TicketRow
<1>1. CASE BeginAssign(r)
  <2>1. PICK t \in Tickets, u \in Staff, a \in Staff :
          Eligible(a, t) /\ Begin(r, Asking("assign", t, u, "assigned", a))
    BY <1>1 DEF BeginAssign
  <2>2. WellFormed(Asking("assign", t, u, "assigned", a))
    BY <1>0, <2>1 DEF Statuses
  <2> QED BY <2>1, <2>2
<1>2. CASE BeginAdminStatus(r)
  <2>1. PICK t \in Tickets, u \in Staff, to \in Statuses :
          Begin(r, Asking("admin_status", t, u, to, NoOne))
    BY <1>2 DEF BeginAdminStatus
  <2>2. WellFormed(Asking("admin_status", t, u, to, NoOne))
    BY <1>0
  <2> QED BY <2>1, <2>2
<1>3. CASE BeginClientStatus(r)
  <2>1. PICK t \in Tickets, to \in PRODUCT_SETTABLE_STATUSES :
          Begin(r, Asking("client_status", t, Client, to, NoOne))
    BY <1>3 DEF BeginClientStatus
  <2>2. WellFormed(Asking("client_status", t, Client, to, NoOne))
    BY <1>0 DEF PRODUCT_SETTABLE_STATUSES, Statuses
  <2> QED BY <2>1, <2>2
<1>4. CASE BeginRate(r)
  <2>1. PICK t \in Tickets :
          Begin(r, Asking("rate", t, Client, ticket[t].status, NoOne))
    BY <1>4 DEF BeginRate
  <2>2. WellFormed(Asking("rate", t, Client, ticket[t].status, NoOne))
    BY <1>0
  <2> QED BY <2>1, <2>2
<1>5. CASE BeginComment(r)
  <2>1. PICK t \in Tickets, u \in Staff \cup {Client}, op \in {"comment", "note"} :
          Begin(r, Asking(op, t, u, ticket[t].status, NoOne))
    BY <1>5 DEF BeginComment
  <2>2. WellFormed(Asking(op, t, u, ticket[t].status, NoOne))
    BY <1>0
  <2> QED BY <2>1, <2>2
<1> QED BY <1>1, <1>2, <1>3, <1>4, <1>5 DEF BeginRequest

(* A committing request names a ticket and files its rows under a tenant.   *)
LEMMA CommittingCall ==
  ASSUME TypeOK, RequestsOK, NEW r \in Requests, NEW op, Committing(r, op)
  PROVE  /\ WellFormed(call[r])
         /\ call[r].op = op
         /\ call[r].ticket \in Tickets
         /\ call[r].to \in Statuses
         /\ FiledUnder(r) \in Products
         /\ platform[r] = "none" /\ product[r] = "none"
         /\ phase' = [phase EXCEPT ![r] = "done"]
         /\ call' = call
<1>1. phase[r] = "open" /\ call[r].op = op
  BY DEF Committing
<1>2. WellFormed(call[r]) /\ platform[r] = "none" /\ product[r] = "none"
  BY <1>1 DEF RequestsOK
<1>3. FiledUnder(r) \in Products
  BY <1>2, ActorsAssumption, TenantsAssumption DEF FiledUnder, WellFormed
<1>4. call[r].ticket \in Tickets /\ call[r].to \in Statuses
  BY <1>2 DEF WellFormed, Call
<1> QED BY <1>1, <1>2, <1>3, <1>4 DEF Committing

-----------------------------------------------------------------------------
(* Types of what the writing steps write.                                   *)

LEMMA RevokedTypes ==
  ASSUME TypeOK, NEW t \in Tickets
  PROVE  /\ PlatformRevoked(t) \in [Requests -> PlatformStates]
         /\ ProductRevoked(t) \in [Requests -> ProductStates]
         /\ TokenRevoked(t) \in {"none", "inert", "active", "revoked"}
BY DEF TypeOK, PlatformRevoked, ProductRevoked, RevokeState, TokenRevoked,
       PlatformStates, ProductStates

LEMMA RowTypes ==
  ASSUME NEW r \in Requests, FiledUnder(r) \in Products, NEW t \in Tickets
  PROVE  /\ RevokeRows(r, t) \subseteq AccessRow
         /\ AccessEvent("grant_requested", r, r) \in AccessRow
         /\ \A to \in Statuses : TicketEvent(EventFor(to), r) \in EventRow
         /\ \A event \in {"assigned", "rated", "comment_added"} :
              TicketEvent(event, r) \in EventRow
         /\ \A action \in {"ticket.assigned", "ticket.status_changed",
                           "ticket.rated", "ticket.comment_added",
                           "ticket.internal_note_added", "access.revoked"} :
              Audited(action, r) \in AuditRow
         /\ RevokeAudit(r, t) \subseteq AuditRow
         /\ GrantAudit(r, t) \in AuditRow
<1>1. RevokeRows(r, t) \subseteq AccessRow
  BY DEF RevokeRows, AccessEvent, AccessRow, LiveProduct, GrantsOf
<1>2. AccessEvent("grant_requested", r, r) \in AccessRow
  BY DEF AccessEvent, AccessRow
<1>3. \A to \in Statuses : TicketEvent(EventFor(to), r) \in EventRow
  BY DEF TicketEvent, EventFor, EventRow, Statuses
<1>4. \A event \in {"assigned", "rated", "comment_added"} :
        TicketEvent(event, r) \in EventRow
  BY DEF TicketEvent, EventRow
<1>5. \A action \in {"ticket.assigned", "ticket.status_changed",
                     "ticket.rated", "ticket.comment_added",
                     "ticket.internal_note_added", "access.revoked"} :
        Audited(action, r) \in AuditRow
  BY DEF Audited, AuditRow
<1>6. RevokeAudit(r, t) \subseteq AuditRow
  BY <1>5 DEF RevokeAudit
<1>7. GrantAudit(r, t) \in AuditRow
  BY TenantsAssumption DEF GrantAudit, AuditRow
<1> QED BY <1>1, <1>2, <1>3, <1>4, <1>5, <1>6, <1>7

LEMMA StampedTypes ==
  ASSUME NEW tk \in TicketRow, NEW to \in Statuses
  PROVE  [Stamped(tk, to) EXCEPT !.status = to] \in TicketRow
<1>1. ASSUME NEW a \in BOOLEAN, NEW b \in BOOLEAN, NEW c \in BOOLEAN
      PROVE  [[tk EXCEPT !.assigned_at = a, !.resolved_at = b, !.closed_at = c]
                EXCEPT !.status = to] \in TicketRow
  BY DEF TicketRow
<1>2. /\ (tk.assigned_at \/ to = "assigned") \in BOOLEAN
      /\ (to # "open" /\ (tk.resolved_at \/ to = "resolved")) \in BOOLEAN
      /\ (to # "open" /\ (tk.closed_at \/ to = "closed")) \in BOOLEAN
  OBVIOUS
<1> QED BY <1>1, <1>2, Zenon DEF Stamped

(* What an assignment or a rating writes to a ticket row.                   *)
LEMMA WrittenTypes ==
  ASSUME NEW tk \in TicketRow
  PROVE  /\ \A a \in Staff :
              [tk EXCEPT !.status = "assigned", !.assignee = a,
                         !.assigned_at = TRUE] \in TicketRow
         /\ [tk EXCEPT !.rated = TRUE] \in TicketRow
<1>1. ASSUME NEW a \in Staff
      PROVE  [tk EXCEPT !.status = "assigned", !.assignee = a,
                        !.assigned_at = TRUE] \in TicketRow
  BY DEF TicketRow, Statuses
<1>2. [tk EXCEPT !.rated = TRUE] \in TicketRow
  BY DEF TicketRow
<1> QED BY <1>1, <1>2

LEMMA StatusTypes ==
  ASSUME TypeOK, NEW r \in Requests, NEW t \in Tickets,
         call[r].to \in Statuses, StatusWritten(r, t)
  PROVE  ticket' \in [Tickets -> TicketRow]
<1>1. ticket \in [Tickets -> TicketRow]
  BY DEF TypeOK
<1>2. [Stamped(ticket[t], call[r].to) EXCEPT !.status = call[r].to] \in TicketRow
  BY <1>1, StampedTypes
<1> QED BY <1>1, <1>2 DEF StatusWritten

-----------------------------------------------------------------------------
(* What a committing request does to grants and rows.                       *)

(* The states revokeGrants looks for.                                        *)
Live(g) == product[g] \in {"granted", "grant_pending", "grant_failed"}

(* How the state of a product grant and the outbox may change together.      *)
GrantMoved(g, r) ==
  \/ product'[g] = product[g]
  \/ /\ product'[g] = "grant_pending" /\ g = r /\ phase[r] = "open"
     /\ \E row \in outbox' : row.by = r /\ row.grant = g /\ row.kind = "grant_requested"
  \/ /\ product'[g] = "revoke_pending" /\ Live(g) /\ phase[r] = "open"
     /\ \E row \in outbox' : row.by = r /\ row.grant = g /\ row.kind = "revoke_requested"
  \/ /\ product'[g] = "granted" /\ g = r /\ phase[r] = "open"
     /\ ~Callback(call[g].ticket)
  \/ /\ product'[g] = "revoked" /\ Live(g)
     /\ ~Callback(call[g].ticket)

(* A row asks for the grant its request issues, or for the end of one that a  *)
(* committed request issued.                                                 *)
GrantAsked(row, r) ==
  /\ row.kind = "grant_requested" /\ row.grant = r
  /\ phase[r] = "open" /\ product'[r] = "grant_pending"

RevokeAsked(row) ==
  row.kind = "revoke_requested" /\ phase[row.grant] = "done" /\ Live(row.grant)

RowsAdded(r) ==
  /\ outbox \subseteq outbox'
  /\ \A row \in outbox' \ outbox :
       /\ row.by = r /\ (GrantAsked(row, r) \/ RevokeAsked(row))
       /\ Callback(call[row.grant].ticket)

(* A grant that revokeGrants finds was issued by a committed request, and its *)
(* new state comes with its row.                                             *)
LEMMA RevokeMoves ==
  ASSUME TypeInv, NEW r \in Requests, NEW t \in Tickets
  PROVE  /\ \A row \in RevokeRows(r, t) :
              row.by = r /\ RevokeAsked(row) /\ Callback(call[row.grant].ticket)
         /\ \A g \in Requests :
              \/ ProductRevoked(t)[g] = product[g]
              \/ /\ ProductRevoked(t)[g] = "revoke_pending" /\ Live(g)
                 /\ \E row \in RevokeRows(r, t) :
                      row.by = r /\ row.grant = g /\ row.kind = "revoke_requested"
              \/ /\ ProductRevoked(t)[g] = "revoked" /\ Live(g)
                 /\ ~Callback(call[g].ticket)
<1>1. \A g \in LiveProduct(t) : phase[g] = "done" /\ Live(g) /\ call[g].ticket = t
  BY DEF LiveProduct, GrantsOf, Live, TypeInv, RequestsOK
<1>2. \A row \in RevokeRows(r, t) :
        row.by = r /\ RevokeAsked(row) /\ Callback(call[row.grant].ticket)
  BY <1>1 DEF RevokeRows, AccessEvent, RevokeAsked
<1>3. ASSUME NEW g \in LiveProduct(t), Callback(t)
      PROVE  \E row \in RevokeRows(r, t) :
               row.by = r /\ row.grant = g /\ row.kind = "revoke_requested"
  <2>1. AccessEvent("revoke_requested", g, r) \in RevokeRows(r, t)
    BY <1>3 DEF RevokeRows
  <2> QED BY <2>1 DEF AccessEvent
<1>4. ASSUME NEW g \in Requests
      PROVE  ProductRevoked(t)[g] = IF g \in LiveProduct(t) THEN RevokeState(t) ELSE product[g]
  BY DEF ProductRevoked
<1> QED BY <1>1, <1>2, <1>3, <1>4 DEF RevokeState

LEMMA CommitMoves ==
  ASSUME TypeInv, NEW r \in Requests, CommitRequest(r)
  PROVE  /\ phase[r] = "open" /\ phase' = [phase EXCEPT ![r] = "done"]
         /\ call' = call
         /\ RowsAdded(r)
         /\ \A g \in Requests : GrantMoved(g, r)
<1> DEFINE t == call[r].ticket
<1>1. PICK op \in AllOperations : Committing(r, op)
  BY DEF CommitRequest, CommitAssign, CommitAdminStatus, CommitClientStatus, CommitRate,
         CommitComment, CommitNote, AllOperations
<1>2. /\ phase[r] = "open" /\ phase' = [phase EXCEPT ![r] = "done"]
      /\ call' = call
  BY <1>1 DEF Committing
<1>3. t \in Tickets /\ product[r] = "none"
  BY <1>1, CommittingCall DEF TypeInv
<1>4. CASE UNCHANGED <<outbox, product>>
  BY <1>2, <1>4 DEF RowsAdded, GrantMoved
<1>5. CASE CommitAssign(r)
  <2>1. product' = [ProductRevoked(t) EXCEPT ![r] = IssuedState(r, t)]
    BY <1>5 DEF CommitAssign
  <2>2. outbox' = outbox \cup RevokeRows(r, t)
                    \cup (IF CallbackIssued(t)
                          THEN {AccessEvent("grant_requested", r, r)} ELSE {})
    BY <1>5 DEF CommitAssign
  <2>3. RowsAdded(r)
    <3>1. ASSUME NEW row \in outbox', row \notin outbox, row \notin RevokeRows(r, t)
          PROVE  /\ row.by = r /\ GrantAsked(row, r)
                 /\ Callback(call[row.grant].ticket)
      <4>1. CallbackIssued(t) /\ row = AccessEvent("grant_requested", r, r)
        BY <2>2, <3>1
      <4>2. product'[r] = "grant_pending"
        BY <2>1, <4>1 DEF ProductRevoked, IssuedState
      <4> QED BY <1>2, <4>1, <4>2 DEF AccessEvent, GrantAsked, CallbackIssued
    <3>2. outbox \subseteq outbox'
      BY <2>2
    <3> QED BY <1>3, <3>1, <3>2, RevokeMoves DEF RowsAdded
  <2>4. ASSUME NEW g \in Requests, g # r PROVE GrantMoved(g, r)
    <3>1. product'[g] = ProductRevoked(t)[g]
      BY <2>1, <2>4 DEF ProductRevoked
    <3> QED BY <1>2, <1>3, <2>2, <3>1, RevokeMoves DEF GrantMoved
  <2>5. GrantMoved(r, r)
    <3>1. product'[r] = IssuedState(r, t)
      BY <2>1 DEF ProductRevoked
    <3>2. CASE CallbackIssued(t)
      <4>1. AccessEvent("grant_requested", r, r) \in outbox'
        BY <2>2, <3>2
      <4>2. \E row \in outbox' : row.by = r /\ row.grant = r /\ row.kind = "grant_requested"
        BY <4>1 DEF AccessEvent
      <4> QED BY <1>2, <3>1, <3>2, <4>2 DEF GrantMoved, IssuedState
    <3>3. CASE ~CallbackIssued(t)
      BY <1>2, <1>3, <3>1, <3>3 DEF GrantMoved, IssuedState, TokenBound
    <3> QED BY <3>2, <3>3
  <2> QED BY <1>2, <2>3, <2>4, <2>5
<1>6. CASE CommitAdminStatus(r) /\ Revokes(call[r].to)
  <2>1. product' = ProductRevoked(t) /\ outbox' = outbox \cup RevokeRows(r, t)
    BY <1>6 DEF CommitAdminStatus
  <2>2. RowsAdded(r)
    BY <1>3, <2>1, RevokeMoves DEF RowsAdded
  <2>3. \A g \in Requests : GrantMoved(g, r)
    BY <1>2, <1>3, <2>1, RevokeMoves DEF GrantMoved
  <2> QED BY <1>2, <2>2, <2>3
<1>7. CASE CommitAdminStatus(r) /\ ~Revokes(call[r].to)
  BY <1>4, <1>7 DEF CommitAdminStatus
<1>8. CASE CommitClientStatus(r) \/ CommitRate(r) \/ CommitComment(r) \/ CommitNote(r)
  BY <1>4, <1>8 DEF CommitClientStatus, CommitRate, CommitComment, CommitNote, grantVars
<1> QED BY <1>5, <1>6, <1>7, <1>8 DEF CommitRequest

(* A request that begins or rolls back leaves grants and rows alone.         *)
LEMMA BeginMoves ==
  ASSUME TypeInv, NEW r \in Requests, BeginRequest(r) \/ Rollback(r)
  PROVE  /\ UNCHANGED <<product, outbox>>
         /\ \A g \in Requests : phase[g] = "done" => phase'[g] = "done"
         /\ \A g \in Requests : phase[g] # "idle" => call'[g] = call[g]
<1>1. CASE BeginRequest(r)
  <2>1. PICK c \in Call : Begin(r, c)
    BY <1>1, BeginWellFormed DEF TypeInv
  <2> QED BY <2>1 DEF Begin, grantVars, rowVars, TypeInv, TypeOK
<1>2. CASE Rollback(r)
  BY <1>2 DEF Rollback, grantVars, rowVars, TypeInv, TypeOK
<1> QED BY <1>1, <1>2

-----------------------------------------------------------------------------
(* Type correctness.                                                        *)

LEMMA TypeInit == Init => TypeInv
<1> USE ActorsAssumption DEF Init, TypeInv
<1>1. Init => ticket \in [Tickets -> TicketRow]
  BY DEF NewTicket, TicketRow, Statuses
<1>2. Init => call \in [Requests -> Call]
  BY DEF NoCall, Call, Statuses
<1>3. Init => RequestsOK /\ RowsOK
  BY DEF RequestsOK, RowsOK
<1> QED BY <1>1, <1>2, <1>3 DEF TypeOK, PlatformStates, ProductStates

LEMMA TypeBegin ==
  ASSUME TypeInv, NEW r \in Requests, BeginRequest(r)
  PROVE  TypeInv'
<1>1. PICK c \in Call : WellFormed(c) /\ Begin(r, c)
  BY BeginWellFormed DEF TypeInv
<1>2. TypeOK'
  BY <1>1 DEF TypeInv, TypeOK, Begin, grantVars, rowVars
<1>3. RequestsOK'
  BY <1>1 DEF TypeInv, TypeOK, RequestsOK, Begin, WellFormed, grantVars
<1>4. RowsOK'
  BY BeginMoves DEF TypeInv, TypeOK, RowsOK, AccessRow
<1> QED BY <1>2, <1>3, <1>4 DEF TypeInv

LEMMA RequestsOKCommitted ==
  ASSUME TypeInv, NEW r \in Requests, NEW op, Committing(r, op),
         \A g \in Requests : phase[g] # "done" /\ g # r =>
            platform'[g] = platform[g] /\ product'[g] = product[g]
  PROVE  RequestsOK'
<1>1. /\ phase' = [phase EXCEPT ![r] = "done"] /\ call' = call
      /\ WellFormed(call[r])
  BY CommittingCall DEF TypeInv
<1> QED BY <1>1 DEF TypeInv, TypeOK, RequestsOK, WellFormed

(* Revoking touches no grant of a request that has not committed.           *)
LEMMA RevokeSparesUnused ==
  ASSUME TypeInv, NEW t \in Tickets, NEW g \in Requests, phase[g] # "done"
  PROVE  PlatformRevoked(t)[g] = platform[g] /\ ProductRevoked(t)[g] = product[g]
<1>1. platform[g] = "none" /\ product[g] = "none"
  BY DEF TypeInv, RequestsOK
<1> QED BY <1>1 DEF PlatformRevoked, ProductRevoked, LivePlatform, LiveProduct

LEMMA CommitTypes ==
  ASSUME TypeInv, NEW r \in Requests, CommitRequest(r)
  PROVE  TypeOK' /\ RequestsOK'
<1> DEFINE t == call[r].ticket
<1> USE DEF TypeInv
<1>1. CASE CommitAssign(r)
  <2>1. Committing(r, "assign")
    BY <1>1 DEF CommitAssign
  <2>2. /\ WellFormed(call[r]) /\ t \in Tickets /\ call[r].op = "assign"
        /\ FiledUnder(r) \in Products
        /\ product[r] = "none"
        /\ phase' = [phase EXCEPT ![r] = "done"] /\ call' = call
    BY <2>1, CommittingCall
  <2>3. ticket' \in [Tickets -> TicketRow]
    <3>1. ticket \in [Tickets -> TicketRow] /\ call[r].agent \in Staff
      BY <2>2 DEF TypeOK, WellFormed
    <3>2. [ticket[t] EXCEPT !.status = "assigned", !.assignee = call[r].agent,
                            !.assigned_at = TRUE] \in TicketRow
      BY <3>1, <2>2, WrittenTypes
    <3> QED BY <1>1, <2>2, <3>1, <3>2 DEF CommitAssign
  <2>4. IssuedState(r, t) \in ProductStates
    BY <2>2 DEF IssuedState, ProductStates
  <2>5. /\ platform' \in [Requests -> PlatformStates]
        /\ product' \in [Requests -> ProductStates]
        /\ preauth' \in [Tickets -> {"none", "inert", "active", "revoked"}]
    <3>1. platform' = [PlatformRevoked(t) EXCEPT ![r] = "granted"]
      BY <1>1 DEF CommitAssign
    <3>2. product' = [ProductRevoked(t) EXCEPT ![r] = IssuedState(r, t)]
      BY <1>1 DEF CommitAssign
    <3>3. preauth' = [preauth EXCEPT ![t] = IF TokenBound(t) THEN "active"
                                                             ELSE TokenRevoked(t)]
      BY <1>1 DEF CommitAssign
    <3> QED BY <3>1, <3>2, <3>3, <2>2, <2>4, RevokedTypes DEF TypeOK, PlatformStates
  <2>6. /\ outbox' \subseteq AccessRow
        /\ ticketEvents' \subseteq EventRow
        /\ audit' \subseteq AuditRow
    BY <1>1, <2>2, RowTypes DEF CommitAssign, TypeOK
  <2>7. TypeOK'
    BY <2>2, <2>3, <2>5, <2>6 DEF TypeOK
  <2>8. RequestsOK'
    BY <1>1, <2>1, <2>2, RevokeSparesUnused, RequestsOKCommitted, RevokedTypes
       DEF CommitAssign
  <2> QED BY <2>7, <2>8
<1>2. CASE CommitAdminStatus(r)
  <2>1. Committing(r, "admin_status")
    BY <1>2 DEF CommitAdminStatus
  <2>2. /\ t \in Tickets /\ call[r].to \in Statuses
        /\ FiledUnder(r) \in Products
        /\ phase' = [phase EXCEPT ![r] = "done"] /\ call' = call
    BY <2>1, CommittingCall
  <2>3. ticket' \in [Tickets -> TicketRow]
    BY <1>2, <2>2, StatusTypes DEF CommitAdminStatus
  <2>4. /\ platform' \in [Requests -> PlatformStates]
        /\ product' \in [Requests -> ProductStates]
        /\ preauth' \in [Tickets -> {"none", "inert", "active", "revoked"}]
    BY <1>2, <2>2, RevokedTypes DEF CommitAdminStatus, TypeOK
  <2>5. /\ outbox' \subseteq AccessRow
        /\ ticketEvents' \subseteq EventRow
        /\ audit' \subseteq AuditRow
    BY <1>2, <2>2, RowTypes DEF CommitAdminStatus, TypeOK
  <2>6. TypeOK'
    BY <2>2, <2>3, <2>4, <2>5 DEF TypeOK
  <2>7. RequestsOK'
    BY <1>2, <2>1, <2>2, RevokeSparesUnused, RequestsOKCommitted
       DEF CommitAdminStatus
  <2> QED BY <2>6, <2>7
<1>3. CASE CommitClientStatus(r)
  <2>1. Committing(r, "client_status")
    BY <1>3 DEF CommitClientStatus
  <2>2. /\ t \in Tickets /\ call[r].to \in Statuses
        /\ FiledUnder(r) \in Products
        /\ phase' = [phase EXCEPT ![r] = "done"] /\ call' = call
    BY <2>1, CommittingCall
  <2>3. ticket' \in [Tickets -> TicketRow]
    BY <1>3, <2>2, StatusTypes DEF CommitClientStatus
  <2>4. TypeOK'
    BY <1>3, <2>2, <2>3, RowTypes DEF CommitClientStatus, TypeOK, grantVars
  <2>5. RequestsOK'
    BY <1>3, <2>1, RequestsOKCommitted DEF CommitClientStatus, grantVars
  <2> QED BY <2>4, <2>5
<1>4. CASE CommitRate(r)
  <2>1. Committing(r, "rate")
    BY <1>4 DEF CommitRate
  <2>2. /\ t \in Tickets /\ FiledUnder(r) \in Products
        /\ phase' = [phase EXCEPT ![r] = "done"] /\ call' = call
    BY <2>1, CommittingCall
  <2>3. ticket' \in [Tickets -> TicketRow]
    <3>1. ticket \in [Tickets -> TicketRow]
      BY DEF TypeOK
    <3>2. [ticket[t] EXCEPT !.rated = TRUE] \in TicketRow
      BY <2>2, <3>1, WrittenTypes
    <3>3. ticket' = [ticket EXCEPT ![t] = [ticket[t] EXCEPT !.rated = TRUE]]
      BY <1>4 DEF CommitRate
    <3> QED BY <2>2, <3>1, <3>2, <3>3
  <2>4. TypeOK'
    BY <1>4, <2>2, <2>3, RowTypes DEF CommitRate, TypeOK, grantVars
  <2>5. RequestsOK'
    BY <1>4, <2>1, RequestsOKCommitted DEF CommitRate, grantVars
  <2> QED BY <2>4, <2>5
<1>5. CASE CommitComment(r)
  <2>1. Committing(r, "comment")
    BY <1>5 DEF CommitComment
  <2>2. /\ t \in Tickets /\ FiledUnder(r) \in Products
        /\ phase' = [phase EXCEPT ![r] = "done"] /\ call' = call
    BY <2>1, CommittingCall
  <2>3. PICK b \in BOOLEAN : ticket' = [ticket EXCEPT ![t].responded = b]
    BY <1>5, Zenon DEF CommitComment
  <2>4. ticket' \in [Tickets -> TicketRow]
    BY <2>2, <2>3 DEF TypeOK, TicketRow
  <2>5. TypeOK'
    BY <1>5, <2>2, <2>4, RowTypes DEF CommitComment, TypeOK, grantVars
  <2>6. RequestsOK'
    BY <1>5, <2>1, RequestsOKCommitted DEF CommitComment, grantVars
  <2> QED BY <2>5, <2>6
<1>6. CASE CommitNote(r)
  <2>1. Committing(r, "note")
    BY <1>6 DEF CommitNote
  <2>2. /\ t \in Tickets /\ FiledUnder(r) \in Products
        /\ phase' = [phase EXCEPT ![r] = "done"] /\ call' = call
    BY <2>1, CommittingCall
  <2>3. TypeOK'
    BY <1>6, <2>2, RowTypes DEF CommitNote, TypeOK, grantVars
  <2>4. RequestsOK'
    BY <1>6, <2>1, RequestsOKCommitted DEF CommitNote, grantVars
  <2> QED BY <2>3, <2>4
<1> QED BY <1>1, <1>2, <1>3, <1>4, <1>5, <1>6 DEF CommitRequest

(* The rows a request adds are about its own grant or a live one, and no      *)
(* commit takes a grant back to none.                                        *)
LEMMA TypeCommit ==
  ASSUME TypeInv, NEW r \in Requests, CommitRequest(r)
  PROVE  TypeInv'
<1>1. TypeOK' /\ RequestsOK'
  BY CommitTypes
<1>2. /\ phase[r] = "open" /\ phase' = [phase EXCEPT ![r] = "done"]
      /\ call' = call
      /\ RowsAdded(r)
      /\ \A g \in Requests : GrantMoved(g, r)
  BY CommitMoves
<1>3. /\ outbox \subseteq AccessRow /\ outbox' \subseteq AccessRow
      /\ phase \in [Requests -> {"idle", "open", "done", "failed"}]
  BY <1>1 DEF TypeInv, TypeOK
<1>4. ASSUME NEW row \in outbox'
      PROVE  /\ phase'[row.by] = "done" /\ phase'[row.grant] = "done"
             /\ Callback(call[row.grant].ticket)
             /\ product'[row.grant] # "none"
  <2>1. row.by \in Requests /\ row.grant \in Requests
    BY <1>3 DEF AccessRow
  <2>2. CASE row \in outbox
    <3>1. /\ phase[row.by] = "done" /\ phase[row.grant] = "done"
          /\ Callback(call[row.grant].ticket) /\ product[row.grant] # "none"
      BY <2>2 DEF TypeInv, RowsOK
    <3>2. GrantMoved(row.grant, r)
      BY <1>2, <2>1
    <3> QED BY <1>2, <1>3, <2>1, <3>1, <3>2 DEF GrantMoved
  <2>3. CASE row \notin outbox
    <3>1. /\ row.by = r /\ (GrantAsked(row, r) \/ RevokeAsked(row))
          /\ Callback(call[row.grant].ticket)
      BY <1>2, <1>4, <2>3 DEF RowsAdded
    <3>2. GrantMoved(row.grant, r)
      BY <1>2, <2>1
    <3>3. phase'[row.by] = "done" /\ phase'[row.grant] = "done"
      BY <1>2, <1>3, <2>1, <3>1 DEF GrantAsked, RevokeAsked
    <3>4. product'[row.grant] # "none"
      BY <3>1, <3>2 DEF GrantAsked, RevokeAsked, Live, GrantMoved
    <3> QED BY <3>1, <3>3, <3>4
  <2> QED BY <2>2, <2>3
<1>5. RowsOK'
  BY <1>2, <1>4 DEF RowsOK, Callback
<1> QED BY <1>1, <1>5 DEF TypeInv

(* The drainer writes the state of a grant that was issued.                   *)
LEMMA TypeDrainer ==
  ASSUME TypeInv, NEW row \in outbox, DrainerWrites(row)
  PROVE  TypeInv'
<1>1. PICK state \in {"granted", "revoked", "grant_failed", "revoke_failed"} :
        product' = [product EXCEPT ![row.grant] = state]
  BY DEF DrainerWrites, ConfirmedState, FailedState
<1>2. /\ UNCHANGED <<ticket, platform, preauth, outbox, ticketEvents, audit, phase, call>>
      /\ row.grant \in Requests /\ phase[row.grant] = "done"
  BY DEF DrainerWrites, rowVars, TypeInv, TypeOK, RowsOK, AccessRow
<1>3. TypeOK'
  BY <1>1, <1>2 DEF TypeInv, TypeOK, ProductStates
<1>4. \A g \in Requests : product'[g] = product[g] \/ (g = row.grant /\ product'[g] = state)
  BY <1>1 DEF TypeInv, TypeOK
<1>5. RequestsOK'
  BY <1>2, <1>4 DEF TypeInv, RequestsOK, WellFormed
<1>6. outbox \subseteq AccessRow
  BY DEF TypeInv, TypeOK
<1>7. RowsOK'
  BY <1>2, <1>4, <1>6 DEF TypeInv, RowsOK, AccessRow, Callback
<1> QED BY <1>3, <1>5, <1>7 DEF TypeInv

LEMMA TypeStep == TypeInv /\ [Next]_vars => TypeInv'
<1> SUFFICES ASSUME TypeInv, [Next]_vars PROVE TypeInv'
  OBVIOUS
<1>1. CASE UNCHANGED vars
  BY <1>1 DEF vars, grantVars, rowVars, TypeInv, TypeOK, RequestsOK, RowsOK
<1>2. ASSUME NEW r \in Requests, Rollback(r) PROVE TypeInv'
  <2>1. TypeOK'
    BY <1>2 DEF Rollback, TypeInv, TypeOK, grantVars, rowVars
  <2>2. RequestsOK'
    BY <1>2 DEF Rollback, TypeInv, TypeOK, RequestsOK, grantVars
  <2>3. RowsOK'
    BY <1>2, BeginMoves DEF TypeInv, TypeOK, RowsOK, AccessRow
  <2> QED BY <2>1, <2>2, <2>3 DEF TypeInv
<1> QED BY <1>1, <1>2, TypeBegin, TypeCommit, TypeDrainer DEF Next

(* Every variable keeps its type, and no request issues a grant before it    *)
(* commits: whatever the tickets, tenants, users and requests.              *)
THEOREM TypeCorrect == Spec => [](TypeOK /\ RequestsOK)
<1>1. Spec => []TypeInv
  BY TypeInit, TypeStep, PTL DEF Spec
<1> QED BY <1>1, PTL DEF TypeInv

-----------------------------------------------------------------------------
(* What the two ways of writing grants do to the live grants.               *)

LEMMA RevokeClears ==
  ASSUME TypeInv, NEW t \in Tickets, call' = call,
         platform' = PlatformRevoked(t), product' = ProductRevoked(t)
  PROVE  /\ LivePlatform(t)' = {} /\ LiveProduct(t)' = {}
         /\ \A s \in Tickets \ {t} : LivePlatform(s)' = LivePlatform(s)
                                  /\ LiveProduct(s)' = LiveProduct(s)
<1> USE DEF TypeInv, TypeOK, LivePlatform, LiveProduct, GrantsOf
<1>1. LivePlatform(t)' = {}
  BY DEF PlatformRevoked
<1>2. LiveProduct(t)' = {}
  BY DEF ProductRevoked, RevokeState
<1>3. ASSUME NEW s \in Tickets \ {t}
      PROVE  LivePlatform(s)' = LivePlatform(s) /\ LiveProduct(s)' = LiveProduct(s)
  BY DEF PlatformRevoked, ProductRevoked
<1> QED BY <1>1, <1>2, <1>3

LEMMA IssueReplaces ==
  ASSUME TypeInv, NEW r \in Requests, NEW t \in Tickets,
         call[r].ticket = t, call' = call,
         platform' = [PlatformRevoked(t) EXCEPT ![r] = "granted"],
         product' = [ProductRevoked(t) EXCEPT ![r] = IssuedState(r, t)]
  PROVE  /\ LivePlatform(t)' = {r}
         /\ LiveProduct(t)' \subseteq {r}
         /\ IssuedState(r, t) \in {"grant_pending", "granted"} => r \in LiveProduct(t)'
         /\ \A s \in Tickets \ {t} : LivePlatform(s)' = LivePlatform(s)
                                  /\ LiveProduct(s)' = LiveProduct(s)
<1> USE RevokedTypes DEF TypeInv, TypeOK, LivePlatform, LiveProduct, GrantsOf
<1>1. LivePlatform(t)' = {r}
  BY DEF PlatformRevoked
<1>2. LiveProduct(t)' \subseteq {r}
  BY DEF ProductRevoked, RevokeState
<1>3. IssuedState(r, t) \in {"grant_pending", "granted"} => r \in LiveProduct(t)'
  BY DEF ProductRevoked
<1>4. ASSUME NEW s \in Tickets \ {t}
      PROVE  LivePlatform(s)' = LivePlatform(s) /\ LiveProduct(s)' = LiveProduct(s)
  BY DEF PlatformRevoked, ProductRevoked
<1> QED BY <1>1, <1>2, <1>3, <1>4

(* A request that opens brings no live grant with it.                       *)
LEMMA BeginKeepsGrants ==
  ASSUME TypeInv, NEW r \in Requests, BeginRequest(r)
  PROVE  \A s \in Tickets : /\ LivePlatform(s)' = LivePlatform(s)
                            /\ LiveProduct(s)' = LiveProduct(s)
                            /\ \A g \in LivePlatform(s) : call'[g] = call[g]
<1>1. PICK c \in Call : Begin(r, c)
  BY BeginWellFormed DEF TypeInv
<1>2. /\ phase[r] = "idle"
      /\ platform[r] = "none" /\ product[r] = "none"
      /\ platform' = platform /\ product' = product
      /\ call' = [call EXCEPT ![r] = c]
  BY <1>1 DEF Begin, TypeInv, RequestsOK, grantVars
<1> QED BY <1>2 DEF LivePlatform, LiveProduct, GrantsOf, TypeInv, TypeOK

-----------------------------------------------------------------------------
(* The safety invariants, proved together ticket by ticket.                 *)

Held(t) ==
  \A g \in LivePlatform(t) : /\ LivePlatform(t) = {g}
                            /\ call[g].agent = ticket[t].assignee

Ended(t) ==
  ticket[t].status = "resolved" =>
    /\ LivePlatform(t) = {} /\ preauth[t] # "active"
    /\ \A g \in LiveProduct(t) : RevokeOnRecord(g)

Twinned(t) ==
  /\ \A g \in LiveProduct(t) : platform[g] = "granted" \/ RevokeOnRecord(g)
  /\ preauth[t] = "active" => LiveProduct(t) # {} /\ ~Callback(t)
  /\ ~Callback(t) /\ LiveProduct(t) # {} => preauth[t] = "active"

Dated(t) ==
  /\ ticket[t].status = "open" => ~ticket[t].resolved_at /\ ~ticket[t].closed_at
  /\ ticket[t].status = "resolved" => ticket[t].resolved_at
  /\ ticket[t].status = "closed" => ticket[t].closed_at

TicketSafe(t) == Held(t) /\ Ended(t) /\ Twinned(t) /\ Dated(t)

(* A callback grant that was ended, or whose end failed, has its revoke on     *)
(* record: without it a late answer to the grant event could show it live    *)
(* with nothing to end it.                                                   *)
EndsOnRecord ==
  \A g \in Requests :
    product[g] \in {"revoked", "revoke_failed"} /\ Callback(call[g].ticket)
      => RevokeOnRecord(g)

AccessInv ==
  /\ TypeInv
  /\ \A t \in Tickets : TicketSafe(t)
  /\ RevokeHasEvent
  /\ EndsOnRecord

(* A ticket keeps what it had when neither its row nor its grants change.   *)
LEMMA Untouched ==
  ASSUME AccessInv, NEW s \in Tickets,
         LivePlatform(s)' = LivePlatform(s), LiveProduct(s)' = LiveProduct(s),
         \A g \in LivePlatform(s) : call'[g] = call[g],
         ticket'[s] = ticket[s], preauth'[s] = preauth[s],
         outbox \subseteq outbox'
  PROVE  TicketSafe(s)'
<1>1. TicketSafe(s)
  BY DEF AccessInv
<1>0. \A g \in Requests : RevokeOnRecord(g) => RevokeOnRecord(g)'
  BY DEF RevokeOnRecord
<1>5. \A g \in LiveProduct(s) : g \in Requests
  BY DEF LiveProduct, GrantsOf
<1>2. Held(s)' /\ Ended(s)' /\ Dated(s)'
  BY <1>0, <1>1, <1>5 DEF TicketSafe, Held, Ended, Dated
<1>3. ASSUME NEW g \in LiveProduct(s)'
      PROVE  platform'[g] = "granted" \/ RevokeOnRecord(g)'
  <2>1. g \in LivePlatform(s) \/ RevokeOnRecord(g)
    BY <1>1, <1>3 DEF TicketSafe, Twinned, LivePlatform, LiveProduct
  <2> QED BY <1>0, <1>3, <1>5, <2>1 DEF LivePlatform
<1>4. Twinned(s)'
  BY <1>1, <1>3 DEF TicketSafe, Twinned, Callback
<1> QED BY <1>2, <1>4 DEF TicketSafe

(* The dates of effectsFor fit the status it is called with.                *)
LEMMA StampedIsDated ==
  ASSUME TypeInv, NEW r \in Requests, NEW t \in Tickets,
         call[r].to \in Statuses, StatusWritten(r, t)
  PROVE  /\ ticket'[t].status = call[r].to
         /\ ticket'[t].assignee = ticket[t].assignee
         /\ Dated(t)'
         /\ \A s \in Tickets \ {t} : ticket'[s] = ticket[s]
<1> DEFINE row == [Stamped(ticket[t], call[r].to) EXCEPT !.status = call[r].to]
<1>1. ticket[t] \in TicketRow /\ ticket \in [Tickets -> TicketRow]
  BY DEF TypeInv, TypeOK
<1>2. /\ ticket'[t] = row
      /\ \A s \in Tickets \ {t} : ticket'[s] = ticket[s]
  BY <1>1 DEF StatusWritten
<1>3. row.status = call[r].to /\ row.assignee = ticket[t].assignee
  BY <1>1 DEF Stamped, TicketRow
<1>4. row.resolved_at = (call[r].to # "open"
                         /\ (ticket[t].resolved_at \/ call[r].to = "resolved"))
  BY <1>1 DEF Stamped, TicketRow
<1>5. row.closed_at = (call[r].to # "open"
                       /\ (ticket[t].closed_at \/ call[r].to = "closed"))
  BY <1>1 DEF Stamped, TicketRow
<1>6. Dated(t)'
  BY <1>2, <1>3, <1>4, <1>5 DEF Dated
<1> QED BY <1>2, <1>3, <1>6

LEMMA AccessInit == Init => AccessInv
<1> SUFFICES ASSUME Init PROVE AccessInv
  OBVIOUS
<1>1. TypeInv
  BY TypeInit
<1>2. ASSUME NEW t \in Tickets PROVE TicketSafe(t)
  <2>1. LivePlatform(t) = {} /\ LiveProduct(t) = {} /\ preauth[t] # "active"
    BY DEF Init, LivePlatform, LiveProduct, GrantsOf
  <2>2. Dated(t)
    BY DEF Init, NewTicket, Dated
  <2> QED BY <2>1, <2>2 DEF TicketSafe, Held, Ended, Twinned
<1>3. RevokeHasEvent /\ EndsOnRecord
  BY DEF Init, RevokeHasEvent, EndsOnRecord
<1> QED BY <1>1, <1>2, <1>3 DEF AccessInv

(* No request ends a callback grant itself, and none takes a row away.        *)
LEMMA RequestEndsOnRecord ==
  ASSUME TypeInv, EndsOnRecord, NEW r \in Requests,
         BeginRequest(r) \/ CommitRequest(r) \/ Rollback(r)
  PROVE  EndsOnRecord' /\ outbox \subseteq outbox'
<1>1. CASE BeginRequest(r) \/ Rollback(r)
  <2>1. /\ UNCHANGED <<product, outbox>>
        /\ \A g \in Requests : phase[g] # "idle" => call'[g] = call[g]
    BY <1>1, BeginMoves
  <2>2. \A g \in Requests : product[g] # "none" => phase[g] # "idle"
    BY DEF TypeInv, RequestsOK
  <2> QED BY <2>1, <2>2 DEF EndsOnRecord, RevokeOnRecord
<1>2. CASE CommitRequest(r)
  <2>1. /\ call' = call /\ outbox \subseteq outbox'
        /\ \A g \in Requests : GrantMoved(g, r)
    BY <1>2, CommitMoves DEF RowsAdded
  <2>2. ASSUME NEW g \in Requests, product'[g] \in {"revoked", "revoke_failed"},
               Callback(call[g].ticket)
        PROVE  RevokeOnRecord(g)'
    <3>1. product'[g] = product[g]
      BY <2>1, <2>2 DEF GrantMoved
    <3> QED BY <2>1, <2>2, <3>1 DEF EndsOnRecord, RevokeOnRecord
  <2> QED BY <2>1, <2>2 DEF EndsOnRecord, Callback
<1> QED BY <1>1, <1>2

LEMMA AccessBegin ==
  ASSUME AccessInv, NEW r \in Requests, BeginRequest(r)
  PROVE  AccessInv'
<1>1. TypeInv /\ TypeInv'
  BY TypeBegin DEF AccessInv
<1>2. PICK c \in Call : Begin(r, c)
  BY <1>1, BeginWellFormed DEF TypeInv
<1>3. ASSUME NEW s \in Tickets PROVE TicketSafe(s)'
  BY <1>1, <1>2, BeginKeepsGrants, Untouched DEF Begin, grantVars, rowVars
<1>4. RevokeHasEvent'
  BY <1>2 DEF AccessInv, RevokeHasEvent, RevokeOnRecord, Begin, grantVars, rowVars
<1>5. EndsOnRecord'
  BY RequestEndsOnRecord DEF AccessInv
<1> QED BY <1>1, <1>3, <1>4, <1>5 DEF AccessInv

(* Every grant that goes to revoke_pending has its row in the same commit.  *)
LEMMA RevokeWritesRows ==
  ASSUME TypeInv, RevokeHasEvent, NEW r \in Requests, NEW t \in Tickets,
         outbox \cup RevokeRows(r, t) \subseteq outbox',
         NEW g \in Requests, product'[g] = ProductRevoked(t)[g],
         product'[g] = "revoke_pending"
  PROVE  RevokeOnRecord(g)'
<1>1. CASE g \in LiveProduct(t)
  <2>1. AccessEvent("revoke_requested", g, r) \in RevokeRows(r, t)
    BY <1>1 DEF ProductRevoked, RevokeState, RevokeRows
  <2> QED BY <2>1 DEF AccessEvent, RevokeOnRecord
<1>2. CASE g \notin LiveProduct(t)
  BY <1>2 DEF ProductRevoked, RevokeHasEvent, RevokeOnRecord
<1> QED BY <1>1, <1>2

LEMMA AccessAssign ==
  ASSUME AccessInv, NEW r \in Requests, CommitAssign(r)
  PROVE  AccessInv'
<1>1. TypeInv /\ TypeInv'
  BY TypeCommit DEF AccessInv, CommitRequest
<1>0. Committing(r, "assign")
  BY DEF CommitAssign
<1> PICK t \in Tickets : call[r].ticket = t
  BY <1>0, <1>1, CommittingCall DEF TypeInv
<1>2. /\ platform' = [PlatformRevoked(t) EXCEPT ![r] = "granted"]
      /\ product' = [ProductRevoked(t) EXCEPT ![r] = IssuedState(r, t)]
      /\ preauth' = [preauth EXCEPT ![t] = IF TokenBound(t) THEN "active"
                                                            ELSE TokenRevoked(t)]
  BY DEF CommitAssign
<1>3. WellFormed(call[r]) /\ call' = call /\ product[r] = "none"
  BY <1>0, <1>1, CommittingCall DEF TypeInv
<1>4. /\ LivePlatform(t)' = {r}
      /\ LiveProduct(t)' \subseteq {r}
      /\ IssuedState(r, t) \in {"grant_pending", "granted"} => r \in LiveProduct(t)'
      /\ \A s \in Tickets \ {t} : LivePlatform(s)' = LivePlatform(s)
                               /\ LiveProduct(s)' = LiveProduct(s)
  BY <1>1, <1>2, <1>3, IssueReplaces
<1>5. /\ ticket'[t].status = "assigned" /\ ticket'[t].assignee = call[r].agent
      /\ \A s \in Tickets \ {t} : ticket'[s] = ticket[s]
  BY <1>1, <1>3 DEF CommitAssign, TypeInv, TypeOK, TicketRow
<1>6. TicketSafe(t)'
  <2>1. Held(t)' /\ Ended(t)' /\ Dated(t)'
    BY <1>3, <1>4, <1>5 DEF Held, Ended, Dated
  <2>2. preauth'[t] = "active" => LiveProduct(t)' # {} /\ ~Callback(t)
    BY <1>1, <1>2, <1>3, <1>4 DEF TypeInv, TypeOK, TokenRevoked, TokenBound,
       CallbackIssued, IssuedState
  <2>3. \A g \in LiveProduct(t)' : platform'[g] = "granted"
    BY <1>4 DEF LivePlatform
  <2>4. ASSUME ~Callback(t), LiveProduct(t)' # {} PROVE preauth'[t] = "active"
    <3>1. r \in LiveProduct(t)'
      BY <1>4, <2>4
    <3>2. product'[r] = IssuedState(r, t)
      BY <1>2 DEF ProductRevoked
    <3>3. TokenBound(t)
      BY <1>3, <2>4, <3>1, <3>2 DEF LiveProduct, IssuedState, CallbackIssued
    <3> QED BY <1>1, <1>2, <3>3 DEF TypeInv, TypeOK
  <2> QED BY <2>1, <2>2, <2>3, <2>4 DEF TicketSafe, Twinned, Callback
<1>7. ASSUME NEW s \in Tickets, s # t PROVE TicketSafe(s)'
  <2>1. preauth'[s] = preauth[s] /\ outbox \subseteq outbox'
    BY <1>1, <1>2, <1>7 DEF TypeInv, TypeOK, CommitAssign
  <2> QED BY <1>3, <1>4, <1>5, <1>7, <2>1, Untouched
<1>8. RevokeHasEvent'
  <2> SUFFICES ASSUME NEW g \in Requests, product'[g] = "revoke_pending"
               PROVE  RevokeOnRecord(g)'
    BY DEF RevokeHasEvent
  <2>1. ProductRevoked(t) \in [Requests -> ProductStates]
    BY <1>1, <1>3, RevokedTypes DEF TypeInv
  <2>2. IssuedState(r, t) # "revoke_pending"
    BY <1>3 DEF IssuedState
  <2>3. g # r /\ product'[g] = ProductRevoked(t)[g]
    BY <1>2, <2>1, <2>2
  <2>4. outbox \cup RevokeRows(r, t) \subseteq outbox'
    BY DEF CommitAssign
  <2> QED BY <1>1, <1>3, <2>3, <2>4, RevokeWritesRows DEF AccessInv
<1>9. EndsOnRecord'
  BY <1>1, RequestEndsOnRecord DEF AccessInv, CommitRequest
<1> QED BY <1>1, <1>6, <1>7, <1>8, <1>9 DEF AccessInv

LEMMA AccessAdminStatus ==
  ASSUME AccessInv, NEW r \in Requests, CommitAdminStatus(r)
  PROVE  AccessInv'
<1>1. TypeInv /\ TypeInv'
  BY TypeCommit DEF AccessInv, CommitRequest
<1>2. Committing(r, "admin_status") /\ StatusWritten(r, call[r].ticket)
  BY DEF CommitAdminStatus
<1> PICK t \in Tickets : call[r].ticket = t
  BY <1>1, <1>2, CommittingCall DEF TypeInv
<1>3. call[r].to \in Statuses /\ call' = call
  BY <1>1, <1>2, CommittingCall DEF TypeInv
<1>4. /\ ticket'[t].status = call[r].to
      /\ ticket'[t].assignee = ticket[t].assignee
      /\ Dated(t)'
      /\ \A s \in Tickets \ {t} : ticket'[s] = ticket[s]
  BY <1>1, <1>2, <1>3, StampedIsDated
<1>7. EndsOnRecord' /\ outbox \subseteq outbox'
  BY <1>1, RequestEndsOnRecord DEF AccessInv, CommitRequest
<1>5. CASE Revokes(call[r].to)
  <2>1. /\ platform' = PlatformRevoked(t) /\ product' = ProductRevoked(t)
        /\ preauth' = [preauth EXCEPT ![t] = TokenRevoked(t)]
        /\ outbox' = outbox \cup RevokeRows(r, t)
    BY <1>5 DEF CommitAdminStatus
  <2>2. /\ LivePlatform(t)' = {} /\ LiveProduct(t)' = {}
        /\ \A s \in Tickets \ {t} : LivePlatform(s)' = LivePlatform(s)
                                 /\ LiveProduct(s)' = LiveProduct(s)
    BY <1>1, <1>3, <2>1, RevokeClears
  <2>3. /\ preauth'[t] # "active"
        /\ \A s \in Tickets \ {t} : preauth'[s] = preauth[s]
    BY <1>1, <1>3, <2>1 DEF TypeInv, TypeOK, TokenRevoked
  <2>4. TicketSafe(t)'
    BY <1>4, <2>2, <2>3 DEF TicketSafe, Held, Ended, Twinned
  <2>5. ASSUME NEW s \in Tickets, s # t PROVE TicketSafe(s)'
    BY <1>3, <1>4, <1>7, <2>2, <2>3, <2>5, Untouched
  <2>6. RevokeHasEvent'
    <3> SUFFICES ASSUME NEW g \in Requests, product'[g] = "revoke_pending"
                 PROVE  RevokeOnRecord(g)'
      BY DEF RevokeHasEvent
    <3> QED BY <1>1, <1>3, <2>1, RevokeWritesRows DEF AccessInv
  <2> QED BY <1>1, <1>7, <2>4, <2>5, <2>6 DEF AccessInv
<1>6. CASE ~Revokes(call[r].to)
  <2>1. platform' = platform /\ product' = product /\ preauth' = preauth /\ outbox' = outbox
    BY <1>6 DEF CommitAdminStatus
  <2>2. \A s \in Tickets : LivePlatform(s)' = LivePlatform(s) /\ LiveProduct(s)' = LiveProduct(s)
    BY <1>3, <2>1 DEF LivePlatform, LiveProduct, GrantsOf
  <2>3. call[r].to # "resolved"
    BY <1>6 DEF Revokes
  <2>4. TicketSafe(t)'
    BY <1>3, <1>4, <2>1, <2>2, <2>3
       DEF AccessInv, TicketSafe, Held, Ended, Twinned, RevokeOnRecord
  <2>5. ASSUME NEW s \in Tickets, s # t PROVE TicketSafe(s)'
    BY <1>3, <1>4, <1>7, <2>1, <2>2, <2>5, Untouched
  <2>6. RevokeHasEvent'
    BY <2>1 DEF AccessInv, RevokeHasEvent, RevokeOnRecord
  <2> QED BY <1>1, <1>7, <2>4, <2>5, <2>6 DEF AccessInv
<1> QED BY <1>5, <1>6

(* The other requests change neither grants nor access events.              *)
LEMMA AccessOther ==
  ASSUME AccessInv, NEW r \in Requests,
         CommitClientStatus(r) \/ CommitRate(r) \/ CommitComment(r) \/ CommitNote(r)
  PROVE  AccessInv'
<1>1. TypeInv /\ TypeInv'
  BY TypeCommit DEF AccessInv, CommitRequest
<1>2. call' = call /\ UNCHANGED <<platform, product, preauth, outbox>>
  BY DEF CommitClientStatus, CommitRate, CommitComment, CommitNote, Committing,
         grantVars
<1>3. \A s \in Tickets : LivePlatform(s)' = LivePlatform(s) /\ LiveProduct(s)' = LiveProduct(s)
  BY <1>2 DEF LivePlatform, LiveProduct, GrantsOf
<1>4. ASSUME NEW s \in Tickets,
             ticket'[s].status = ticket[s].status \/ ticket'[s].status # "resolved",
             ticket'[s].assignee = ticket[s].assignee, Dated(s)'
      PROVE  TicketSafe(s)'
  BY <1>2, <1>3, <1>4 DEF AccessInv, TicketSafe, Held, Ended, Twinned, RevokeOnRecord
<1>5. ASSUME NEW s \in Tickets,
             ticket'[s].status = ticket[s].status,
             ticket'[s].assignee = ticket[s].assignee,
             ticket'[s].resolved_at = ticket[s].resolved_at,
             ticket'[s].closed_at = ticket[s].closed_at
      PROVE  TicketSafe(s)'
  BY <1>4, <1>5 DEF AccessInv, TicketSafe, Dated
<1>6. ASSUME NEW s \in Tickets PROVE TicketSafe(s)'
  <2>1. CASE CommitClientStatus(r)
    <3>1. Committing(r, "client_status") /\ StatusWritten(r, call[r].ticket)
      BY <2>1 DEF CommitClientStatus
    <3>2. /\ call[r].ticket \in Tickets /\ call[r].to \in Statuses
          /\ call[r].to # "resolved"
      BY <1>1, <3>1, CommittingCall DEF TypeInv, WellFormed, PRODUCT_SETTABLE_STATUSES
    <3>3. CASE s = call[r].ticket
      <4>1. /\ ticket'[s].status = call[r].to
            /\ ticket'[s].assignee = ticket[s].assignee
            /\ Dated(s)'
        BY <1>1, <3>1, <3>2, <3>3, StampedIsDated
      <4> QED BY <1>4, <3>2, <4>1
    <3>4. CASE s # call[r].ticket
      BY <1>1, <1>5, <3>1, <3>2, <3>4, StampedIsDated
    <3> QED BY <3>3, <3>4
  <2>2. CASE CommitRate(r)
    <3>1. Committing(r, "rate") /\ ticket' = [ticket EXCEPT ![call[r].ticket].rated = TRUE]
      BY <2>2 DEF CommitRate
    <3>2. ticket \in [Tickets -> TicketRow]
      BY <1>1 DEF TypeInv, TypeOK
    <3> QED BY <1>5, <3>1, <3>2 DEF TicketRow
  <2>3. CASE CommitComment(r)
    <3>1. PICK b \in BOOLEAN : ticket' = [ticket EXCEPT ![call[r].ticket].responded = b]
      BY <2>3, Zenon DEF CommitComment
    <3>2. ticket \in [Tickets -> TicketRow]
      BY <1>1 DEF TypeInv, TypeOK
    <3> QED BY <1>5, <3>1, <3>2 DEF TicketRow
  <2>4. CASE CommitNote(r)
    BY <1>5, <2>4 DEF CommitNote
  <2> QED BY <2>1, <2>2, <2>3, <2>4
<1>7. RevokeHasEvent' /\ EndsOnRecord'
  BY <1>2 DEF AccessInv, RevokeHasEvent, EndsOnRecord, RevokeOnRecord
<1> QED BY <1>1, <1>6, <1>7 DEF AccessInv

(* A late answer of the drainer is about a callback grant; if it shows one     *)
(* live again, the revoke that ended it is on record.                        *)
LEMMA AccessDrainer ==
  ASSUME AccessInv, NEW row \in outbox, DrainerWrites(row)
  PROVE  AccessInv'
<1>1. TypeInv /\ TypeInv'
  BY TypeDrainer DEF AccessInv
<1> DEFINE g == row.grant
<1>2. /\ UNCHANGED <<ticket, platform, preauth, outbox, call>>
      /\ g \in Requests /\ Callback(call[g].ticket) /\ product[g] # "none"
      /\ product \in [Requests -> ProductStates]
  BY <1>1 DEF DrainerWrites, rowVars, TypeInv, TypeOK, RowsOK, AccessRow
<1>3. PICK state : /\ state \in {ConfirmedState(row), FailedState(row)}
                   /\ product' = [product EXCEPT ![g] = state]
  BY DEF DrainerWrites
<1>4. \A h \in Requests : h # g => product'[h] = product[h]
  BY <1>2, <1>3
<1>5. product'[g] = state
  BY <1>2, <1>3
<1>6. \A h \in Requests : RevokeOnRecord(h)' <=> RevokeOnRecord(h)
  BY <1>2 DEF RevokeOnRecord
<1>7. row.kind = "revoke_requested" => RevokeOnRecord(g)
  BY DEF RevokeOnRecord
<1>8. row.kind # "grant_requested" => row.kind = "revoke_requested"
  BY <1>1 DEF TypeInv, TypeOK, AccessRow
<1>9. Live(g) \/ RevokeOnRecord(g)
  BY <1>2 DEF AccessInv, RevokeHasEvent, EndsOnRecord, Live, ProductStates
<1>10. ASSUME NEW s \in Tickets
       PROVE  /\ LivePlatform(s)' = LivePlatform(s)
              /\ \A h \in LiveProduct(s)' :
                   h \in Requests /\ (h \in LiveProduct(s) \/ RevokeOnRecord(h))
              /\ ~Callback(s) => LiveProduct(s)' = LiveProduct(s)
  BY <1>2, <1>4, <1>9 DEF LivePlatform, LiveProduct, GrantsOf, Live
<1>11. ASSUME NEW s \in Tickets PROVE TicketSafe(s)'
  <2>1. TicketSafe(s) /\ (Callback(s)' <=> Callback(s))
    BY DEF AccessInv, Callback
  <2>2. Held(s)' /\ Dated(s)'
    BY <1>2, <1>10, <2>1 DEF TicketSafe, Held, Dated
  <2>3. Ended(s)'
    BY <1>2, <1>6, <1>10, <2>1 DEF TicketSafe, Ended
  <2>4. \A h \in LiveProduct(s)' : platform'[h] = "granted" \/ RevokeOnRecord(h)'
    BY <1>2, <1>6, <1>10, <2>1 DEF TicketSafe, Twinned
  <2>5. Twinned(s)'
    BY <1>2, <1>10, <2>1, <2>4 DEF TicketSafe, Twinned
  <2> QED BY <2>2, <2>3, <2>5 DEF TicketSafe
<1>12. RevokeHasEvent'
  <2>1. state # "revoke_pending"
    BY <1>3 DEF ConfirmedState, FailedState
  <2> QED BY <1>4, <1>5, <1>6, <2>1 DEF AccessInv, RevokeHasEvent
<1>13. EndsOnRecord'
  <2>1. state \in {"revoked", "revoke_failed"} => RevokeOnRecord(g)
    BY <1>3, <1>7, <1>8 DEF ConfirmedState, FailedState
  <2> QED BY <1>2, <1>4, <1>5, <1>6, <2>1 DEF AccessInv, EndsOnRecord, Callback
<1> QED BY <1>1, <1>11, <1>12, <1>13 DEF AccessInv

LEMMA AccessStep == AccessInv /\ [Next]_vars => AccessInv'
<1> SUFFICES ASSUME AccessInv, [Next]_vars PROVE AccessInv'
  OBVIOUS
<1>0. TypeInv'
  BY TypeStep DEF AccessInv
<1>1. ASSUME UNCHANGED <<ticket, platform, product, preauth, outbox, call>>
      PROVE  AccessInv'
  <2>1. \A s \in Tickets : LivePlatform(s)' = LivePlatform(s) /\ LiveProduct(s)' = LiveProduct(s)
    BY <1>1 DEF LivePlatform, LiveProduct, GrantsOf
  <2>2. \A s \in Tickets : TicketSafe(s)'
    BY <1>1, <2>1, Untouched
  <2>3. RevokeHasEvent' /\ EndsOnRecord'
    BY <1>1 DEF AccessInv, RevokeHasEvent, EndsOnRecord, RevokeOnRecord
  <2> QED BY <1>0, <2>2, <2>3 DEF AccessInv
<1>2. CASE UNCHANGED vars
  BY <1>1, <1>2 DEF vars, grantVars, rowVars
<1>3. ASSUME NEW r \in Requests, Rollback(r) PROVE AccessInv'
  BY <1>1, <1>3 DEF Rollback, grantVars, rowVars
<1>4. ASSUME NEW r \in Requests, CommitRequest(r) PROVE AccessInv'
  BY <1>4, AccessAssign, AccessAdminStatus, AccessOther DEF CommitRequest
<1> QED BY <1>2, <1>3, <1>4, AccessBegin, AccessDrainer DEF Next

LEMMA AccessSafe == Spec => []AccessInv
  BY AccessInit, AccessStep, PTL DEF Spec

(* However assignments, reassignments, resolves and reopens interleave, a    *)
(* ticket never has two active platform grants, and the one it has is the   *)
(* assignee's.                                                              *)
THEOREM OneHolder == Spec => []SingleHolder
<1>1. AccessInv => SingleHolder
  BY DEF AccessInv, TicketSafe, Held, SingleHolder
<1> QED BY <1>1, AccessSafe, PTL

(* However many stale requests commit around a resolve and whenever the       *)
(* drainer writes its answers, a resolved ticket has no platform grant and   *)
(* no active token, and what is left of its product grants is being revoked. *)
THEOREM ResolvedEndsAccess == Spec => []ResolvedMeansRevoked
<1>1. AccessInv => ResolvedMeansRevoked
  BY DEF AccessInv, TicketSafe, Ended, ResolvedMeansRevoked
<1> QED BY <1>1, AccessSafe, PTL

(* A product grant shown live has its platform twin or its revoke on record,  *)
(* and the token of a pre-authorised ticket lives as long as its grant.      *)
THEOREM LayersEndTogether == Spec => []LayersAgree
<1>1. AccessInv => LayersAgree
  BY DEF AccessInv, TicketSafe, Twinned, LayersAgree
<1> QED BY <1>1, AccessSafe, PTL

(* No grant waits for a revoke that was not written to the outbox.          *)
THEOREM NoRevokeLost == Spec => []RevokeHasEvent
<1>1. AccessInv => RevokeHasEvent
  BY DEF AccessInv
<1> QED BY <1>1, AccessSafe, PTL

(* The dates of a ticket fit its status, even after an illegal transition    *)
(* slipped through a race.                                                  *)
THEOREM DatesFitStatus == Spec => []StampsMatchStatus
<1>1. AccessInv => StampsMatchStatus
  BY DEF AccessInv, TicketSafe, Dated, StampsMatchStatus
<1> QED BY <1>1, AccessSafe, PTL

-----------------------------------------------------------------------------
(* Status moves.                                                            *)

Moves(op) == op \in {"assign", "admin_status", "client_status"}

(* A request that moves a ticket was judged legal against the status it read. *)
Judged ==
  \A r \in Requests : (phase[r] # "idle" /\ Moves(call[r].op)) =>
    \/ CanTransition(call[r].seen, call[r].to)
    \/ call[r].seen = "assigned" /\ call[r].to = "assigned"

LEMMA BeginJudged ==
  ASSUME TypeInv, NEW r \in Requests, BeginRequest(r)
  PROVE  \E c \in Call :
           /\ Begin(r, c)
           /\ Moves(c.op) => \/ CanTransition(c.seen, c.to)
                             \/ c.seen = "assigned" /\ c.to = "assigned"
<1>1. PICK c \in Call : Begin(r, c) /\ WellFormed(c)
  BY BeginWellFormed DEF TypeInv
<1> DEFINE Legal == \/ CanTransition(c.seen, c.to)
                    \/ c.seen = "assigned" /\ c.to = "assigned"
<1>2. ASSUME NEW d, Begin(r, d) PROVE c = d
  BY <1>1, <1>2 DEF Begin, TypeInv, TypeOK
<1>3. ASSUME BeginAssign(r) PROVE Legal
  <2>1. PICK t \in Tickets, u \in Staff, a \in Staff :
          /\ ticket[t].status # "assigned" => CanTransition(ticket[t].status, "assigned")
          /\ Begin(r, Asking("assign", t, u, "assigned", a))
    BY <1>3 DEF BeginAssign
  <2> QED BY <1>2, <2>1 DEF Asking
<1>4. ASSUME BeginAdminStatus(r) PROVE Legal
  <2>1. PICK t \in Tickets, u \in Staff, to \in Statuses :
          /\ CanTransition(ticket[t].status, to)
          /\ Begin(r, Asking("admin_status", t, u, to, NoOne))
    BY <1>4 DEF BeginAdminStatus
  <2> QED BY <1>2, <2>1 DEF Asking
<1>5. ASSUME BeginClientStatus(r) PROVE Legal
  <2>1. PICK t \in Tickets, to \in PRODUCT_SETTABLE_STATUSES :
          /\ CanTransition(ticket[t].status, to)
          /\ Begin(r, Asking("client_status", t, Client, to, NoOne))
    BY <1>5 DEF BeginClientStatus
  <2> QED BY <1>2, <2>1 DEF Asking
<1>6. ASSUME BeginRate(r) \/ BeginComment(r) PROVE ~Moves(c.op)
  <2>1. PICK op \in {"rate", "comment", "note"}, t \in Tickets, u \in Staff \cup {Client} :
          Begin(r, Asking(op, t, u, ticket[t].status, NoOne))
    BY <1>6 DEF BeginRate, BeginComment
  <2> QED BY <1>2, <2>1 DEF Asking, Moves
<1>7. Moves(c.op) => Legal
  BY <1>3, <1>4, <1>5, <1>6 DEF BeginRequest
<1>8. /\ c \in Call /\ Begin(r, c)
      /\ Moves(c.op) => \/ CanTransition(c.seen, c.to)
                        \/ c.seen = "assigned" /\ c.to = "assigned"
  BY <1>1, <1>7, Zenon
<1> QED BY <1>8, Zenon

LEMMA JudgedStep == TypeInv /\ Judged /\ [Next]_vars => Judged'
<1> SUFFICES ASSUME TypeInv, Judged, [Next]_vars PROVE Judged'
  OBVIOUS
<1>1. CASE UNCHANGED vars
  BY <1>1 DEF vars, Judged
<1>2. ASSUME NEW r \in Requests, BeginRequest(r) PROVE Judged'
  <2>1. PICK c \in Call :
          /\ Begin(r, c)
          /\ Moves(c.op) => \/ CanTransition(c.seen, c.to)
                            \/ c.seen = "assigned" /\ c.to = "assigned"
    BY <1>2, BeginJudged
  <2> QED BY <2>1 DEF Begin, Judged, TypeInv, TypeOK
<1>3. ASSUME NEW r \in Requests, CommitRequest(r) \/ Rollback(r) PROVE Judged'
  <2>1. /\ phase[r] = "open" /\ call' = call
        /\ \A q \in Requests \ {r} : phase'[q] = phase[q]
    BY <1>3 DEF CommitRequest, CommitAssign, CommitAdminStatus, CommitClientStatus, CommitRate,
                CommitComment, CommitNote, Committing, Rollback, TypeInv, TypeOK
  <2> QED BY <2>1 DEF Judged
<1>4. ASSUME NEW row \in outbox, DrainerWrites(row) PROVE Judged'
  BY <1>4 DEF DrainerWrites, Judged
<1> QED BY <1>1, <1>2, <1>3, <1>4 DEF Next

(* What a committing request does to the status of a ticket.                 *)
LEMMA CommitStatus ==
  ASSUME TypeInv, NEW r \in Requests, CommitRequest(r), NEW t \in Tickets
  PROVE  \/ ticket'[t].status = ticket[t].status
         \/ /\ call[r].ticket = t /\ Moves(call[r].op)
            /\ ticket'[t].status = call[r].to
<1>1. ticket \in [Tickets -> TicketRow]
  BY DEF TypeInv, TypeOK
<1>2. CASE CommitAssign(r)
  <2>1. Committing(r, "assign")
    BY <1>2 DEF CommitAssign
  <2>2. call[r].op = "assign" /\ call[r].to = "assigned" /\ call[r].ticket \in Tickets
    BY <2>1, CommittingCall DEF TypeInv, WellFormed
  <2> QED BY <1>1, <1>2, <2>2 DEF CommitAssign, Moves, TicketRow
<1>3. CASE CommitAdminStatus(r) \/ CommitClientStatus(r)
  <2>1. PICK op \in {"admin_status", "client_status"} : Committing(r, op)
    BY <1>3 DEF CommitAdminStatus, CommitClientStatus
  <2>2. /\ StatusWritten(r, call[r].ticket) /\ call[r].to \in Statuses
        /\ call[r].ticket \in Tickets /\ call[r].op = op
    BY <1>3, <2>1, CommittingCall DEF CommitAdminStatus, CommitClientStatus, TypeInv
  <2>3. /\ ticket'[call[r].ticket].status = call[r].to
        /\ \A s \in Tickets \ {call[r].ticket} : ticket'[s] = ticket[s]
    BY <2>2, StampedIsDated
  <2> QED BY <2>2, <2>3 DEF Moves
<1>4. CASE CommitRate(r)
  BY <1>1, <1>4 DEF CommitRate, TicketRow
<1>5. CASE CommitComment(r)
  <2>1. PICK b \in BOOLEAN : ticket' = [ticket EXCEPT ![call[r].ticket].responded = b]
    BY <1>5, Zenon DEF CommitComment
  <2> QED BY <1>1, <2>1 DEF TicketRow
<1>6. CASE CommitNote(r)
  BY <1>6 DEF CommitNote
<1> QED BY <1>2, <1>3, <1>4, <1>5, <1>6 DEF CommitRequest

LEMMA MoveIsLegal ==
  ASSUME TypeInv, Judged, [Next]_vars, NEW r \in Requests, NEW t \in Tickets,
         phase[r] = "open", phase'[r] = "done", ticket'[t].status # ticket[t].status,
         <<ticket[t].status, ticket'[t].status>> \notin TRANSITIONS
  PROVE  call[r].seen # ticket[t].status
<1>1. CommitRequest(r)
  <2>1. ASSUME NEW q \in Requests, BeginRequest(q) \/ Rollback(q) PROVE FALSE
    <3>1. CASE BeginRequest(q)
      BY <3>1, BeginWellFormed DEF Begin, TypeInv, TypeOK
    <3>2. CASE Rollback(q)
      BY <3>2 DEF Rollback, TypeInv, TypeOK
    <3> QED BY <2>1, <3>1, <3>2
  <2>2. ASSUME NEW q \in Requests, CommitRequest(q) PROVE q = r
    <3>1. phase' = [phase EXCEPT ![q] = "done"]
      BY <2>2 DEF CommitRequest, CommitAssign, CommitAdminStatus, CommitClientStatus,
                  CommitRate, CommitComment, CommitNote, Committing
    <3> QED BY <3>1 DEF TypeInv, TypeOK
  <2>3. ~UNCHANGED vars /\ \A row \in outbox : ~DrainerWrites(row)
    BY DEF vars, DrainerWrites
  <2> QED BY <2>1, <2>2, <2>3 DEF Next
<1>2. Moves(call[r].op) /\ ticket'[t].status = call[r].to
  BY <1>1, CommitStatus
<1> QED BY <1>2 DEF Judged, CanTransition

(* Two requests may each be legal against the status they read and illegal     *)
(* one after the other; nothing else moves a ticket off the table.           *)
THEOREM MovesLegalUnlessOvertaken == Spec => LegalUnlessOvertaken
<1>1. Init => Judged
  BY DEF Init, Judged
<1>2. TypeInv /\ Judged /\ [Next]_vars =>
        [\A r \in Requests, t \in Tickets :
           /\ phase[r] = "open" /\ phase'[r] = "done"
           /\ ticket'[t].status # ticket[t].status
           /\ <<ticket[t].status, ticket'[t].status>> \notin TRANSITIONS
           => call[r].seen # ticket[t].status]_vars
  BY MoveIsLegal
<1>3. Spec => []TypeInv
  BY TypeInit, TypeStep, PTL DEF Spec
<1> QED BY <1>1, <1>2, <1>3, JudgedStep, PTL DEF Spec, LegalUnlessOvertaken

(* The request that closed the ticket for a client.                          *)
ClosedByClient(t) ==
  \E r \in Requests : /\ phase[r] = "done"
                      /\ call[r].ticket = t /\ call[r].op = "client_status"
                      /\ call[r].to = "closed"

LEMMA ClosedStep ==
  TypeInv /\ ClosedAccessForCause /\ [Next]_vars => ClosedAccessForCause'
<1> SUFFICES ASSUME TypeInv, ClosedAccessForCause, [Next]_vars, NEW t \in Tickets,
                    ticket'[t].status = "closed", LivePlatform(t)' # {}
             PROVE  ClosedByClient(t)'
  BY DEF ClosedAccessForCause, ClosedByClient
<1>1. ASSUME ClosedByClient(t),
             \A q \in Requests : phase[q] = "done" => phase'[q] = "done" /\ call'[q] = call[q]
      PROVE  ClosedByClient(t)'
  BY <1>1 DEF ClosedByClient
<1>2. ticket[t].status = "closed" /\ LivePlatform(t) # {} => ClosedByClient(t)
  BY DEF ClosedAccessForCause, ClosedByClient
<1>3. CASE UNCHANGED vars
  BY <1>1, <1>2, <1>3 DEF vars, grantVars, LivePlatform, GrantsOf
<1>4. ASSUME NEW r \in Requests, BeginRequest(r) PROVE ClosedByClient(t)'
  <2>1. PICK c \in Call : Begin(r, c)
    BY <1>4, BeginWellFormed DEF TypeInv
  <2>2. ticket' = ticket /\ LivePlatform(t)' = LivePlatform(t)
    BY <1>4, <2>1, BeginKeepsGrants DEF Begin
  <2>3. \A q \in Requests : phase[q] = "done" => phase'[q] = "done" /\ call'[q] = call[q]
    BY <2>1 DEF Begin, TypeInv, TypeOK
  <2> QED BY <1>1, <1>2, <2>2, <2>3
<1>5. ASSUME NEW r \in Requests, Rollback(r) PROVE ClosedByClient(t)'
  <2>1. ticket' = ticket /\ LivePlatform(t)' = LivePlatform(t)
    BY <1>5 DEF Rollback, grantVars, LivePlatform, GrantsOf
  <2>2. \A q \in Requests : phase[q] = "done" => phase'[q] = "done" /\ call'[q] = call[q]
    BY <1>5 DEF Rollback, TypeInv, TypeOK
  <2> QED BY <1>1, <1>2, <2>1, <2>2
<1>6. ASSUME NEW r \in Requests, CommitRequest(r) PROVE ClosedByClient(t)'
  <2>1. /\ call' = call /\ phase' = [phase EXCEPT ![r] = "done"]
        /\ call[r].ticket \in Tickets
    BY <1>6, CommittingCall
       DEF CommitRequest, CommitAssign, CommitAdminStatus, CommitClientStatus, CommitRate,
           CommitComment, CommitNote, Committing, TypeInv
  <2>2. \A q \in Requests : phase[q] = "done" => phase'[q] = "done" /\ call'[q] = call[q]
    BY <2>1 DEF TypeInv, TypeOK
  <2>3. CASE ticket'[t].status = ticket[t].status /\ LivePlatform(t)' = LivePlatform(t)
    BY <1>1, <1>2, <2>2, <2>3
  <2>4. CASE CommitAssign(r)
    <3>1. \A s \in Tickets \ {call[r].ticket} : LivePlatform(s)' = LivePlatform(s)
      <4>1. product[r] = "none" /\ Committing(r, "assign")
        BY <2>4, CommittingCall DEF CommitAssign, TypeInv
      <4> QED BY <2>1, <2>4, <4>1, IssueReplaces DEF CommitAssign
    <3>2. ticket'[call[r].ticket].status = "assigned"
      BY <2>1, <2>4 DEF CommitAssign, TypeInv, TypeOK, TicketRow
    <3>3. t # call[r].ticket
      BY <3>2
    <3>4. ticket'[t].status = ticket[t].status
      BY <2>4, <3>3 DEF CommitAssign, TypeInv, TypeOK
    <3> QED BY <2>3, <3>1, <3>3, <3>4
  <2>5. CASE CommitAdminStatus(r)
    <3>1. ticket'[t].status = ticket[t].status \/ (call[r].ticket = t /\ call[r].to = "closed")
      BY <1>6, CommitStatus
    <3>2. CASE Revokes(call[r].to)
      <4>1. /\ LivePlatform(call[r].ticket)' = {}
            /\ \A s \in Tickets \ {call[r].ticket} : LivePlatform(s)' = LivePlatform(s)
        BY <2>1, <2>5, <3>2, RevokeClears DEF CommitAdminStatus
      <4>2. t # call[r].ticket
        BY <2>1, <4>1
      <4> QED BY <2>3, <3>1, <4>1, <4>2
    <3>3. CASE ~Revokes(call[r].to)
      <4>1. LivePlatform(t)' = LivePlatform(t)
        BY <2>1, <2>5, <3>3 DEF CommitAdminStatus, LivePlatform, GrantsOf
      <4> QED BY <2>3, <3>1, <3>3, <4>1 DEF Revokes
    <3> QED BY <3>2, <3>3
  <2>6. CASE CommitClientStatus(r) \/ CommitRate(r) \/ CommitComment(r) \/ CommitNote(r)
    <3>1. LivePlatform(t)' = LivePlatform(t)
      BY <2>1, <2>6 DEF CommitClientStatus, CommitRate, CommitComment, CommitNote, grantVars,
                        LivePlatform, GrantsOf
    <3>2. CASE ticket'[t].status = ticket[t].status
      BY <2>3, <3>1, <3>2
    <3>3. CASE ticket'[t].status # ticket[t].status
      <4>1. call[r].ticket = t /\ Moves(call[r].op) /\ call[r].to = "closed"
        BY <1>6, <3>3, CommitStatus
      <4>2. call[r].op \in {"client_status", "rate", "comment", "note"}
        BY <2>6 DEF CommitClientStatus, CommitRate, CommitComment, CommitNote, Committing
      <4>3. phase'[r] = "done" /\ call'[r] = call[r]
        BY <2>1 DEF TypeInv, TypeOK
      <4> QED BY <4>1, <4>2, <4>3 DEF Moves, ClosedByClient
    <3> QED BY <3>2, <3>3
  <2> QED BY <1>6, <2>4, <2>5, <2>6 DEF CommitRequest
<1>7. ASSUME NEW row \in outbox, DrainerWrites(row) PROVE ClosedByClient(t)'
  BY <1>1, <1>2, <1>7 DEF DrainerWrites, LivePlatform, GrantsOf
<1> QED BY <1>3, <1>4, <1>5, <1>6, <1>7 DEF Next

(* A closed ticket that still has a live platform grant was closed by a client: *)
(* no interleaving of staff requests leaves one.                             *)
THEOREM ClosedAccessExplained == Spec => []ClosedAccessForCause
<1>1. Init => ClosedAccessForCause
  BY DEF Init, NewTicket, ClosedAccessForCause
<1>2. Spec => []TypeInv
  BY TypeInit, TypeStep, PTL DEF Spec
<1> QED BY <1>1, <1>2, ClosedStep, PTL DEF Spec

-----------------------------------------------------------------------------
(* The grants implement the promise of PlatformAccess.                      *)

HolderMap == [t \in Tickets |-> HolderOf(t)]
ResolvedMap == [t \in Tickets |-> ticket[t].status = "resolved"]

(* Who holds a ticket depends on its live platform grants alone.            *)
LEMMA SameHolder ==
  ASSUME NEW s \in Tickets, LivePlatform(s)' = LivePlatform(s),
         \A g \in LivePlatform(s) : call'[g] = call[g]
  PROVE  HolderOf(s)' = HolderOf(s)
BY DEF HolderOf

LEMMA PromiseInit == Init => Promise!AccessInit
<1> SUFFICES ASSUME Init PROVE Promise!AccessInit
  OBVIOUS
<1>1. \A t \in Tickets : LivePlatform(t) = {}
  BY DEF Init, LivePlatform, GrantsOf
<1>2. \A t \in Tickets : HolderOf(t) = NoOne
  BY <1>1 DEF HolderOf
<1>3. \A t \in Tickets : ticket[t].status # "resolved"
  BY DEF Init, NewTicket
<1> QED BY <1>2, <1>3 DEF Promise!AccessInit

(* How a step on one ticket shows on the abstract variables.                *)
LEMMA MapsChange ==
  ASSUME TypeInv, NEW t \in Tickets,
         \A s \in Tickets \ {t} : /\ LivePlatform(s)' = LivePlatform(s)
                               /\ ticket'[s].status = ticket[s].status,
         call' = call
  PROVE  /\ HolderMap' = [HolderMap EXCEPT ![t] = HolderOf(t)']
         /\ ResolvedMap' = [ResolvedMap EXCEPT ![t] = (ticket'[t].status = "resolved")]
<1>1. \A s \in Tickets \ {t} : HolderOf(s)' = HolderOf(s)
  BY SameHolder
<1>2. HolderMap' = [HolderMap EXCEPT ![t] = HolderOf(t)']
  BY <1>1 DEF HolderMap
<1>3. ResolvedMap' = [ResolvedMap EXCEPT ![t] = (ticket'[t].status = "resolved")]
  BY DEF ResolvedMap
<1> QED BY <1>2, <1>3

LEMMA PromiseAssign ==
  ASSUME AccessInv, NEW r \in Requests, CommitAssign(r)
  PROVE  Promise!AccessNext
<1>1. TypeInv
  BY DEF AccessInv
<1>2. Committing(r, "assign")
  BY DEF CommitAssign
<1> PICK t \in Tickets : call[r].ticket = t
  BY <1>1, <1>2, CommittingCall DEF TypeInv
<1>3. /\ call' = call /\ product[r] = "none"
      /\ call[r].agent \in Staff /\ Eligible(call[r].agent, t)
  BY <1>1, <1>2, CommittingCall DEF TypeInv, WellFormed
<1>4. /\ LivePlatform(t)' = {r}
      /\ \A s \in Tickets \ {t} : LivePlatform(s)' = LivePlatform(s)
  BY <1>1, <1>3, IssueReplaces DEF CommitAssign
<1>5. /\ ticket'[t].status = "assigned"
      /\ \A s \in Tickets \ {t} : ticket'[s] = ticket[s]
  BY <1>1 DEF CommitAssign, TypeInv, TypeOK, TicketRow
<1>6. HolderOf(t)' = call[r].agent
  BY <1>3, <1>4 DEF HolderOf
<1>7. /\ HolderMap' = [HolderMap EXCEPT ![t] = call[r].agent]
      /\ ResolvedMap' = [ResolvedMap EXCEPT ![t] = FALSE]
  BY <1>1, <1>3, <1>4, <1>5, <1>6, MapsChange
<1>8. PICK a \in Staff : call[r].agent = a /\ Eligible(a, t)
  BY <1>3
<1>9. Promise!Assign(t, a)
  BY <1>7, <1>8 DEF Promise!Assign, HolderMap, ResolvedMap
<1> QED BY <1>9 DEF Promise!AccessNext

LEMMA PromiseAdminStatus ==
  ASSUME AccessInv, NEW r \in Requests, CommitAdminStatus(r)
  PROVE  Promise!AccessNext
<1>1. TypeInv
  BY DEF AccessInv
<1>2. Committing(r, "admin_status") /\ StatusWritten(r, call[r].ticket)
  BY DEF CommitAdminStatus
<1> PICK t \in Tickets : call[r].ticket = t
  BY <1>1, <1>2, CommittingCall DEF TypeInv
<1>3. call[r].to \in Statuses /\ call' = call
  BY <1>1, <1>2, CommittingCall DEF TypeInv
<1>4. /\ ticket'[t].status = call[r].to
      /\ \A s \in Tickets \ {t} : ticket'[s] = ticket[s]
  BY <1>1, <1>2, <1>3, StampedIsDated
<1>5. CASE Revokes(call[r].to)
  <2>1. platform' = PlatformRevoked(t) /\ product' = ProductRevoked(t)
    BY <1>5 DEF CommitAdminStatus
  <2>2. /\ LivePlatform(t)' = {}
        /\ \A s \in Tickets \ {t} : LivePlatform(s)' = LivePlatform(s)
    BY <1>1, <1>3, <2>1, RevokeClears
  <2>3. HolderOf(t)' = NoOne
    BY <2>2 DEF HolderOf
  <2>4. /\ HolderMap' = [HolderMap EXCEPT ![t] = NoOne]
        /\ ResolvedMap' = [ResolvedMap EXCEPT ![t] = (call[r].to = "resolved")]
    BY <1>1, <1>3, <1>4, <2>2, <2>3, MapsChange
  <2>5. CASE call[r].to = "resolved"
    <3>1. Promise!Resolve(t)
      BY <2>4, <2>5 DEF Promise!Resolve, HolderMap, ResolvedMap
    <3> QED BY <3>1 DEF Promise!AccessNext
  <2>6. CASE call[r].to # "resolved"
    <3>1. Promise!Withdraw(t)
      BY <2>4, <2>6 DEF Promise!Withdraw, HolderMap, ResolvedMap
    <3> QED BY <3>1 DEF Promise!AccessNext
  <2> QED BY <2>5, <2>6
<1>6. CASE ~Revokes(call[r].to)
  <2>1. \A s \in Tickets : LivePlatform(s)' = LivePlatform(s)
    BY <1>3, <1>6 DEF CommitAdminStatus, LivePlatform, GrantsOf
  <2>2. HolderOf(t)' = HolderOf(t)
    BY <1>3, <2>1, SameHolder
  <2>3. /\ HolderMap' = [HolderMap EXCEPT ![t] = HolderOf(t)]
        /\ ResolvedMap' = [ResolvedMap EXCEPT ![t] = FALSE]
    BY <1>1, <1>3, <1>4, <1>6, <2>1, <2>2, MapsChange DEF Revokes
  <2>4. Promise!Move(t)
    BY <2>3 DEF Promise!Move, HolderMap, ResolvedMap
  <2> QED BY <2>4 DEF Promise!AccessNext
<1> QED BY <1>5, <1>6

LEMMA PromiseClientStatus ==
  ASSUME AccessInv, NEW r \in Requests, CommitClientStatus(r)
  PROVE  Promise!AccessNext
<1>1. TypeInv
  BY DEF AccessInv
<1>2. Committing(r, "client_status") /\ StatusWritten(r, call[r].ticket)
  BY DEF CommitClientStatus
<1> PICK t \in Tickets : call[r].ticket = t
  BY <1>1, <1>2, CommittingCall DEF TypeInv
<1>3. /\ call[r].to \in Statuses /\ call[r].to # "resolved" /\ call' = call
  BY <1>1, <1>2, CommittingCall DEF TypeInv, WellFormed, PRODUCT_SETTABLE_STATUSES
<1>4. /\ ticket'[t].status = call[r].to
      /\ \A s \in Tickets \ {t} : ticket'[s] = ticket[s]
  BY <1>1, <1>2, <1>3, StampedIsDated
<1>5. \A s \in Tickets : LivePlatform(s)' = LivePlatform(s)
  BY <1>3 DEF CommitClientStatus, grantVars, LivePlatform, GrantsOf
<1>6. HolderOf(t)' = HolderOf(t)
  BY <1>3, <1>5, SameHolder
<1>7. /\ HolderMap' = [HolderMap EXCEPT ![t] = HolderOf(t)]
      /\ ResolvedMap' = [ResolvedMap EXCEPT ![t] = FALSE]
  BY <1>1, <1>3, <1>4, <1>5, <1>6, MapsChange
<1>8. Promise!Move(t)
  BY <1>7 DEF Promise!Move, HolderMap, ResolvedMap
<1> QED BY <1>8 DEF Promise!AccessNext

(* Every other step leaves holders and resolved tickets as they were.       *)
LEMMA PromiseStutter ==
  ASSUME NEW r \in Requests, AccessInv,
         \/ BeginRequest(r) \/ Rollback(r) \/ UNCHANGED vars
         \/ CommitRate(r) \/ CommitComment(r) \/ CommitNote(r)
  PROVE  HolderMap' = HolderMap /\ ResolvedMap' = ResolvedMap
<1>1. TypeInv /\ ticket \in [Tickets -> TicketRow]
  BY DEF AccessInv, TypeInv, TypeOK
<1>2. CASE BeginRequest(r)
  <2>1. ticket' = ticket
    BY <1>1, <1>2, BeginWellFormed DEF TypeInv, Begin
  <2>2. \A s \in Tickets : HolderOf(s)' = HolderOf(s)
    BY <1>1, <1>2, BeginKeepsGrants, SameHolder
  <2> QED BY <2>1, <2>2 DEF HolderMap, ResolvedMap
<1>3. ASSUME platform' = platform, call' = call,
             \A s \in Tickets : ticket'[s].status = ticket[s].status
      PROVE  HolderMap' = HolderMap /\ ResolvedMap' = ResolvedMap
  <2>1. \A s \in Tickets : LivePlatform(s)' = LivePlatform(s)
    BY <1>3 DEF LivePlatform, GrantsOf
  <2>2. \A s \in Tickets : HolderOf(s)' = HolderOf(s)
    BY <1>3, <2>1, SameHolder
  <2> QED BY <1>3, <2>2 DEF HolderMap, ResolvedMap
<1>4. CASE Rollback(r) \/ UNCHANGED vars
  BY <1>3, <1>4 DEF Rollback, vars, grantVars, rowVars
<1>5. CASE CommitRate(r)
  BY <1>1, <1>3, <1>5 DEF CommitRate, Committing, grantVars, TicketRow
<1>6. CASE CommitComment(r)
  <2>1. PICK b \in BOOLEAN : ticket' = [ticket EXCEPT ![call[r].ticket].responded = b]
    BY <1>6, Zenon DEF CommitComment
  <2>2. platform' = platform /\ call' = call
    BY <1>6 DEF CommitComment, Committing, grantVars
  <2> QED BY <1>1, <1>3, <2>1, <2>2 DEF TicketRow
<1>7. CASE CommitNote(r)
  BY <1>3, <1>7 DEF CommitNote, Committing, grantVars
<1> QED BY <1>2, <1>4, <1>5, <1>6, <1>7

LEMMA PromiseStep == AccessInv /\ [Next]_vars => [Promise!AccessNext]_(Promise!accessVars)
<1> SUFFICES ASSUME AccessInv, [Next]_vars, ~Promise!AccessNext
             PROVE  UNCHANGED Promise!accessVars
  OBVIOUS
<1>1. HolderMap' = HolderMap /\ ResolvedMap' = ResolvedMap
  <2>1. CASE UNCHANGED vars \/ \E row \in outbox : DrainerWrites(row)
    <3>1. platform' = platform /\ call' = call /\ ticket' = ticket
      BY <2>1 DEF vars, grantVars, DrainerWrites
    <3>2. \A s \in Tickets : HolderOf(s)' = HolderOf(s)
      BY <3>1 DEF HolderOf, LivePlatform, GrantsOf
    <3> QED BY <3>1, <3>2 DEF HolderMap, ResolvedMap
  <2>2. ASSUME NEW r \in Requests, BeginRequest(r) \/ CommitRequest(r) \/ Rollback(r)
        PROVE  HolderMap' = HolderMap /\ ResolvedMap' = ResolvedMap
    BY <2>2, PromiseAssign, PromiseAdminStatus, PromiseClientStatus, PromiseStutter
       DEF CommitRequest
  <2> QED BY <2>1, <2>2 DEF Next
<1> QED BY <1>1 DEF Promise!accessVars, HolderMap, ResolvedMap

(* The transactions of core-service implement the promise: payload access    *)
(* changes hands only by assigning a user scoped to the tenant, and ends    *)
(* when the ticket resolves or staff close it.                              *)
THEOREM ImplementsPromise == Spec => PromiseKept
<1>1. Init => Promise!AccessInit
  BY PromiseInit
<1>2. AccessInv /\ [Next]_vars => [Promise!AccessNext]_(Promise!accessVars)
  BY PromiseStep
<1> QED BY <1>1, <1>2, AccessSafe, PTL DEF Spec, PromiseKept, Promise!AccessSpec

-----------------------------------------------------------------------------
(* AccessDelivery.  What the properties rest on: a row of the outbox names    *)
(* transactions that committed (RowsOK), and the delivery in progress knows   *)
(* what the log and the attempt counter say of it (DeliveryOK).              *)

(* DeliveryTypeOK without the clock, which needs a finite set of requests.   *)
Typed ==
  /\ TypeInv
  /\ published \subseteq outbox
  /\ backedOff \subseteq outbox
  /\ attempts \in [Requests -> Nat]
  /\ log \subseteq LogRow
  /\ batch \subseteq outbox
  /\ current \subseteq Delivery
  /\ \A d, e \in current : d = e
  /\ held \in [Requests -> SUBSET Products]
  /\ crashes \in Nat

Logged(d) == [row |-> d.row, attempt |-> d.attempt, outcome |-> d.outcome]

(* Once an attempt is over its answer is in the log, or there was no secret   *)
(* to sign it with.                                                          *)
Answered(d) ==
  \/ d.outcome \in AllAnswers /\ Logged(d) \in log
  \/ d.outcome = "unsigned" /\ d.row.product \in Unsigned

DeliveryOK ==
  \A d \in current :
    /\ d.row \in outbox
    /\ d.stage # "failed" => d.attempt = attempts[d.row.grant] + 1
    /\ d.stage = "failed" => d.attempt = attempts[d.row.grant]
    /\ d.stage = "answered" => d.outcome \in AllAnswers
    /\ d.stage \in {"settling", "failed"} => Answered(d)

DeliveryInv == Typed /\ RowsOK /\ DeliveryOK

-----------------------------------------------------------------------------
(* The invariant.                                                           *)

LEMMA DeliveryInvInit == DeliveryInit => DeliveryInv
<1> SUFFICES ASSUME DeliveryInit PROVE DeliveryInv
  OBVIOUS
<1>1. TypeInv /\ outbox = {}
  BY TypeInit DEF DeliveryInit, Init
<1>2. Typed
  BY <1>1 DEF DeliveryInit, Typed
<1>3. RowsOK /\ DeliveryOK
  BY <1>1 DEF DeliveryInit, RowsOK, DeliveryOK
<1> QED BY <1>2, <1>3 DEF DeliveryInv

(* What every request leaves behind, whether it begins or ends.              *)
LEMMA RequestMoves ==
  ASSUME DeliveryInv, NEW r \in Requests, RequestBegins(r) \/ RequestEnds(r)
  PROVE  /\ UNCHANGED <<queueVars, drainerVars, held, crashes>>
         /\ TypeInv'
         /\ outbox \subseteq outbox'
         /\ RowsAdded(r) /\ \A row \in outbox' \ outbox : phase[r] = "open"
         /\ \A g \in Requests : GrantMoved(g, r)
         /\ \A g \in Requests : phase[g] # "idle" => call'[g] = call[g]
         /\ RowsOK'
<1>1. UNCHANGED <<queueVars, drainerVars, held, crashes>>
  BY DEF RequestBegins, RequestEnds, deliveryVars
<1>2. TypeInv /\ phase \in [Requests -> {"idle", "open", "done", "failed"}]
  BY DEF DeliveryInv, Typed, TypeInv, TypeOK
<1>3. TypeInv'
  BY <1>2, TypeStep DEF RequestBegins, RequestEnds, Next
<1>4. outbox \subseteq AccessRow
  BY <1>2 DEF TypeInv, TypeOK
<1>5. CASE BeginRequest(r) \/ Rollback(r)
  <2>1. /\ UNCHANGED <<product, outbox>>
        /\ \A g \in Requests : phase[g] = "done" => phase'[g] = "done"
        /\ \A g \in Requests : phase[g] # "idle" => call'[g] = call[g]
    BY <1>2, <1>5, BeginMoves
  <2>2. RowsOK'
    BY <1>3 DEF TypeInv
  <2> QED BY <1>1, <1>3, <2>1, <2>2 DEF GrantMoved, RowsAdded
<1>6. CASE CommitRequest(r)
  <2>1. /\ phase[r] = "open" /\ phase' = [phase EXCEPT ![r] = "done"]
        /\ call' = call
        /\ RowsAdded(r)
        /\ \A g \in Requests : GrantMoved(g, r)
    BY <1>2, <1>6, CommitMoves
  <2>3. RowsOK'
    BY <1>3 DEF TypeInv
  <2> QED BY <1>1, <1>3, <2>1, <2>3 DEF RowsAdded
<1> QED BY <1>5, <1>6 DEF RequestBegins, RequestEnds

LEMMA RequestsKeepDelivery ==
  ASSUME DeliveryInv, NEW r \in Requests, RequestBegins(r) \/ RequestEnds(r)
  PROVE  DeliveryInv'
<1>1. /\ UNCHANGED <<queueVars, drainerVars, held, crashes>>
      /\ TypeInv' /\ outbox \subseteq outbox' /\ RowsOK'
  BY RequestMoves
<1>2. Typed'
  BY <1>1 DEF DeliveryInv, Typed, queueVars, drainerVars
<1>3. DeliveryOK'
  BY <1>1 DEF DeliveryInv, DeliveryOK, Answered, Logged, queueVars, drainerVars
<1> QED BY <1>1, <1>2, <1>3 DEF DeliveryInv

(* The steps that change no row of the requests.                             *)
LEMMA QuietTypes ==
  ASSUME DeliveryInv, UNCHANGED vars
  PROVE  TypeInv' /\ RowsOK' /\ outbox' = outbox
<1>1. UNCHANGED <<ticket, platform, product, preauth, outbox, ticketEvents, audit, phase, call>>
  BY DEF vars, grantVars, rowVars
<1>2. TypeOK'
  BY <1>1 DEF DeliveryInv, Typed, TypeInv, TypeOK
<1>3. RequestsOK'
  BY <1>1 DEF DeliveryInv, Typed, TypeInv, RequestsOK, WellFormed
<1>4. RowsOK'
  BY <1>1 DEF DeliveryInv, RowsOK, Callback
<1> QED BY <1>1, <1>2, <1>3, <1>4 DEF TypeInv

(* Settling a delivery is all the drainer does to the tables of the requests. *)
LEMMA SettlingWrites ==
  ASSUME NEW d, Succeed(d) \/ FailGrant(d)
  PROVE  DrainerWrites(d.row) \/ UNCHANGED vars
<1>1. CASE Succeed(d)
  BY <1>1 DEF Succeed, DrainerWrites
<1>2. CASE FailGrant(d)
  <2>1. UNCHANGED <<ticket, platform, preauth, rowVars, phase, call>>
    BY <1>2 DEF FailGrant
  <2>2. CASE Exhausted(d)
    BY <1>2, <2>1, <2>2 DEF FailGrant, DrainerWrites
  <2>3. CASE ~Exhausted(d)
    BY <1>2, <2>1, <2>3 DEF FailGrant, vars, grantVars
  <2> QED BY <2>2, <2>3
<1> QED BY <1>1, <1>2

LEMMA SettledTypes ==
  ASSUME DeliveryInv, NEW d, d.row \in outbox, Succeed(d) \/ FailGrant(d)
  PROVE  TypeInv' /\ RowsOK'
<1>1. TypeInv
  BY DEF DeliveryInv, Typed
<1>2. CASE DrainerWrites(d.row)
  BY <1>1, <1>2, TypeDrainer DEF TypeInv
<1>3. CASE UNCHANGED vars
  BY <1>3, QuietTypes
<1> QED BY <1>2, <1>3, SettlingWrites

LEMMA BatchKeepsDelivery ==
  ASSUME DeliveryInv,
         \/ Drain \/ Crash \/ UNCHANGED allVars
         \/ \E row \in batch : Skip(row) \/ Prepare(row)
         \/ \E row \in backedOff : BackoffElapses(row)
  PROVE  DeliveryInv'
<1>1. TypeInv' /\ RowsOK' /\ outbox' = outbox
  BY QuietTypes DEF Drain, Crash, Skip, Prepare, BackoffElapses, allVars
<1>2. Typed /\ DeliveryOK
  BY DEF DeliveryInv
<1>3. CASE Drain
  <2>1. Typed'
    BY <1>1, <1>2, <1>3 DEF Typed, Drain, DueRows, queueVars
  <2>2. DeliveryOK'
    BY <1>3 DEF Drain, DeliveryOK
  <2> QED BY <1>1, <2>1, <2>2 DEF DeliveryInv
<1>4. CASE Crash
  BY <1>1, <1>2, <1>4 DEF Crash, DeliveryInv, Typed, DeliveryOK, queueVars
<1>5. CASE UNCHANGED allVars
  BY <1>1, <1>2, <1>5
     DEF DeliveryInv, Typed, DeliveryOK, Answered, Logged, allVars, deliveryVars, queueVars,
         drainerVars
<1>6. ASSUME NEW row \in batch, Skip(row) PROVE DeliveryInv'
  BY <1>1, <1>2, <1>6 DEF Skip, IsNext, DeliveryInv, Typed, DeliveryOK
<1>7. ASSUME NEW row \in batch, Prepare(row) PROVE DeliveryInv'
  <2>1. /\ row \in outbox /\ row \in AccessRow
        /\ attempts[row.grant] + 1 \in Nat
    BY <1>1, <1>2 DEF Typed, TypeInv, TypeOK, AccessRow
  <2>2. PICK d : /\ current' = {d}
                 /\ \/ /\ row.product \in Unsigned
                       /\ d = Delivering("settling", row, attempts[row.grant] + 1, "unsigned")
                    \/ d = Delivering("sending", row, attempts[row.grant] + 1, "none")
    BY <1>7 DEF Prepare
  <2>3. d \in Delivery
    BY <2>1, <2>2 DEF Delivering, Delivery, Outcomes
  <2>4. UNCHANGED <<published, backedOff, attempts, log, held, crashes>> /\ batch' = batch \ {row}
    BY <1>7 DEF Prepare, queueVars
  <2>5. Typed'
    BY <1>1, <1>2, <2>2, <2>3, <2>4 DEF Typed
  <2>6. DeliveryOK'
    BY <1>1, <2>1, <2>2, <2>4 DEF DeliveryOK, Delivering, Answered
  <2> QED BY <1>1, <2>5, <2>6 DEF DeliveryInv
<1>8. ASSUME NEW row \in backedOff, BackoffElapses(row) PROVE DeliveryInv'
  BY <1>1, <1>2, <1>8
     DEF BackoffElapses, DeliveryInv, Typed, DeliveryOK, Answered, Logged, drainerVars
<1> QED BY <1>3, <1>4, <1>5, <1>6, <1>7, <1>8

(* What is known of the delivery in progress.                                *)
LEMMA InProgress ==
  ASSUME DeliveryInv, NEW d \in current
  PROVE  /\ d \in Delivery /\ current = {d}
         /\ d.row \in outbox /\ d.row \in AccessRow /\ d.row.grant \in Requests
         /\ d.attempt \in Nat /\ attempts[d.row.grant] \in Nat
         /\ Typed /\ DeliveryOK
BY DEF DeliveryInv, Typed, DeliveryOK, Delivery, AccessRow

LEMMA SendKeepsDelivery ==
  ASSUME DeliveryInv, NEW d \in current, Send(d) \/ Log(d)
  PROVE  DeliveryInv'
<1>1. /\ d \in Delivery /\ current = {d} /\ d.row \in outbox /\ d.row \in AccessRow
      /\ d.row.grant \in Requests /\ d.attempt \in Nat /\ Typed /\ DeliveryOK
  BY InProgress
<1>2. TypeInv' /\ RowsOK' /\ outbox' = outbox
  BY QuietTypes DEF Send, Log
<1>3. CASE Send(d)
  <2>1. PICK answer \in Answers :
          current' = {[d EXCEPT !.stage = "answered", !.outcome = answer]}
    BY <1>3 DEF Send
  <2>2. answer \in AllAnswers
    BY DeliveryAssumption
  <2> DEFINE e == [d EXCEPT !.stage = "answered", !.outcome = answer]
  <2>3. /\ e \in Delivery /\ e.row = d.row /\ e.attempt = d.attempt
        /\ e.stage = "answered" /\ e.outcome = answer
    BY <1>1, <2>2 DEF Delivery, Outcomes
  <2>4. UNCHANGED <<published, backedOff, attempts, log, batch, crashes>> /\ d.stage = "sending"
    BY <1>3 DEF Send, queueVars
  <2>5. held' \in [Requests -> SUBSET Products]
    <3>1. Applied(d.row) \in [Requests -> SUBSET Products]
      BY <1>1 DEF Applied, Typed, AccessRow
    <3> QED BY <1>1, <1>3, <3>1 DEF Send, Typed
  <2>6. Typed'
    BY <1>1, <1>2, <2>1, <2>3, <2>4, <2>5 DEF Typed
  <2>7. DeliveryOK'
    BY <1>1, <1>2, <2>1, <2>2, <2>3, <2>4 DEF DeliveryOK
  <2> QED BY <1>2, <2>6, <2>7 DEF DeliveryInv
<1>4. CASE Log(d)
  <2> DEFINE e == [d EXCEPT !.stage = "settling"]
  <2>1. /\ e \in Delivery /\ e.row = d.row /\ e.attempt = d.attempt
        /\ e.stage = "settling" /\ e.outcome = d.outcome
    BY <1>1 DEF Delivery
  <2>2. /\ current' = {e} /\ d.stage = "answered"
        /\ log' = log \cup {Logged(d)}
        /\ UNCHANGED <<published, backedOff, attempts, batch, held, crashes>>
    BY <1>4 DEF Log, Logged
  <2>3. d.outcome \in AllAnswers /\ Logged(d) \in LogRow
    BY <1>1, <2>2 DEF DeliveryOK, Logged, LogRow, Outcomes
  <2>4. Typed'
    BY <1>1, <1>2, <2>1, <2>2, <2>3 DEF Typed
  <2>5. DeliveryOK'
    BY <1>1, <1>2, <2>1, <2>2, <2>3 DEF DeliveryOK, Answered, Logged
  <2> QED BY <1>2, <2>4, <2>5 DEF DeliveryInv
<1> QED BY <1>3, <1>4

LEMMA SettleKeepsDelivery ==
  ASSUME DeliveryInv, NEW d \in current, Succeed(d) \/ FailGrant(d) \/ FailRow(d)
  PROVE  DeliveryInv'
<1>1. /\ d \in Delivery /\ current = {d} /\ d.row \in outbox /\ d.row \in AccessRow
      /\ d.row.grant \in Requests /\ d.attempt \in Nat /\ Typed /\ DeliveryOK
  BY InProgress
<1>3. CASE Succeed(d)
  <2>1. TypeInv' /\ RowsOK'
    BY <1>1, <1>3, SettledTypes
  <2>2. outbox' = outbox /\ current' = {}
    BY <1>3 DEF Succeed, rowVars
  <2>3. Typed'
    BY <1>1, <1>3, <2>1, <2>2 DEF Typed, Succeed
  <2>4. DeliveryOK'
    BY <2>2 DEF DeliveryOK
  <2> QED BY <2>1, <2>3, <2>4 DEF DeliveryInv
<1>4. CASE FailGrant(d)
  <2>1. TypeInv' /\ RowsOK'
    BY <1>1, <1>4, SettledTypes
  <2> DEFINE e == [d EXCEPT !.stage = "failed"]
  <2>2. /\ e \in Delivery /\ e.row = d.row /\ e.attempt = d.attempt
        /\ e.stage = "failed" /\ e.outcome = d.outcome
    BY <1>1 DEF Delivery
  <2>3. /\ current' = {e} /\ outbox' = outbox /\ d.stage = "settling"
        /\ attempts' = [attempts EXCEPT ![d.row.grant] = d.attempt]
        /\ UNCHANGED <<published, backedOff, log, batch, held, crashes>>
    BY <1>4 DEF FailGrant, rowVars
  <2>4. Typed'
    BY <1>1, <2>1, <2>2, <2>3 DEF Typed
  <2>5. DeliveryOK'
    BY <1>1, <2>2, <2>3 DEF DeliveryOK, Typed, Answered, Logged
  <2> QED BY <2>1, <2>4, <2>5 DEF DeliveryInv
<1>5. CASE FailRow(d)
  <2>1. TypeInv' /\ RowsOK' /\ outbox' = outbox
    BY <1>5, QuietTypes DEF FailRow
  <2>2. current' = {}
    BY <1>5 DEF FailRow
  <2>3. Typed'
    BY <1>1, <1>5, <2>1, <2>2 DEF Typed, FailRow
  <2>4. DeliveryOK'
    BY <2>2 DEF DeliveryOK
  <2> QED BY <2>1, <2>3, <2>4 DEF DeliveryInv
<1> QED BY <1>3, <1>4, <1>5

LEMMA DeliveryInvStep == DeliveryInv /\ [DeliveryNext]_allVars => DeliveryInv'
<1> SUFFICES ASSUME DeliveryInv, [DeliveryNext]_allVars PROVE DeliveryInv'
  OBVIOUS
<1> QED BY RequestsKeepDelivery, BatchKeepsDelivery, SendKeepsDelivery, SettleKeepsDelivery
           DEF DeliveryNext, DrainerNext, DeliveryStep

LEMMA DeliveryInvariant == DeliverySpec => []DeliveryInv
  BY DeliveryInvInit, DeliveryInvStep, PTL DEF DeliverySpec

(* The clock that orders the rows counts requests, of which there are         *)
(* finitely many.                                                            *)
(* A step of the composed system is a step of the requests, or the drainer     *)
(* writes one of its answers, or nothing of theirs changes.                  *)
LEMMA DeliveryStepIsStep == DeliveryInv /\ [DeliveryNext]_allVars => [Next]_vars
<1> SUFFICES ASSUME DeliveryInv, [DeliveryNext]_allVars PROVE [Next]_vars
  OBVIOUS
<1>1. ASSUME NEW r \in Requests, RequestBegins(r) \/ RequestEnds(r) PROVE Next
  BY <1>1 DEF RequestBegins, RequestEnds, Next
<1>2. ASSUME NEW d \in current, Succeed(d) \/ FailGrant(d) PROVE [Next]_vars
  BY <1>2, InProgress, SettlingWrites DEF Next
<1>3. ASSUME NEW d \in current, Send(d) \/ Log(d) \/ FailRow(d) PROVE UNCHANGED vars
  BY <1>3 DEF Send, Log, FailRow
<1>4. CASE \/ Drain \/ Crash \/ UNCHANGED allVars
           \/ \E row \in batch : Skip(row) \/ Prepare(row)
           \/ \E row \in backedOff : BackoffElapses(row)
  BY <1>4 DEF Drain, Crash, Skip, Prepare, BackoffElapses, allVars
<1> QED BY <1>1, <1>2, <1>3, <1>4 DEF DeliveryNext, DrainerNext, DeliveryStep

(* The requests beside the drainer behave as TicketAccess says they may, so     *)
(* what is proved of it holds however deliveries, retries and crashes go.    *)
THEOREM DeliveryKeepsRequests == DeliverySpec => Spec
<1>1. DeliveryInit => Init
  BY DEF DeliveryInit
<1> QED BY <1>1, DeliveryInvariant, DeliveryStepIsStep, PTL DEF DeliverySpec, Spec

(* In particular, a late answer of the drainer never leaves a resolved ticket  *)
(* with access whose end the product was not asked for.                      *)
COROLLARY ResolvedEndsDelivered ==
  DeliverySpec => [](ResolvedMeansRevoked /\ LayersAgree)
  BY DeliveryKeepsRequests, ResolvedEndsAccess, LayersEndTogether, PTL

LEMMA ClockStep ==
  ASSUME IsFiniteSet(Requests), began \in [Requests -> Nat], [DeliveryNext]_allVars
  PROVE  began' \in [Requests -> Nat]
<1>1. Clock \in Nat
  <2>1. IsFiniteSet({r \in Requests : began[r] # 0})
    BY FS_Subset
  <2> QED BY <2>1, FS_CardinalityType DEF Clock
<1>2. ASSUME NEW r \in Requests, RequestBegins(r) PROVE began' \in [Requests -> Nat]
  BY <1>1, <1>2 DEF RequestBegins
<1>3. ASSUME NEW r \in Requests, RequestEnds(r) PROVE began' = began
  BY <1>3 DEF RequestEnds, deliveryVars
<1>4. CASE DrainerNext \/ UNCHANGED allVars
  BY <1>4 DEF DrainerNext, DeliveryStep, Drain, Skip, Prepare, Send, Log, Succeed, FailGrant,
              FailRow, BackoffElapses, Crash, allVars, deliveryVars
<1> QED BY <1>2, <1>3, <1>4 DEF DeliveryNext

(* However the drainer and the requests interleave, and wherever the drainer   *)
(* stops, rows published, backed off or in a batch are rows of the outbox, and *)
(* one delivery at most is in progress.                                      *)
THEOREM DeliveryTypeCorrect == IsFiniteSet(Requests) => (DeliverySpec => []DeliveryTypeOK)
<1> SUFFICES ASSUME IsFiniteSet(Requests) PROVE DeliverySpec => []DeliveryTypeOK
  OBVIOUS
<1> DEFINE Clocked == began \in [Requests -> Nat]
<1>1. DeliveryInit => Clocked
  BY DEF DeliveryInit
<1>2. Clocked /\ [DeliveryNext]_allVars => Clocked'
  BY ClockStep
<1>3. DeliveryInv /\ Clocked => DeliveryTypeOK
  BY DEF DeliveryInv, Typed, TypeInv, DeliveryTypeOK
<1> HIDE DEF Clocked
<1> QED BY <1>1, <1>2, <1>3, DeliveryInvariant, PTL DEF DeliverySpec

-----------------------------------------------------------------------------
(* The properties.                                                          *)

(* The log only grows and no counter goes down.                              *)
LEMMA Progresses ==
  ASSUME DeliveryInv, [DeliveryNext]_allVars
  PROVE  /\ log \subseteq log'
         /\ \A g \in Requests : attempts[g] \in Nat /\ attempts'[g] \in Nat
                                /\ attempts[g] <= attempts'[g]
<1>1. Typed /\ Typed'
  BY DeliveryInvStep DEF DeliveryInv
<1>2. attempts \in [Requests -> Nat] /\ attempts' \in [Requests -> Nat]
  BY <1>1 DEF Typed
<1>3. CASE UNCHANGED <<log, attempts>>
  BY <1>2, <1>3
<1>4. ASSUME NEW d \in current, Succeed(d) \/ FailGrant(d)
      PROVE  log \subseteq log' /\ \A g \in Requests : attempts[g] <= attempts'[g]
  <2>1. d.row.grant \in Requests /\ DeliveryOK /\ d.stage = "settling"
    BY <1>4, InProgress DEF Succeed, FailGrant
  <2>2. d.attempt = attempts[d.row.grant] + 1
    BY <2>1 DEF DeliveryOK
  <2>3. attempts' = [attempts EXCEPT ![d.row.grant] = d.attempt] /\ log' = log
    BY <1>4 DEF Succeed, FailGrant
  <2> QED BY <1>2, <2>1, <2>2, <2>3
<1>5. ASSUME NEW d \in current, Log(d) PROVE log \subseteq log' /\ attempts' = attempts
  BY <1>5 DEF Log
<1>6. ASSUME NEW r \in Requests, RequestBegins(r) \/ RequestEnds(r)
      PROVE  UNCHANGED <<log, attempts>>
  BY <1>6 DEF RequestBegins, RequestEnds, deliveryVars, queueVars
<1>7. CASE Drain \/ Crash \/ (\E row \in backedOff : BackoffElapses(row)) \/ UNCHANGED allVars
  BY <1>3, <1>7 DEF Drain, Crash, BackoffElapses, allVars, deliveryVars, queueVars
<1>8. ASSUME NEW row \in batch, Skip(row) \/ Prepare(row) PROVE UNCHANGED <<log, attempts>>
  BY <1>8 DEF Skip, Prepare, queueVars
<1>9. ASSUME NEW d \in current, Send(d) \/ FailRow(d) PROVE UNCHANGED <<log, attempts>>
  BY <1>9 DEF Send, FailRow, queueVars
<1> QED BY <1>2, <1>3, <1>4, <1>5, <1>6, <1>7, <1>8, <1>9
           DEF DeliveryNext, DrainerNext, DeliveryStep

(* Why a row may be published.                                               *)
Excused(row) ==
  \/ Acknowledged(row)
  \/ row.product \notin CallbackUrls
  \/ row.product \in Unsigned
  \/ \E e \in log : e.row = row /\ e.outcome = "client_error"
  \/ attempts[row.grant] >= MaxAttempts

(* A logged attempt that succeeded acknowledges its row.                     *)
LEMMA SuccessAcknowledges ==
  ASSUME DeliveryInv, NEW d \in current, d.stage = "settling", Succeeded(d)
  PROVE  Logged(d) \in log /\ Logged(d).row = d.row /\ Acknowledged(d.row)
<1>1. Answered(d)
  BY InProgress DEF DeliveryOK
<1>2. d.outcome \in {"accepted", "denied"} /\ Logged(d) \in log
  BY <1>1 DEF Succeeded, Answered
<1> QED BY <1>2 DEF Logged, Acknowledged

LEMMA GivenUpStep ==
  ASSUME DeliveryInv, GivenUpForCause, [DeliveryNext]_allVars
  PROVE  GivenUpForCause'
<1>1. /\ log \subseteq log'
      /\ \A g \in Requests : attempts[g] \in Nat /\ attempts'[g] \in Nat
                             /\ attempts[g] <= attempts'[g]
  BY Progresses
<1>2. \A row \in outbox : row.grant \in Requests
  BY DEF DeliveryInv, Typed, TypeInv, TypeOK, AccessRow
<1>3. ASSUME NEW row \in outbox, Excused(row) PROVE Excused(row)'
  BY <1>1, <1>2, <1>3, DeliveryAssumption DEF Excused, Acknowledged
<1>4. \A row \in published : row \in outbox /\ Excused(row)
  BY DEF DeliveryInv, Typed, GivenUpForCause, Excused
<1>5. ASSUME NEW row \in outbox, published' = published \cup {row}, Excused(row)
      PROVE  GivenUpForCause'
  BY <1>3, <1>4, <1>5 DEF GivenUpForCause, Excused
<1>6. ASSUME published' = published PROVE GivenUpForCause'
  BY <1>3, <1>4, <1>6 DEF GivenUpForCause, Excused
<1>7. ASSUME NEW row \in batch, Skip(row) PROVE GivenUpForCause'
  BY <1>5, <1>7 DEF DeliveryInv, Typed, Skip, IsNext, Excused
<1>8. ASSUME NEW d \in current, Succeed(d) PROVE GivenUpForCause'
  <2>1. d.row \in outbox /\ Acknowledged(d.row)
    BY <1>8, InProgress, SuccessAcknowledges DEF Succeed
  <2> QED BY <1>5, <1>8, <2>1 DEF Succeed, Excused
<1>9. ASSUME NEW d \in current, FailRow(d) PROVE GivenUpForCause'
  <2>1. CASE Exhausted(d)
    <3>1. /\ d.row \in outbox /\ d.stage = "failed" /\ DeliveryOK
          /\ published' = published \cup {d.row}
      BY <1>9, <2>1, InProgress DEF FailRow
    <3>2. Answered(d) /\ d.attempt = attempts[d.row.grant]
      BY <3>1 DEF DeliveryOK
    <3>3. CASE d.outcome = "client_error"
      BY <1>5, <3>1, <3>2, <3>3 DEF Answered, Logged, Excused
    <3>4. CASE d.outcome = "unsigned"
      BY <1>5, <3>1, <3>2, <3>4 DEF Answered, AllAnswers, Excused
    <3>5. CASE d.attempt >= MaxAttempts
      BY <1>5, <3>1, <3>2, <3>5 DEF Excused
    <3> QED BY <2>1, <3>3, <3>4, <3>5 DEF Exhausted
  <2>2. CASE ~Exhausted(d)
    BY <1>6, <1>9, <2>2 DEF FailRow
  <2> QED BY <2>1, <2>2
<1>10. ASSUME NEW row \in batch, Prepare(row) PROVE published' = published
  BY <1>10 DEF Prepare, queueVars
<1>11. ASSUME NEW d \in current, Send(d) \/ Log(d) \/ FailGrant(d) PROVE published' = published
  BY <1>11 DEF Send, Log, FailGrant, queueVars
<1>12. ASSUME NEW r \in Requests, RequestBegins(r) \/ RequestEnds(r) PROVE published' = published
  BY <1>12 DEF RequestBegins, RequestEnds, deliveryVars, queueVars
<1>13. CASE Drain \/ Crash \/ (\E row \in backedOff : BackoffElapses(row)) \/ UNCHANGED allVars
  BY <1>6, <1>13 DEF Drain, Crash, BackoffElapses, allVars, deliveryVars, queueVars
<1> QED BY <1>6, <1>7, <1>8, <1>9, <1>10, <1>11, <1>12, <1>13
           DEF DeliveryNext, DrainerNext, DeliveryStep

(* An event is given up only when there is no URL or secret to send it with,  *)
(* the product refused it, or the attempts of its grant are used up, whatever *)
(* stops and restarts the drainer.                                           *)
THEOREM GivenUpWithCause == DeliverySpec => []GivenUpForCause
<1>1. DeliveryInit => GivenUpForCause
  BY DEF DeliveryInit, GivenUpForCause
<1> QED BY <1>1, DeliveryInvariant, GivenUpStep, PTL DEF DeliverySpec

-----------------------------------------------------------------------------
(* What one step does to the state of a grant.                               *)

AnsweredInKind(g, kind) ==
  \E e \in log : e.row.grant = g /\ e.row.kind = kind /\ Acknowledged(e.row)

(* A product grant that existed belongs to a committed request, whose ticket  *)
(* stays.                                                                    *)
LEMMA GrantsStay ==
  ASSUME DeliveryInv, [DeliveryNext]_allVars, NEW g \in Requests, product[g] # "none"
  PROVE  call'[g] = call[g]
<1>1. phase[g] = "done"
  BY DEF DeliveryInv, Typed, TypeInv, RequestsOK
<1>2. ASSUME NEW r \in Requests, RequestBegins(r) \/ RequestEnds(r) PROVE call'[g] = call[g]
  BY <1>1, <1>2, RequestMoves
<1>3. CASE DrainerNext \/ UNCHANGED allVars
  BY <1>3 DEF DrainerNext, DeliveryStep, Drain, Skip, Prepare, Send, Log, Succeed, FailGrant,
              FailRow, BackoffElapses, Crash, allVars, vars
<1> QED BY <1>2, <1>3 DEF DeliveryNext

(* The drainer's steps on product grants.                                    *)
LEMMA DrainerMoves ==
  ASSUME DeliveryInv, DrainerNext \/ UNCHANGED allVars
  PROVE  \/ product' = product
         \/ \E d \in current :
              /\ d.stage = "settling" /\ Succeeded(d)
              /\ product' = [product EXCEPT ![d.row.grant] = ConfirmedState(d.row)]
         \/ \E d \in current :
              /\ FailGrant(d) /\ Exhausted(d)
              /\ product' = [product EXCEPT ![d.row.grant] = FailedState(d.row)]
<1>1. CASE Drain \/ Crash \/ (\E row \in backedOff : BackoffElapses(row)) \/ UNCHANGED allVars
  BY <1>1 DEF Drain, Crash, BackoffElapses, allVars, vars, grantVars
<1>2. ASSUME NEW row \in batch, Skip(row) \/ Prepare(row) PROVE product' = product
  BY <1>2 DEF Skip, Prepare, vars, grantVars
<1>3. ASSUME NEW d \in current, Send(d) \/ Log(d) \/ FailRow(d) PROVE product' = product
  BY <1>3 DEF Send, Log, FailRow, vars, grantVars
<1>4. ASSUME NEW d \in current, Succeed(d)
      PROVE  /\ d.stage = "settling" /\ Succeeded(d)
             /\ product' = [product EXCEPT ![d.row.grant] = ConfirmedState(d.row)]
  BY <1>4 DEF Succeed
<1>5. ASSUME NEW d \in current, FailGrant(d)
      PROVE  \/ product' = product
             \/ /\ Exhausted(d)
                /\ product' = [product EXCEPT ![d.row.grant] = FailedState(d.row)]
  BY <1>5 DEF FailGrant
<1> QED BY <1>1, <1>2, <1>3, <1>4, <1>5 DEF DrainerNext, DeliveryStep

LEMMA ConfirmedStep ==
  ASSUME DeliveryInv, ConfirmedMeansAcknowledged, [DeliveryNext]_allVars
  PROVE  ConfirmedMeansAcknowledged'
<1> SUFFICES ASSUME NEW g \in Requests, product'[g] # "none", Callback(call'[g].ticket)
             PROVE  /\ product'[g] = "granted" => AnsweredInKind(g, "grant_requested")'
                    /\ product'[g] = "revoked" => AnsweredInKind(g, "revoke_requested")'
  BY DEF ConfirmedMeansAcknowledged, CallbackGrants, AnsweredInKind, Callback, Acknowledged
<1>1. log \subseteq log'
  BY Progresses
<1>2. \A kind : AnsweredInKind(g, kind) => AnsweredInKind(g, kind)'
  BY <1>1 DEF AnsweredInKind, Acknowledged
<1>3. ASSUME product'[g] = product[g]
      PROVE  /\ product'[g] = "granted" => AnsweredInKind(g, "grant_requested")'
             /\ product'[g] = "revoked" => AnsweredInKind(g, "revoke_requested")'
  <2>1. call'[g] = call[g]
    BY <1>3, GrantsStay
  <2>2. g \in CallbackGrants
    BY <1>3, <2>1 DEF CallbackGrants, Callback
  <2> QED BY <1>2, <1>3, <2>2 DEF ConfirmedMeansAcknowledged, AnsweredInKind
<1>4. ASSUME NEW r \in Requests, RequestBegins(r) \/ RequestEnds(r), product'[g] # product[g],
             product'[g] \in {"granted", "revoked"}
      PROVE  FALSE
  <2>1. ~Callback(call[g].ticket)
    BY <1>4, RequestMoves DEF GrantMoved
  <2>2. RequestEnds(r) /\ CommitRequest(r)
    BY <1>4, BeginMoves DEF RequestBegins, RequestEnds, DeliveryInv, Typed
  <2>3. call' = call
    BY <2>2, CommitMoves DEF DeliveryInv, Typed
  <2> QED BY <2>1, <2>3
<1>5. ASSUME DrainerNext \/ UNCHANGED allVars, product'[g] # product[g]
      PROVE  /\ product'[g] = "granted" => AnsweredInKind(g, "grant_requested")'
             /\ product'[g] = "revoked" => AnsweredInKind(g, "revoke_requested")'
  <2>1. product \in [Requests -> ProductStates]
    BY DEF DeliveryInv, Typed, TypeInv, TypeOK
  <2>2. ASSUME NEW d \in current, d.stage = "settling", Succeeded(d),
               product' = [product EXCEPT ![d.row.grant] = ConfirmedState(d.row)]
        PROVE  /\ product'[g] = "granted" => AnsweredInKind(g, "grant_requested")
               /\ product'[g] = "revoked" => AnsweredInKind(g, "revoke_requested")
    <3>1. d.row.grant = g /\ product'[g] = ConfirmedState(d.row)
      BY <1>5, <2>1, <2>2
    <3>2. d.row.kind \in {"grant_requested", "revoke_requested"}
      BY InProgress DEF AccessRow
    <3>3. AnsweredInKind(g, d.row.kind)
      BY <2>2, <3>1, SuccessAcknowledges DEF AnsweredInKind
    <3> QED BY <3>1, <3>2, <3>3 DEF ConfirmedState
  <2>3. ASSUME NEW d \in current,
               product' = [product EXCEPT ![d.row.grant] = FailedState(d.row)]
        PROVE  product'[g] \notin {"granted", "revoked"}
    BY <1>5, <2>1, <2>3 DEF FailedState
  <2> QED BY <1>2, <1>5, <2>2, <2>3, DrainerMoves
<1> QED BY <1>3, <1>4, <1>5 DEF DeliveryNext

(* The portal shows a callback grant as granted, or as revoked, only after    *)
(* the product answered 200 to an event that asked for it.                   *)
THEOREM ConfirmedByTheProduct == DeliverySpec => []ConfirmedMeansAcknowledged
<1>1. DeliveryInit => ConfirmedMeansAcknowledged
  BY DEF DeliveryInit, Init, ConfirmedMeansAcknowledged, CallbackGrants
<1> QED BY <1>1, DeliveryInvariant, ConfirmedStep, PTL DEF DeliverySpec

-----------------------------------------------------------------------------
(* No pending grant is forgotten.                                            *)

(* Between the two transactions of failAttempt: a row about to be given up is  *)
(* no longer the one its grant waits for.                                    *)
FailedOK ==
  \A d \in current : (d.stage = "failed" /\ Exhausted(d)) =>
    /\ d.row.kind = "grant_requested" => product[d.row.grant] \notin {"grant_pending", "revoked"}
    /\ d.row.kind = "revoke_requested" => product[d.row.grant] = "revoke_failed"

LEMMA FailedStep ==
  ASSUME DeliveryInv, FailedOK, [DeliveryNext]_allVars
  PROVE  FailedOK'
<1>1. product \in [Requests -> ProductStates]
  BY DEF DeliveryInv, Typed, TypeInv, TypeOK
<1>2. ASSUME NEW r \in Requests, RequestBegins(r) \/ RequestEnds(r) PROVE FailedOK'
  <2>1. current' = current /\ \A g \in Requests : GrantMoved(g, r)
    BY <1>2, RequestMoves DEF drainerVars
  <2>2. ASSUME NEW d \in current
        PROVE  /\ d.row.grant \in Requests /\ phase[d.row.grant] = "done"
               /\ Callback(call[d.row.grant].ticket)
    BY InProgress DEF DeliveryInv, RowsOK
  <2> QED BY <2>1, <2>2 DEF FailedOK, GrantMoved, Live, Exhausted
<1>3. CASE Drain \/ (\E row \in backedOff : BackoffElapses(row)) \/ UNCHANGED allVars
  BY <1>3 DEF Drain, BackoffElapses, allVars, deliveryVars, drainerVars, vars, grantVars, FailedOK,
              Exhausted
<1>4. ASSUME NEW row \in batch, Skip(row) \/ Prepare(row) PROVE FailedOK'
  BY <1>4 DEF Skip, Prepare, IsNext, Delivering, FailedOK
<1>5. ASSUME NEW d \in current, Send(d) \/ Log(d) PROVE FailedOK'
  <2>1. d \in Delivery
    BY InProgress
  <2>2. \A answer : /\ [d EXCEPT !.stage = "answered", !.outcome = answer].stage = "answered"
                    /\ [d EXCEPT !.stage = "settling"].stage = "settling"
    BY <2>1 DEF Delivery
  <2> QED BY <1>5, <2>2 DEF Send, Log, FailedOK
<1>6. ASSUME NEW d \in current, FailGrant(d) PROVE FailedOK'
  <2>1. d \in Delivery /\ d.row.grant \in Requests
    BY InProgress
  <2> DEFINE e == [d EXCEPT !.stage = "failed"]
  <2>2. e.row = d.row /\ e.attempt = d.attempt /\ e.outcome = d.outcome
    BY <2>1 DEF Delivery
  <2>3. current' = {e}
    BY <1>6 DEF FailGrant
  <2>4. CASE Exhausted(d)
    <3>1. product'[d.row.grant] = FailedState(d.row)
      BY <1>1, <1>6, <2>1, <2>4 DEF FailGrant
    <3>2. /\ d.row.kind = "grant_requested" => product'[d.row.grant] = "grant_failed"
          /\ d.row.kind = "revoke_requested" => product'[d.row.grant] = "revoke_failed"
      BY <3>1 DEF FailedState
    <3> HIDE DEF e
    <3> QED BY <2>2, <2>3, <3>2 DEF FailedOK
  <2>5. CASE ~Exhausted(d)
    BY <2>2, <2>3, <2>5 DEF FailedOK, Exhausted
  <2> QED BY <2>4, <2>5
<1>7. ASSUME NEW d \in current, Succeed(d) \/ FailRow(d) PROVE FailedOK'
  BY <1>7 DEF Succeed, FailRow, FailedOK
<1>8. CASE Crash
  BY <1>8 DEF Crash, FailedOK
<1> QED BY <1>2, <1>3, <1>4, <1>5, <1>6, <1>7, <1>8 DEF DeliveryNext, DrainerNext, DeliveryStep

Awaits(g, kind) == \E row \in outbox \ published : row.grant = g /\ row.kind = kind

LEMMA PendingStep ==
  ASSUME CallbackUrls = Products, DeliveryInv, FailedOK, PendingHasRow, [DeliveryNext]_allVars
  PROVE  PendingHasRow'
<1> SUFFICES ASSUME NEW g \in Requests
             PROVE  /\ product'[g] = "grant_pending" => Awaits(g, "grant_requested")'
                    /\ product'[g] = "revoke_pending" => Awaits(g, "revoke_requested")'
  BY DEF PendingHasRow, Awaits
<1>1. /\ product[g] = "grant_pending" => Awaits(g, "grant_requested")
      /\ product[g] = "revoke_pending" => Awaits(g, "revoke_requested")
  BY DEF PendingHasRow, Awaits
<1>2. Typed /\ RowsOK /\ product \in [Requests -> ProductStates] /\ outbox \subseteq AccessRow
  BY DEF DeliveryInv, Typed, TypeInv, TypeOK
<1> DEFINE Kept == /\ product'[g] = "grant_pending" => Awaits(g, "grant_requested")'
                   /\ product'[g] = "revoke_pending" => Awaits(g, "revoke_requested")'
<1>3. CASE product'[g] = product[g] /\ UNCHANGED <<outbox, published>>
  BY <1>1, <1>3 DEF Awaits
<1>4. ASSUME NEW r \in Requests, RequestBegins(r) \/ RequestEnds(r) PROVE Kept
  <2>1. /\ published' = published /\ outbox \subseteq outbox' /\ GrantMoved(g, r)
    BY <1>4, RequestMoves DEF queueVars
  <2>2. ASSUME NEW row \in outbox', row.by = r, phase[r] = "open" PROVE row \notin published'
    BY <1>2, <2>1, <2>2 DEF Typed, RowsOK
  <2>3. \A kind : Awaits(g, kind) => Awaits(g, kind)'
    BY <2>1 DEF Awaits
  <2>4. CASE product'[g] = product[g]
    BY <1>1, <2>3, <2>4
  <2>5. CASE product'[g] # product[g]
    BY <2>1, <2>2, <2>5 DEF GrantMoved, Awaits
  <2> QED BY <2>4, <2>5
<1>5. CASE Drain \/ Crash \/ (\E row \in backedOff : BackoffElapses(row)) \/ UNCHANGED allVars
  BY <1>3, <1>5 DEF Drain, Crash, BackoffElapses, allVars, deliveryVars, queueVars, vars, grantVars,
                    rowVars
<1>6. ASSUME NEW row \in batch, Skip(row) PROVE FALSE
  BY <1>2, <1>6 DEF Skip, IsNext, Typed, AccessRow
<1>7. ASSUME NEW row \in batch, Prepare(row) PROVE Kept
  BY <1>3, <1>7 DEF Prepare, queueVars, vars, grantVars, rowVars
<1>8. ASSUME NEW d \in current, Send(d) \/ Log(d) PROVE Kept
  BY <1>3, <1>8 DEF Send, Log, queueVars, vars, grantVars, rowVars
<1>9. ASSUME NEW d \in current, Succeed(d) PROVE Kept
  <2>1. /\ product' = [product EXCEPT ![d.row.grant] = ConfirmedState(d.row)]
        /\ published' = published \cup {d.row} /\ outbox' = outbox
    BY <1>9 DEF Succeed, rowVars
  <2>2. CASE d.row.grant = g
    BY <1>2, <2>1, <2>2 DEF ConfirmedState
  <2>3. CASE d.row.grant # g
    BY <1>1, <1>2, <2>1, <2>3 DEF Awaits
  <2> QED BY <2>2, <2>3
<1>10. ASSUME NEW d \in current, FailGrant(d) PROVE Kept
  <2>1. UNCHANGED <<outbox, published>>
    BY <1>10 DEF FailGrant, rowVars
  <2>2. product'[g] = product[g] \/ product'[g] = FailedState(d.row)
    BY <1>2, <1>10 DEF FailGrant
  <2> QED BY <1>3, <2>1, <2>2 DEF FailedState
<1>11. ASSUME NEW d \in current, FailRow(d) PROVE Kept
  <2>1. outbox' = outbox /\ product' = product /\ d.stage = "failed"
    BY <1>11 DEF FailRow, vars, grantVars, rowVars
  <2>2. CASE ~Exhausted(d)
    BY <1>3, <1>11, <2>1, <2>2 DEF FailRow
  <2>3. CASE Exhausted(d)
    <3>1. published' = published \cup {d.row}
      BY <1>11, <2>3 DEF FailRow
    <3>2. /\ d.row.kind = "grant_requested" => product[d.row.grant] # "grant_pending"
          /\ d.row.kind = "revoke_requested" => product[d.row.grant] = "revoke_failed"
      BY <2>1, <2>3 DEF FailedOK
    <3> QED BY <1>1, <2>1, <3>1, <3>2 DEF Awaits
  <2> QED BY <2>2, <2>3
<1> QED BY <1>4, <1>5, <1>6, <1>7, <1>8, <1>9, <1>10, <1>11
           DEF DeliveryNext, DrainerNext, DeliveryStep

(* Where every tenant has a callback URL, a grant that waits to be confirmed  *)
(* or revoked always has an unpublished event that says so: neither a crash    *)
(* between the statements of a delivery nor a request between the two          *)
(* transactions of a failed one leaves it waiting for nothing.                *)
THEOREM NoGrantForgotten == CallbackUrls = Products => (DeliverySpec => []PendingHasRow)
<1> SUFFICES ASSUME CallbackUrls = Products PROVE DeliverySpec => []PendingHasRow
  OBVIOUS
<1> DEFINE Inv == FailedOK /\ PendingHasRow
<1>1. DeliveryInit => Inv
  BY DEF DeliveryInit, Init, FailedOK, PendingHasRow
<1>2. DeliveryInv /\ Inv /\ [DeliveryNext]_allVars => Inv'
  BY FailedStep, PendingStep
<1>3. Inv => PendingHasRow
  OBVIOUS
<1> HIDE DEF Inv
<1> QED BY <1>1, <1>2, <1>3, DeliveryInvariant, PTL DEF DeliverySpec

-----------------------------------------------------------------------------
(* What the products honour, and the order of the rows.                     *)

(* What the product honours of a grant it accepted or gave up.               *)
Honoured(row) ==
  IF row.kind = "grant_requested" THEN row.product \in held[row.grant]
                                  ELSE row.product \notin held[row.grant]

(* The row being delivered is neither published nor in the batch, it has a    *)
(* URL, and an accepted one has had its effect at the product.               *)
Carries(d) ==
  /\ d.row \notin published \cup batch
  /\ d.row.product \in CallbackUrls
  /\ d.outcome \in Answers \cup {"none", "unsigned"}
  /\ d.outcome = "denied" => d.row.kind = "grant_requested"
  /\ d.stage # "sending" /\ d.outcome = "accepted" => Honoured(d.row)
  /\ d.stage = "failed" => ~Succeeded(d)

Carried ==
  /\ batch \cap published = {}
  /\ \A d \in current : Carries(d)

(* The delivery that a step leaves behind.                                   *)
LEMMA NextStages ==
  ASSUME NEW d \in Delivery, NEW answer
  PROVE  /\ [d EXCEPT !.stage = "answered", !.outcome = answer].row = d.row
         /\ [d EXCEPT !.stage = "answered", !.outcome = answer].stage = "answered"
         /\ [d EXCEPT !.stage = "answered", !.outcome = answer].outcome = answer
         /\ \A stage \in {"settling", "failed"} :
              /\ [d EXCEPT !.stage = stage].row = d.row
              /\ [d EXCEPT !.stage = stage].stage = stage
              /\ [d EXCEPT !.stage = stage].outcome = d.outcome
BY DEF Delivery

LEMMA CarriedStep ==
  ASSUME DeliveryInv, Carried, [DeliveryNext]_allVars
  PROVE  Carried'
<1>1. CASE UNCHANGED <<published, batch, current, held>>
  BY <1>1 DEF Carried, Carries, Honoured
<1>2. CASE Drain
  BY <1>2 DEF Drain, DueRows, queueVars, Carried
<1>3. CASE Crash
  BY <1>3 DEF Crash, Carried
<1>4. ASSUME NEW row \in batch, Skip(row) PROVE Carried'
  BY <1>4 DEF Skip, IsNext, Carried
<1>5. ASSUME NEW row \in batch, Prepare(row) PROVE Carried'
  <2>1. /\ row \notin published /\ batch' = batch \ {row}
        /\ UNCHANGED <<published, held>> /\ row.product \in CallbackUrls
    BY <1>5 DEF Prepare, queueVars, Carried
  <2>2. PICK d : /\ current' = {d}
                 /\ \/ d = Delivering("settling", row, attempts[row.grant] + 1, "unsigned")
                    \/ d = Delivering("sending", row, attempts[row.grant] + 1, "none")
    BY <1>5 DEF Prepare
  <2>3. /\ d.row = row /\ d.outcome \in {"none", "unsigned"}
        /\ d.stage # "failed"
    BY <2>2 DEF Delivering
  <2>4. Carries(d)'
    BY <2>1, <2>3 DEF Carried, Carries
  <2> QED BY <2>1, <2>2, <2>4 DEF Carried
<1>6. ASSUME NEW d \in current PROVE Send(d) => Carried'
  <2> SUFFICES ASSUME Send(d) PROVE Carried'
    OBVIOUS
  <2>1. /\ d \in Delivery /\ d.row \in AccessRow /\ d.row.grant \in Requests
        /\ Carries(d) /\ held \in [Requests -> SUBSET Products]
    BY InProgress DEF Typed, Carried
  <2>2. PICK answer \in Answers :
          /\ answer = "denied" => d.row.kind = "grant_requested"
          /\ current' = {[d EXCEPT !.stage = "answered", !.outcome = answer]}
          /\ \/ answer \in {"accepted", "transient"} /\ held' = Applied(d.row)
             \/ answer # "accepted" /\ UNCHANGED held
    BY DEF Send
  <2>3. UNCHANGED <<published, batch>>
    BY DEF Send, queueVars
  <2>4. answer = "accepted" => Honoured(d.row)'
    BY <2>1, <2>2 DEF Applied, Honoured, AccessRow
  <2> DEFINE e == [d EXCEPT !.stage = "answered", !.outcome = answer]
  <2>5. e.row = d.row /\ e.stage = "answered" /\ e.outcome = answer
    BY <2>1, NextStages
  <2>6. current' = {e}
    BY <2>2
  <2> HIDE DEF e
  <2>7. Carries(e)'
    BY <2>1, <2>2, <2>3, <2>4, <2>5 DEF Carries, Honoured
  <2> QED BY <2>3, <2>6, <2>7 DEF Carried
<1>7. ASSUME NEW d \in current, NEW stage \in {"settling", "failed"},
             UNCHANGED <<published, batch, held>>, current' = {[d EXCEPT !.stage = stage]},
             d.stage # "sending", stage = "failed" => ~Succeeded(d)
      PROVE  Carried'
  <2> DEFINE e == [d EXCEPT !.stage = stage]
  <2>1. d \in Delivery /\ Carries(d)
    BY InProgress DEF Carried
  <2>2. e.row = d.row /\ e.stage = stage /\ e.outcome = d.outcome
    BY <2>1, NextStages
  <2>3. current' = {e}
    BY <1>7
  <2> HIDE DEF e
  <2>4. Carries(e)'
    BY <1>7, <2>1, <2>2 DEF Carries, Honoured, Succeeded
  <2> QED BY <1>7, <2>3, <2>4 DEF Carried
<1>8. ASSUME NEW d \in current, Log(d) \/ FailGrant(d) PROVE Carried'
  BY <1>7, <1>8 DEF Log, FailGrant
<1>9. ASSUME NEW d \in current, Succeed(d) \/ FailRow(d) PROVE Carried'
  BY <1>9 DEF Succeed, FailRow, Carried, Carries
<1>10. ASSUME NEW r \in Requests, RequestBegins(r) \/ RequestEnds(r) PROVE Carried'
  BY <1>1, <1>10, RequestMoves DEF queueVars, drainerVars
<1>11. CASE (\E row \in backedOff : BackoffElapses(row)) \/ UNCHANGED allVars
  BY <1>1, <1>11 DEF BackoffElapses, allVars, deliveryVars, queueVars, drainerVars
<1> QED BY <1>2, <1>3, <1>4, <1>5, <1>6, <1>8, <1>9, <1>10, <1>11
           DEF DeliveryNext, DrainerNext, DeliveryStep

(* A callback grant shown granted is honoured, or a product denied it, or an   *)
(* event that ends it is on its way to a product that is called back.        *)
Denied(g) == \E e \in log : e.row.grant = g /\ e.outcome = "denied"

EndsGrant(row, g) ==
  /\ row \in outbox \ published
  /\ row.grant = g /\ row.kind = "revoke_requested" /\ row.product \in CallbackUrls

GrantedOK ==
  \A g \in CallbackGrants :
    product[g] = "granted" =>
      held[g] # {} \/ Denied(g) \/ \E row \in outbox : EndsGrant(row, g)

LEMMA GrantedStep ==
  ASSUME DeliveryInv, FailedOK, Carried, GrantedOK, [DeliveryNext]_allVars
  PROVE  GrantedOK'
<1> SUFFICES ASSUME NEW g \in Requests, product'[g] = "granted", Callback(call'[g].ticket)
             PROVE  held'[g] # {} \/ Denied(g)' \/ \E row \in outbox' : EndsGrant(row, g)'
  BY DEF GrantedOK, CallbackGrants, Callback, Denied
<1> DEFINE Fine == held'[g] # {} \/ Denied(g)' \/ \E row \in outbox' : EndsGrant(row, g)'
<1>1. /\ Typed /\ product \in [Requests -> ProductStates] /\ outbox \subseteq AccessRow
      /\ held \in [Requests -> SUBSET Products]
  BY DEF DeliveryInv, Typed, TypeInv, TypeOK
<1>0. ASSUME Denied(g) PROVE Denied(g)'
  BY <1>0, Progresses DEF Denied
<1>2. ASSUME product[g] = "granted"
      PROVE  held[g] # {} \/ Denied(g)' \/ \E row \in outbox : EndsGrant(row, g)
  <2>1. call'[g] = call[g]
    BY <1>2, GrantsStay
  <2> QED BY <1>0, <1>2, <2>1 DEF GrantedOK, CallbackGrants, Callback
<1>3. CASE product[g] = "granted" /\ UNCHANGED <<outbox, published, held>>
  BY <1>2, <1>3 DEF EndsGrant
<1>4. ASSUME NEW r \in Requests, RequestBegins(r) \/ RequestEnds(r) PROVE Fine
  <2>1. /\ outbox \subseteq outbox' /\ UNCHANGED <<published, held>> /\ GrantMoved(g, r)
        /\ phase[g] # "idle" => call'[g] = call[g]
    BY <1>4, RequestMoves DEF queueVars
  <2>2. product[g] = "granted"
    BY <2>1 DEF GrantMoved
  <2> QED BY <1>2, <2>1, <2>2 DEF EndsGrant
<1>5. CASE Drain \/ Crash \/ (\E row \in backedOff : BackoffElapses(row)) \/ UNCHANGED allVars
  BY <1>3, <1>5 DEF Drain, Crash, BackoffElapses, allVars, deliveryVars, queueVars, vars,
                    grantVars, rowVars
<1>6. ASSUME NEW row \in batch, Skip(row) PROVE Fine
  BY <1>2, <1>6 DEF Skip, IsNext, vars, grantVars, rowVars, EndsGrant
<1>7. ASSUME NEW row \in batch, Prepare(row) PROVE Fine
  BY <1>3, <1>7 DEF Prepare, queueVars, vars, grantVars, rowVars
<1>8. ASSUME NEW d \in current, Send(d) PROVE Fine
  <2>1. /\ d.row \in outbox /\ d.row \in AccessRow /\ d.row.grant \in Requests /\ Carries(d)
    BY InProgress DEF Carried
  <2>2. UNCHANGED <<outbox, published, product>> /\ (held' = held \/ held' = Applied(d.row))
    BY <1>8 DEF Send, queueVars, vars, grantVars, rowVars
  <2>3. CASE held'[g] = held[g]
    BY <1>2, <2>2, <2>3 DEF EndsGrant
  <2>4. CASE held'[g] # held[g] /\ d.row.kind = "grant_requested"
    BY <1>1, <2>1, <2>2, <2>4 DEF Applied
  <2>5. CASE held'[g] # held[g] /\ d.row.kind = "revoke_requested"
    <3>1. d.row.grant = g
      BY <1>1, <2>1, <2>2, <2>5 DEF Applied
    <3>2. EndsGrant(d.row, g)'
      BY <2>1, <2>2, <2>5, <3>1 DEF EndsGrant, Carries
    <3> QED BY <2>1, <2>2, <3>2
  <2> QED BY <2>1, <2>3, <2>4, <2>5 DEF AccessRow
<1>9. ASSUME NEW d \in current, Log(d) PROVE Fine
  BY <1>3, <1>9 DEF Log, vars, grantVars, rowVars
<1>10. ASSUME NEW d \in current, Succeed(d) PROVE Fine
  <2>1. /\ d.row.grant \in Requests /\ Carries(d) /\ d.row \in AccessRow
    BY InProgress DEF Carried
  <2>2. /\ product' = [product EXCEPT ![d.row.grant] = ConfirmedState(d.row)]
        /\ published' = published \cup {d.row} /\ UNCHANGED <<outbox, held>>
        /\ d.stage = "settling" /\ d.outcome \in {"accepted", "denied"}
    BY <1>10 DEF Succeed, rowVars, Succeeded
  <2>3. CASE d.row.grant = g
    <3>1. d.row.kind = "grant_requested"
      BY <1>1, <2>2, <2>3 DEF ConfirmedState
    <3>2. CASE d.outcome = "accepted"
      BY <2>1, <2>2, <2>3, <3>1, <3>2 DEF Carries, Honoured
    <3>3. CASE d.outcome = "denied"
      <4>1. Logged(d) \in log /\ Logged(d).row = d.row /\ Logged(d).outcome = "denied"
        BY <2>2, <3>3, SuccessAcknowledges DEF Succeeded, Logged
      <4>2. Denied(g)
        BY <2>3, <4>1 DEF Denied
      <4> QED BY <1>0, <4>2
    <3> QED BY <2>2, <3>2, <3>3
  <2>4. CASE d.row.grant # g
    BY <1>1, <1>2, <2>2, <2>4 DEF EndsGrant
  <2> QED BY <2>3, <2>4
<1>11. ASSUME NEW d \in current, FailGrant(d) PROVE Fine
  <2>1. UNCHANGED <<outbox, published, held>>
    BY <1>11 DEF FailGrant, rowVars
  <2>2. product'[g] = product[g] \/ product'[g] = FailedState(d.row)
    BY <1>1, <1>11 DEF FailGrant
  <2> QED BY <1>3, <2>1, <2>2 DEF FailedState
<1>12. ASSUME NEW d \in current, FailRow(d) PROVE Fine
  <2>1. UNCHANGED <<outbox, product, held>> /\ d.stage = "failed"
    BY <1>12 DEF FailRow, vars, grantVars, rowVars
  <2>2. CASE ~Exhausted(d)
    BY <1>3, <1>12, <2>1, <2>2 DEF FailRow
  <2>3. CASE Exhausted(d)
    <3>1. published' = published \cup {d.row}
      BY <1>12, <2>3 DEF FailRow
    <3>2. d.row.kind = "revoke_requested" => product[d.row.grant] = "revoke_failed"
      BY <2>1, <2>3 DEF FailedOK
    <3> QED BY <1>2, <2>1, <3>1, <3>2 DEF EndsGrant
  <2> QED BY <2>2, <2>3
<1> QED BY <1>4, <1>5, <1>6, <1>7, <1>8, <1>9, <1>10, <1>11, <1>12
           DEF DeliveryNext, DrainerNext, DeliveryStep

(* The portal shows as granted what a product honours, or denied in a 200       *)
(* answer, unless the event that ends the grant is already in the outbox:      *)
(* whatever is retried, refused, lost in a crash or sent to another product.   *)
THEOREM GrantedIsHonoured == DeliverySpec => []GrantedMeansHeld
<1> DEFINE Inv == FailedOK /\ Carried /\ GrantedOK
<1>1. DeliveryInit => Inv
  BY DEF DeliveryInit, Init, FailedOK, Carried, GrantedOK, CallbackGrants
<1>2. DeliveryInv /\ Inv /\ [DeliveryNext]_allVars => Inv'
  BY FailedStep, CarriedStep, GrantedStep
<1>3. Inv => GrantedMeansHeld
  BY DEF GrantedOK, GrantedMeansHeld, EndsGrant, Denied
<1> HIDE DEF Inv
<1> QED BY <1>1, <1>2, <1>3, DeliveryInvariant, PTL DEF DeliverySpec

-----------------------------------------------------------------------------
(* The order of delivery.  The rows are taken in the order their transactions *)
(* began.  What can come out of order is a grant event that is Late.         *)

(* Every request that began has its own place on the clock.                  *)
Began ==
  /\ began \in [Requests -> Nat]
  /\ \A r \in Requests : began[r] <= Clock /\ (began[r] = 0 <=> phase[r] = "idle")
  /\ \A r, s \in Requests : r # s /\ began[r] # 0 => began[s] # began[r]

(* A grant is asked for by the request that issues it, and revoked by another. *)
RowOrdered(row) ==
  /\ row.kind = "grant_requested" => row.by = row.grant
  /\ row.kind = "revoke_requested" => row.by # row.grant

(* The event and the revoke of one grant, in the order of the query.         *)
Precedes(row, revoke) ==
  /\ row.grant = revoke.grant
  /\ row.kind = "grant_requested" /\ revoke.kind = "revoke_requested"
  /\ CreatedAt(row) < CreatedAt(revoke)

Taken == {d.row : d \in current}

(* Only a retried event waits, and no other is overtaken by a revoke of a      *)
(* transaction that began later.                                             *)
InOrder ==
  /\ \A row \in backedOff : Retried(row)
  /\ \A row \in outbox \ published, revoke \in outbox :
       Precedes(row, revoke) /\ ~Retried(row) =>
         /\ revoke \notin published \cup Taken
         /\ revoke \in batch => row \in batch \cup Taken

OrderInv ==
  /\ Began
  /\ \A row \in outbox : RowOrdered(row)
  /\ InOrder

LEMMA ClockAdvances ==
  ASSUME IsFiniteSet(Requests), began \in [Requests -> Nat], NEW r \in Requests, began[r] = 0,
         began' = [began EXCEPT ![r] = Clock + 1]
  PROVE  Clock \in Nat /\ Clock' = Clock + 1
<1> DEFINE S == {s \in Requests : began[s] # 0}
<1>1. IsFiniteSet(S) /\ r \notin S
  BY FS_Subset
<1>2. Clock \in Nat
  BY <1>1, FS_CardinalityType DEF Clock
<1>3. {s \in Requests : began'[s] # 0} = S \cup {r}
  BY <1>2
<1>4. Cardinality(S \cup {r}) = Cardinality(S) + 1
  BY <1>1, FS_AddElement
<1> QED BY <1>2, <1>3, <1>4 DEF Clock

(* The requests keep the clock.                                              *)
LEMMA BeganStep ==
  ASSUME IsFiniteSet(Requests), DeliveryInv, Began, [DeliveryNext]_allVars
  PROVE  Began'
<1>1. phase \in [Requests -> {"idle", "open", "done", "failed"}]
  BY DEF DeliveryInv, Typed, TypeInv, TypeOK
<1>2. ASSUME NEW r \in Requests, RequestBegins(r) PROVE Began'
  <2>1. phase[r] = "idle" /\ phase' = [phase EXCEPT ![r] = "open"]
    <3>1. PICK c \in Call : Begin(r, c)
      BY <1>2, BeginWellFormed DEF RequestBegins, DeliveryInv, Typed, TypeInv
    <3> QED BY <3>1 DEF Begin
  <2>2. began' = [began EXCEPT ![r] = Clock + 1] /\ began[r] = 0
    BY <1>2, <2>1 DEF RequestBegins, Began
  <2>3. Clock \in Nat /\ Clock' = Clock + 1
    BY <2>2, ClockAdvances DEF Began
  <2>4. \A s \in Requests : began[s] <= Clock /\ began[s] \in Nat
    BY DEF Began
  <2>5. began' \in [Requests -> Nat]
    BY <2>2, <2>3 DEF Began
  <2>6. ASSUME NEW s \in Requests
        PROVE  began'[s] <= Clock' /\ (began'[s] = 0 <=> phase'[s] = "idle")
    BY <1>1, <2>1, <2>2, <2>3, <2>4 DEF Began
  <2>7. ASSUME NEW q \in Requests, NEW s \in Requests, q # s, began'[q] # 0
        PROVE  began'[s] # began'[q]
    <3>1. began[q] <= Clock /\ began[q] \in Nat /\ began[s] <= Clock /\ began[s] \in Nat
      BY <2>4
    <3>2. CASE q = r
      BY <2>2, <2>3, <2>7, <3>1, <3>2 DEF Began
    <3>3. CASE s = r
      BY <2>2, <2>3, <2>7, <3>1, <3>3 DEF Began
    <3>4. CASE q # r /\ s # r
      BY <2>2, <2>7, <3>4 DEF Began
    <3> QED BY <3>2, <3>3, <3>4
  <2> QED BY <2>5, <2>6, <2>7 DEF Began
<1>3. ASSUME NEW r \in Requests, RequestEnds(r) PROVE Began'
  <2>1. began' = began /\ phase[r] = "open" /\ phase' \in {[phase EXCEPT ![r] = "done"],
                                                         [phase EXCEPT ![r] = "failed"]}
    BY <1>3, CommitMoves DEF RequestEnds, deliveryVars, Rollback, DeliveryInv, Typed
  <2>2. Clock' = Clock
    BY <2>1 DEF Clock
  <2>3. \A s \in Requests : phase'[s] = "idle" <=> phase[s] = "idle"
    BY <1>1, <2>1
  <2> QED BY <2>1, <2>2, <2>3 DEF Began
<1>4. CASE DrainerNext \/ UNCHANGED allVars
  <2>1. UNCHANGED <<began, phase>>
    BY <1>4 DEF DrainerNext, DeliveryStep, Drain, Skip, Prepare, Send, Log, Succeed, FailGrant,
                FailRow, BackoffElapses, Crash, allVars, deliveryVars, vars
  <2> QED BY <2>1 DEF Began, Clock
<1> QED BY <1>2, <1>3, <1>4 DEF DeliveryNext

(* Rows stay, with their place in the order, and what happened to them stays.  *)
LEMMA RowsStay ==
  ASSUME DeliveryInv, Began, [DeliveryNext]_allVars
  PROVE  /\ outbox \subseteq outbox' /\ published \subseteq published'
         /\ \A row \in outbox : /\ row.by \in Requests /\ row.grant \in Requests
                                /\ phase[row.by] = "done" /\ phase[row.grant] = "done"
                                /\ CreatedAt(row)' = CreatedAt(row)
                                /\ CreatedAt(row) \in Nat /\ CreatedAt(row) # 0
         /\ \A row : Retried(row) => Retried(row)'
<1>1. \A row \in outbox : /\ row.by \in Requests /\ row.grant \in Requests
                          /\ phase[row.by] = "done" /\ phase[row.grant] = "done"
  BY DEF DeliveryInv, RowsOK, Typed, TypeInv, TypeOK, AccessRow
<1>2. \A row \in outbox : CreatedAt(row) \in Nat /\ CreatedAt(row) # 0
  BY <1>1 DEF Began, CreatedAt
<1>3. \A row : Retried(row) => Retried(row)'
  BY Progresses DEF Retried
<1>4. ASSUME NEW r \in Requests, RequestBegins(r) \/ RequestEnds(r)
      PROVE  /\ outbox \subseteq outbox' /\ published \subseteq published'
             /\ \A s \in Requests : phase[s] = "done" => began'[s] = began[s]
  <2>1. outbox \subseteq outbox' /\ published' = published
    BY <1>4, RequestMoves DEF queueVars
  <2>2. CASE RequestEnds(r)
    BY <2>1, <2>2 DEF RequestEnds, deliveryVars
  <2>3. CASE RequestBegins(r)
    <3>1. PICK c \in Call : Begin(r, c)
      BY <2>3, BeginWellFormed DEF RequestBegins, DeliveryInv, Typed, TypeInv
    <3>2. phase[r] = "idle" /\ began' = [began EXCEPT ![r] = Clock + 1]
      BY <2>3, <3>1 DEF Begin, RequestBegins
    <3> QED BY <2>1, <3>2 DEF Began
  <2> QED BY <1>4, <2>2, <2>3
<1>5. CASE DrainerNext \/ UNCHANGED allVars
  <2>1. UNCHANGED <<outbox, began>> /\ published \subseteq published'
    BY <1>5 DEF DrainerNext, DeliveryStep, Drain, Skip, Prepare, Send, Log, Succeed, FailGrant,
                FailRow, BackoffElapses, Crash, allVars, deliveryVars, queueVars, vars, rowVars
  <2> QED BY <1>1, <1>2, <1>3, <2>1 DEF CreatedAt
<1>6. CASE \E r \in Requests : RequestBegins(r) \/ RequestEnds(r)
  BY <1>1, <1>2, <1>3, <1>4, <1>6 DEF CreatedAt
<1> QED BY <1>5, <1>6 DEF DeliveryNext

(* What a request adds to the outbox.                                        *)
LEMMA NewRows ==
  ASSUME DeliveryInv, Began, [DeliveryNext]_allVars, NEW new \in outbox' \ outbox
  PROVE  /\ RowOrdered(new)
         /\ UNCHANGED <<published, backedOff, batch, current, held>>
         /\ new.kind = "grant_requested" =>
              product'[new.grant] = "grant_pending" /\ phase[new.grant] # "done"
<1>1. PICK r \in Requests : RequestBegins(r) \/ RequestEnds(r)
  BY DEF DeliveryNext, DrainerNext, DeliveryStep, Drain, Skip, Prepare, Send, Log, Succeed,
         FailGrant, FailRow, BackoffElapses, Crash, allVars, vars, rowVars
<1>2. RowsAdded(r) /\ phase[r] = "open" /\ UNCHANGED <<queueVars, drainerVars, held>>
  BY <1>1, RequestMoves
<1>3. new.by = r /\ (GrantAsked(new, r) \/ RevokeAsked(new))
  BY <1>2 DEF RowsAdded
<1> QED BY <1>2, <1>3 DEF GrantAsked, RevokeAsked, RowOrdered, queueVars, drainerVars

(* A delivery in progress is of a row neither published nor in the batch.    *)
LEMMA TakenRows ==
  ASSUME DeliveryInv, Carried
  PROVE  /\ batch \subseteq outbox /\ published \subseteq outbox /\ Taken \subseteq outbox
         /\ Taken \cap (published \cup batch) = {} /\ batch \cap published = {}
         /\ \A d \in current : Taken = {d.row}
BY InProgress DEF DeliveryInv, Typed, Taken, Carried, Carries

(* The attempt that is over and is to be tried again failed in passing.      *)
LEMMA TriedAgain ==
  ASSUME DeliveryInv, Carried, NEW d \in current, FailRow(d), ~Exhausted(d)
  PROVE  Retried(d.row)
<1>1. d.stage = "failed" /\ Answered(d) /\ ~Succeeded(d)
  BY InProgress DEF FailRow, DeliveryOK, Carried, Carries
<1>2. Logged(d) \in log /\ d.outcome = "transient"
  BY <1>1 DEF Answered, AllAnswers, Exhausted, Succeeded
<1> QED BY <1>2 DEF Retried, Logged

LEMMA OrderStep ==
  ASSUME IsFiniteSet(Requests), DeliveryInv, Carried, OrderInv, [DeliveryNext]_allVars
  PROVE  OrderInv'
<1>1. Began /\ InOrder /\ Began'
  BY BeganStep DEF OrderInv
<1>2. /\ outbox \subseteq outbox' /\ published \subseteq published'
      /\ \A row : Retried(row) => Retried(row)'
      /\ \A row, revoke \in outbox : Precedes(row, revoke)' <=> Precedes(row, revoke)
      /\ \A row \in outbox : CreatedAt(row) \in Nat /\ phase[row.grant] = "done"
  BY <1>1, RowsStay DEF Precedes
<1>3. \A row \in outbox' : RowOrdered(row)
  BY <1>1, NewRows DEF OrderInv
<1>4. /\ batch \subseteq outbox /\ published \subseteq outbox /\ Taken \subseteq outbox
      /\ Taken \cap (published \cup batch) = {} /\ batch \cap published = {}
      /\ \A d \in current : Taken = {d.row}
  BY TakenRows
<1> DEFINE Waiting == \A row \in backedOff' : Retried(row)'
           Places(row, revoke) == /\ revoke \notin published' \cup Taken'
                                  /\ revoke \in batch' => row \in batch' \cup Taken'
           Kept == \A row \in outbox \ published', revoke \in outbox :
                     Precedes(row, revoke) /\ ~Retried(row)' => Places(row, revoke)
<1>5. /\ \A row \in backedOff : Retried(row)'
      /\ \A row \in outbox \ published', revoke \in outbox :
           Precedes(row, revoke) /\ ~Retried(row)' =>
             /\ revoke \notin published \cup Taken
             /\ revoke \in batch => row \in batch \cup Taken
  BY <1>1, <1>2 DEF InOrder
<1>6. ASSUME Waiting, Kept PROVE OrderInv'
  <2>1. ASSUME NEW row \in outbox' \ published', NEW revoke \in outbox',
               Precedes(row, revoke)', ~Retried(row)'
        PROVE  Places(row, revoke)
    <3>1. CASE revoke \notin outbox
      <4>1. UNCHANGED <<published, batch, current>> /\ Taken' = Taken
        BY <1>1, <3>1, NewRows DEF Taken
      <4> QED BY <1>4, <3>1, <4>1
    <3>2. CASE revoke \in outbox /\ row \notin outbox
      BY <1>1, <1>2, <2>1, <3>2, NewRows DEF Precedes
    <3>3. CASE revoke \in outbox /\ row \in outbox
      BY <1>2, <1>6, <2>1, <3>3
    <3> QED BY <3>1, <3>2, <3>3
  <2>2. InOrder'
    BY <1>6, <2>1 DEF InOrder
  <2> QED BY <1>1, <1>3, <2>2 DEF OrderInv, RowOrdered
<1> HIDE DEF Waiting
<1>7. ASSUME backedOff' \subseteq backedOff PROVE Waiting
  BY <1>5, <1>7 DEF Waiting
<1>8. CASE UNCHANGED <<published, batch, current>> /\ backedOff' \subseteq backedOff
  <2>1. Taken' = Taken
    BY <1>8 DEF Taken
  <2> QED BY <1>5, <1>6, <1>7, <1>8, <2>1
<1>9. ASSUME NEW r \in Requests, RequestBegins(r) \/ RequestEnds(r) PROVE OrderInv'
  BY <1>8, <1>9, RequestMoves DEF queueVars, drainerVars
<1>10. ASSUME Drain PROVE OrderInv'
  <2>1. PICK rows \in SUBSET DueRows :
          /\ \A early \in rows, late \in DueRows \ rows : CreatedAt(early) <= CreatedAt(late)
          /\ batch' = rows
    BY <1>10 DEF Drain
  <2>2. UNCHANGED <<published, backedOff, current>> /\ Taken' = Taken
    BY <1>10 DEF Drain, queueVars, Taken
  <2>3. ASSUME NEW row \in outbox \ published, NEW revoke \in rows, Precedes(row, revoke),
               ~Retried(row)'
        PROVE  row \in rows
    <3>1. row \in DueRows /\ revoke \in outbox
      BY <1>5, <2>3 DEF DueRows
    <3>2. CreatedAt(row) \in Nat /\ CreatedAt(revoke) \in Nat
          /\ CreatedAt(row) < CreatedAt(revoke)
      BY <1>2, <2>3, <3>1 DEF Precedes
    <3>3. row \notin rows => CreatedAt(revoke) <= CreatedAt(row)
      BY <2>1, <3>1
    <3> QED BY <3>2, <3>3
  <2>4. Kept
    BY <1>5, <2>1, <2>2, <2>3 DEF DueRows
  <2> QED BY <1>6, <1>7, <2>2, <2>4
<1>11. ASSUME NEW revoke \in batch, IsNext(revoke)
       PROVE  /\ Taken = {}
              /\ \A row \in outbox \ published' :
                   Precedes(row, revoke) => Retried(row)'
  <2>1. Taken = {}
    BY <1>11 DEF IsNext, Taken
  <2>2. ASSUME NEW row \in outbox \ published', Precedes(row, revoke), ~Retried(row)'
        PROVE  FALSE
    <3>1. row \in batch
      BY <1>4, <1>5, <2>1, <2>2
    <3>2. /\ CreatedAt(revoke) <= CreatedAt(row) /\ CreatedAt(row) < CreatedAt(revoke)
          /\ CreatedAt(row) \in Nat /\ CreatedAt(revoke) \in Nat
      BY <1>2, <1>4, <1>11, <2>2, <3>1 DEF IsNext, Precedes
    <3> QED BY <3>2
  <2> QED BY <2>1, <2>2
<1>12. ASSUME NEW next \in batch, Skip(next) PROVE OrderInv'
  <2>1. /\ IsNext(next) /\ batch' = batch \ {next} /\ published' = published \cup {next}
        /\ UNCHANGED <<backedOff, current>> /\ Taken' = Taken
    BY <1>12 DEF Skip, Taken
  <2>2. Kept
    BY <1>4, <1>5, <1>11, <2>1
  <2> QED BY <1>6, <1>7, <2>1, <2>2
<1>13. ASSUME NEW next \in batch, Prepare(next) PROVE OrderInv'
  <2>1. /\ IsNext(next) /\ batch' = batch \ {next} /\ UNCHANGED <<backedOff, published>>
    BY <1>13 DEF Prepare, queueVars
  <2>2. PICK d : /\ current' = {d}
                 /\ \/ d = Delivering("settling", next, attempts[next.grant] + 1, "unsigned")
                    \/ d = Delivering("sending", next, attempts[next.grant] + 1, "none")
    BY <1>13 DEF Prepare
  <2>3. Taken' = {next}
    BY <2>2 DEF Taken, Delivering
  <2>4. Kept
    BY <1>4, <1>5, <1>11, <2>1, <2>3
  <2> QED BY <1>6, <1>7, <2>1, <2>4
<1>14. ASSUME NEW d \in current, Send(d) \/ Log(d) \/ FailGrant(d) PROVE OrderInv'
  <2>1. UNCHANGED <<published, backedOff, batch>>
    BY <1>14 DEF Send, Log, FailGrant, queueVars
  <2>2. d \in Delivery
    BY InProgress
  <2>3. Taken' = {d.row}
    <3>1. \A e : current' = {e} /\ e.row = d.row => Taken' = {d.row}
      BY DEF Taken
    <3>2. CASE Send(d)
      <4>1. PICK answer \in Answers :
              current' = {[d EXCEPT !.stage = "answered", !.outcome = answer]}
        BY <3>2 DEF Send
      <4>2. [d EXCEPT !.stage = "answered", !.outcome = answer].row = d.row
        BY <2>2, NextStages
      <4> QED BY <3>1, <4>1, <4>2
    <3>3. CASE Log(d)
      <4>1. [d EXCEPT !.stage = "settling"].row = d.row
        BY <2>2, NextStages
      <4> QED BY <3>1, <3>3, <4>1 DEF Log
    <3>4. CASE FailGrant(d)
      <4>1. [d EXCEPT !.stage = "failed"].row = d.row
        BY <2>2, NextStages
      <4> QED BY <3>1, <3>4, <4>1 DEF FailGrant
    <3> QED BY <1>14, <3>2, <3>3, <3>4
  <2>4. Kept
    BY <1>4, <1>5, <2>1, <2>3
  <2> QED BY <1>6, <1>7, <2>1, <2>4
<1>15. ASSUME NEW d \in current, Succeed(d) \/ FailRow(d) PROVE OrderInv'
  <2>1. Taken = {d.row} /\ Taken' = {} /\ batch' = batch
    BY <1>4, <1>15 DEF Succeed, FailRow, Taken
  <2>2. CASE published' = published \cup {d.row} /\ backedOff' = backedOff
    <3>1. Kept
      BY <1>4, <1>5, <2>1, <2>2
    <3> QED BY <1>6, <1>7, <2>2, <3>1
  <2>3. CASE FailRow(d) /\ ~Exhausted(d)
    <3>1. Retried(d.row)'
      BY <1>2, <2>3, TriedAgain
    <3>2. backedOff' = backedOff \cup {d.row} /\ published' = published
      BY <2>3 DEF FailRow
    <3>3. Waiting
      BY <1>5, <3>1, <3>2 DEF Waiting
    <3>4. Kept
      BY <1>4, <1>5, <2>1, <3>1, <3>2
    <3> QED BY <1>6, <3>3, <3>4
  <2> QED BY <1>15, <2>2, <2>3 DEF Succeed, FailRow
<1>16. ASSUME Crash PROVE OrderInv'
  <2>1. /\ batch' = {} /\ Taken' = {} /\ UNCHANGED <<published, backedOff>>
    BY <1>16 DEF Crash, Taken, queueVars
  <2>2. Kept
    BY <1>5, <2>1
  <2> QED BY <1>6, <1>7, <2>1, <2>2
<1>17. ASSUME NEW row \in backedOff, BackoffElapses(row) PROVE OrderInv'
  BY <1>8, <1>17 DEF BackoffElapses, drainerVars
<1>18. CASE UNCHANGED allVars
  BY <1>8, <1>18 DEF allVars, deliveryVars, queueVars, drainerVars
<1> QED BY <1>9, <1>10, <1>12, <1>13, <1>14, <1>15, <1>16, <1>17, <1>18
           DEF DeliveryNext, DrainerNext, DeliveryStep

-----------------------------------------------------------------------------
(* What a grant event may still do to a revoked grant.                       *)

(* The event comes after the revoke of its grant, or may do so.              *)
Late(row) ==
  \/ Retried(row)
  \/ \E revoke \in outbox :
       /\ revoke.grant = row.grant /\ revoke.kind = "revoke_requested"
       /\ CreatedAt(revoke) < CreatedAt(row)

(* Once a grant is revoked only a late event is left that would confirm it.    *)
GrantOver ==
  \A g \in Requests : product[g] = "revoked" =>
    \A row \in outbox \ published :
      row.grant = g /\ row.kind = "grant_requested" => Late(row)

FlowInv == DeliveryInv /\ FailedOK /\ Carried /\ OrderInv /\ GrantOver

LEMMA LateOvertakes ==
  ASSUME NEW row \in outbox \ published, row.kind = "grant_requested", Late(row)
  PROVE  Overtaken(row.grant)
BY DEF Late, Overtaken

LEMMA LateStays ==
  ASSUME DeliveryInv, Began, [DeliveryNext]_allVars, NEW row \in outbox, Late(row)
  PROVE  Late(row)'
<1>1. /\ outbox \subseteq outbox'
      /\ \A any \in outbox : CreatedAt(any)' = CreatedAt(any)
      /\ Retried(row) => Retried(row)'
  BY RowsStay
<1> QED BY <1>1 DEF Late

(* What a step may do to a revoked grant, and how a grant is revoked.         *)
LEMMA RevokedMoves ==
  ASSUME FlowInv, [DeliveryNext]_allVars, NEW g \in Requests, product'[g] # product[g]
  PROVE  /\ product[g] = "revoked" => product'[g] = "revoke_failed" \/ Overtaken(g)
         /\ product'[g] = "revoked" =>
              \/ ~Callback(call[g].ticket) /\ call' = call
              \/ \E d \in current :
                   /\ Succeed(d) /\ d.row.grant = g /\ d.row.kind = "revoke_requested"
<1>1. product \in [Requests -> ProductStates]
  BY DEF FlowInv, DeliveryInv, Typed, TypeInv, TypeOK
<1>2. ASSUME NEW d \in current
      PROVE  /\ d.row \in outbox \ published /\ d.row.grant \in Requests
             /\ d.row.kind \in {"grant_requested", "revoke_requested"}
             /\ product[d.row.grant] = "revoked" =>
                  d.row.kind = "revoke_requested" \/ Overtaken(d.row.grant)
  <2>1. /\ d.row \in outbox \ published /\ d.row.grant \in Requests
        /\ d.row.kind \in {"grant_requested", "revoke_requested"}
    BY InProgress DEF FlowInv, Carried, Carries, AccessRow
  <2> QED BY <2>1, LateOvertakes DEF FlowInv, GrantOver
<1>3. ASSUME NEW r \in Requests, RequestBegins(r) \/ RequestEnds(r)
      PROVE  /\ product[g] # "revoked"
             /\ product'[g] = "revoked" => ~Callback(call[g].ticket) /\ call' = call
  <2>1. CommitRequest(r)
    BY <1>3, BeginMoves DEF RequestBegins, RequestEnds, FlowInv, DeliveryInv, Typed
  <2>2. call' = call /\ GrantMoved(g, r) /\ phase[r] = "open"
    BY <2>1, CommitMoves DEF FlowInv, DeliveryInv, Typed
  <2>3. phase[r] = "open" => product[r] = "none"
    BY DEF FlowInv, DeliveryInv, Typed, TypeInv, RequestsOK
  <2> QED BY <2>2, <2>3 DEF GrantMoved, Live
<1>4. ASSUME NEW d \in current, Succeed(d)
      PROVE  d.row.grant = g /\ product'[g] = ConfirmedState(d.row)
  BY <1>1, <1>2, <1>4 DEF Succeed
<1>5. ASSUME NEW d \in current, FailGrant(d)
      PROVE  d.row.grant = g /\ product'[g] = FailedState(d.row)
  BY <1>1, <1>2, <1>5 DEF FailGrant
<1>6. ASSUME NEW d \in current, Succeed(d)
      PROVE  /\ product[g] = "revoked" => Overtaken(g)
             /\ product'[g] = "revoked" => d.row.grant = g /\ d.row.kind = "revoke_requested"
  BY <1>2, <1>4, <1>6 DEF ConfirmedState
<1>7. ASSUME NEW d \in current, FailGrant(d)
      PROVE  /\ product[g] = "revoked" => product'[g] = "revoke_failed" \/ Overtaken(g)
             /\ product'[g] # "revoked"
  BY <1>2, <1>5, <1>7 DEF FailedState
<1>8. CASE Drain \/ Crash \/ (\E row \in backedOff : BackoffElapses(row)) \/ UNCHANGED allVars
  BY <1>8 DEF Drain, Crash, BackoffElapses, allVars, vars, grantVars
<1>9. ASSUME NEW row \in batch, Skip(row) \/ Prepare(row) PROVE FALSE
  BY <1>9 DEF Skip, Prepare, vars, grantVars
<1>10. ASSUME NEW d \in current, Send(d) \/ Log(d) \/ FailRow(d) PROVE FALSE
  BY <1>10 DEF Send, Log, FailRow, vars, grantVars
<1> QED BY <1>3, <1>6, <1>7, <1>8, <1>9, <1>10 DEF DeliveryNext, DrainerNext, DeliveryStep

LEMMA GrantOverStep ==
  ASSUME FlowInv, [DeliveryNext]_allVars
  PROVE  GrantOver'
<1>1. /\ DeliveryInv /\ Carried /\ OrderInv /\ Began /\ RowsOK
  BY DEF FlowInv, OrderInv, DeliveryInv
<1>2. /\ outbox \subseteq outbox' /\ published \subseteq published'
      /\ \A row \in outbox : /\ row.by \in Requests /\ row.grant \in Requests
                             /\ CreatedAt(row) \in Nat /\ CreatedAt(row) # 0
  BY <1>1, RowsStay
<1> SUFFICES ASSUME NEW g \in Requests, product'[g] = "revoked",
                    NEW row \in outbox', row \notin published', row.grant = g,
                    row.kind = "grant_requested"
             PROVE  Late(row)'
  BY DEF GrantOver
<1>3. CASE row \notin outbox
  BY <1>1, <1>3, NewRows
<1>4. CASE row \in outbox /\ product[g] = "revoked"
  BY <1>1, <1>2, <1>4, LateStays DEF FlowInv, GrantOver
<1>5. CASE row \in outbox /\ product[g] # "revoked"
  <2>1. Callback(call[g].ticket)
    BY <1>1, <1>5 DEF RowsOK
  <2>2. PICK d \in current :
          Succeed(d) /\ d.row.grant = g /\ d.row.kind = "revoke_requested"
    BY <1>5, <2>1, RevokedMoves
  <2>3. d.row \in outbox /\ d.row \in Taken
    BY <1>1, InProgress DEF Taken
  <2>4. ~Precedes(row, d.row) \/ Retried(row)
    BY <1>1, <1>2, <1>5, <2>3 DEF OrderInv, InOrder
  <2>5. row.by = g /\ d.row.by # g
    BY <1>1, <1>5, <2>2, <2>3 DEF OrderInv, RowOrdered
  <2>6. CreatedAt(row) # CreatedAt(d.row)
    BY <1>1, <1>2, <1>5, <2>3, <2>5 DEF Began, CreatedAt
  <2>7. CreatedAt(row) \in Nat /\ CreatedAt(d.row) \in Nat
    BY <1>2, <1>5, <2>3
  <2>8. Retried(row) \/ CreatedAt(d.row) < CreatedAt(row)
    BY <2>2, <2>4, <2>6, <2>7 DEF Precedes
  <2>9. Late(row)
    BY <2>2, <2>3, <2>8 DEF Late
  <2> QED BY <1>1, <1>5, <2>9, LateStays
<1> QED BY <1>3, <1>4, <1>5

LEMMA FlowInvInit == DeliveryInit => FlowInv
<1> SUFFICES ASSUME DeliveryInit PROVE FlowInv
  OBVIOUS
<1>1. DeliveryInv
  BY DeliveryInvInit
<1>2. /\ outbox = {} /\ published = {} /\ batch = {} /\ current = {} /\ backedOff = {}
      /\ began = [r \in Requests |-> 0] /\ phase = [r \in Requests |-> "idle"]
      /\ product = [r \in Requests |-> "none"]
  BY DEF DeliveryInit, Init
<1>3. Clock = 0
  <2>1. {r \in Requests : began[r] # 0} = {}
    BY <1>2
  <2> QED BY <2>1, FS_EmptySet DEF Clock
<1>4. Began
  BY <1>2, <1>3 DEF Began
<1> QED BY <1>1, <1>2, <1>4 DEF FlowInv, FailedOK, Carried, OrderInv, InOrder, GrantOver

LEMMA FlowInvStep ==
  ASSUME IsFiniteSet(Requests), FlowInv, [DeliveryNext]_allVars
  PROVE  FlowInv'
<1>1. DeliveryInv' /\ FailedOK' /\ Carried'
  BY DeliveryInvStep, FailedStep, CarriedStep DEF FlowInv
<1>2. OrderInv'
  BY OrderStep DEF FlowInv
<1>3. GrantOver'
  BY GrantOverStep
<1> QED BY <1>1, <1>2, <1>3 DEF FlowInv

LEMMA FlowInvariant == IsFiniteSet(Requests) => (DeliverySpec => []FlowInv)
<1> SUFFICES ASSUME IsFiniteSet(Requests) PROVE DeliverySpec => []FlowInv
  OBVIOUS
<1>1. FlowInv /\ [DeliveryNext]_allVars => FlowInv'
  BY FlowInvStep
<1> QED BY <1>1, FlowInvInit, PTL DEF DeliverySpec

(* However requests overlap, and whatever is retried or lost in a crash, a      *)
(* revoked grant comes back only by a grant event that was retried, or whose   *)
(* transaction began after the revoking one.                                 *)
THEOREM RevokedForGood == IsFiniteSet(Requests) => (DeliverySpec => RevokedStaysRevoked)
<1> SUFFICES ASSUME IsFiniteSet(Requests) PROVE DeliverySpec => RevokedStaysRevoked
  OBVIOUS
<1>1. FlowInv /\ [DeliveryNext]_allVars =>
        [\A g \in Requests :
           product[g] = "revoked" =>
             product'[g] \in {"revoked", "revoke_failed"} \/ Overtaken(g)]_allVars
  BY RevokedMoves
<1> QED BY <1>1, FlowInvariant, PTL DEF DeliverySpec, RevokedStaysRevoked

-----------------------------------------------------------------------------
(* A revoke reaches the product that honours the grant.                      *)

(* A product honours a grant because an event of the grant was filed under it. *)
HeldFiled ==
  \A g \in Requests : \A p \in held[g] :
    p \in CallbackUrls /\ \E row \in outbox : row.grant = g /\ row.product = p

LEMMA HeldFiledStep ==
  ASSUME FlowInv, HeldFiled, [DeliveryNext]_allVars
  PROVE  HeldFiled'
<1>1. /\ DeliveryInv /\ Carried /\ outbox \subseteq outbox'
      /\ held \in [Requests -> SUBSET Products]
  BY RowsStay DEF FlowInv, OrderInv, DeliveryInv, Typed
<1>2. CASE held' = held
  BY <1>1, <1>2 DEF HeldFiled
<1>3. ASSUME NEW d \in current, Send(d), held' = Applied(d.row) PROVE HeldFiled'
  <2>1. /\ d.row \in outbox' /\ d.row.product \in CallbackUrls /\ d.row.grant \in Requests
    BY <1>1, InProgress DEF Carried, Carries
  <2>2. ASSUME NEW g \in Requests, NEW p \in held'[g]
        PROVE  p \in held[g] \/ (g = d.row.grant /\ p = d.row.product)
    BY <1>1, <1>3, <2>1, <2>2 DEF Applied
  <2> QED BY <1>1, <2>1, <2>2 DEF HeldFiled
<1>4. ASSUME NEW d \in current, Send(d) PROVE held' = held \/ held' = Applied(d.row)
  BY <1>4 DEF Send
<1>5. ASSUME ~\E d \in current : Send(d) PROVE held' = held
  BY <1>5 DEF DeliveryNext, DrainerNext, DeliveryStep, Drain, Skip, Prepare, Log, Succeed,
              FailGrant, FailRow, BackoffElapses, Crash, RequestBegins, RequestEnds, allVars,
              deliveryVars
<1> QED BY <1>2, <1>3, <1>4, <1>5

(* How an event of a grant comes to be published.                            *)
LEMMA Publishing ==
  ASSUME FlowInv, [DeliveryNext]_allVars, NEW row \in outbox, row \in published' \ published
  PROVE  \/ row \notin published /\ Skip(row) /\ row.product \notin CallbackUrls
         \/ \E d \in current : d.row = row /\ Succeed(d)
         \/ \E d \in current : d.row = row /\ FailRow(d) /\ Exhausted(d)
<1>1. ASSUME NEW next \in batch, Skip(next)
      PROVE  row = next /\ row.product \notin CallbackUrls
  BY <1>1 DEF Skip
<1>2. ASSUME NEW d \in current, Succeed(d) PROVE d.row = row
  BY <1>2 DEF Succeed
<1>3. ASSUME NEW d \in current, FailRow(d) PROVE d.row = row /\ Exhausted(d)
  BY <1>3 DEF FailRow
<1>4. ASSUME NEW r \in Requests, RequestBegins(r) \/ RequestEnds(r) PROVE FALSE
  BY <1>4, RequestMoves DEF FlowInv, queueVars
<1>5. ASSUME NEW next \in batch, Prepare(next) PROVE FALSE
  BY <1>5 DEF Prepare, queueVars
<1>6. ASSUME NEW d \in current, Send(d) \/ Log(d) \/ FailGrant(d) PROVE FALSE
  BY <1>6 DEF Send, Log, FailGrant, queueVars
<1>7. CASE Drain \/ Crash \/ (\E any \in backedOff : BackoffElapses(any)) \/ UNCHANGED allVars
  BY <1>7 DEF Drain, Crash, BackoffElapses, allVars, deliveryVars, queueVars
<1> QED BY <1>1, <1>2, <1>3, <1>4, <1>5, <1>6, <1>7 DEF DeliveryNext, DrainerNext, DeliveryStep

LEMMA NotHeldStep ==
  ASSUME IsFiniteSet(Requests), FlowInv, HeldFiled, RevokedMeansNotHeld, [DeliveryNext]_allVars
  PROVE  RevokedMeansNotHeld'
<1>1. /\ DeliveryInv /\ Carried /\ GrantOver /\ OrderInv /\ Began /\ FailedOK /\ FlowInv'
      /\ outbox \subseteq outbox' /\ published \subseteq published'
      /\ \A row \in outbox : row.grant \in Requests
      /\ held \in [Requests -> SUBSET Products] /\ product \in [Requests -> ProductStates]
  BY FlowInvStep, RowsStay DEF FlowInv, OrderInv, DeliveryInv, Typed, TypeInv, TypeOK
<1> SUFFICES ASSUME NEW g \in Requests, product'[g] = "revoked", Callback(call'[g].ticket)
             PROVE  held'[g] = {} \/ Misfiled(g)' \/ Overtaken(g)'
  BY DEF RevokedMeansNotHeld, CallbackGrants, Callback, Misfiled, Overtaken, Retried, CreatedAt
<1>2. ASSUME Misfiled(g) PROVE Misfiled(g)'
  BY <1>1, <1>2 DEF Misfiled
<1>3. ASSUME NEW row \in outbox \ published', row.grant = g, row.kind = "grant_requested",
             Late(row)
      PROVE  Overtaken(g)'
  <2>1. Late(row)' /\ row \in outbox' \ published'
    BY <1>1, <1>3, LateStays
  <2> QED BY <1>3, <2>1 DEF Late, Overtaken
<1>4. CASE product[g] # "revoked"
  <2>1. PICK d \in current : Succeed(d) /\ d.row.grant = g /\ d.row.kind = "revoke_requested"
    BY <1>4, RevokedMoves DEF Callback
  <2>2. Carries(d) /\ d.row \in outbox /\ d.stage = "settling" /\ Succeeded(d) /\ held' = held
    BY <1>1, <2>1, InProgress DEF Carried, Succeed
  <2>3. d.row.product \notin held'[g]
    BY <2>1, <2>2 DEF Carries, Succeeded, Honoured
  <2>4. ASSUME NEW p \in held'[g] PROVE Misfiled(g)
    BY <2>1, <2>2, <2>3, <2>4 DEF HeldFiled, Misfiled
  <2> QED BY <1>2, <2>4
<1>5. CASE product[g] = "revoked"
  <2>1. held[g] = {} \/ Misfiled(g) \/ Overtaken(g)
    <3>1. call'[g] = call[g]
      BY <1>1, <1>5, GrantsStay
    <3> QED BY <1>5, <3>1 DEF RevokedMeansNotHeld, CallbackGrants, Callback
  <2>2. CASE held[g] = {}
    <3>1. CASE held'[g] = held[g]
      BY <2>2, <3>1
    <3>2. ASSUME NEW d \in current, Send(d), held' = Applied(d.row), held'[g] # held[g]
          PROVE  Overtaken(g)'
      <4>1. d.row \in outbox \ published /\ d.row.grant \in Requests /\ published' = published
        BY <1>1, <3>2, InProgress DEF Carried, Carries, Send, queueVars
      <4>2. d.row.grant = g /\ d.row.kind = "grant_requested"
        BY <1>1, <2>2, <3>2, <4>1 DEF Applied
      <4>3. Late(d.row)
        BY <1>1, <1>5, <4>1, <4>2 DEF GrantOver
      <4> QED BY <1>3, <4>1, <4>2, <4>3
    <3>3. ASSUME NEW d \in current, Send(d) PROVE held' = held \/ held' = Applied(d.row)
      BY <3>3 DEF Send
    <3>4. ASSUME ~\E d \in current : Send(d) PROVE held' = held
      BY <3>4 DEF DeliveryNext, DrainerNext, DeliveryStep, Drain, Skip, Prepare, Log, Succeed,
                  FailGrant, FailRow, BackoffElapses, Crash, RequestBegins, RequestEnds, allVars,
                  deliveryVars
    <3> QED BY <3>1, <3>2, <3>3, <3>4
  <2>3. CASE Overtaken(g)
    <3>1. PICK row \in outbox \ published :
            row.grant = g /\ row.kind = "grant_requested" /\ Late(row)
      BY <2>3 DEF Overtaken, Late
    <3>2. CASE row \notin published'
      BY <1>3, <3>1, <3>2
    <3>3. CASE Skip(row) /\ row.product \notin CallbackUrls
      <4>1. held' = held
        BY <3>3 DEF Skip
      <4>2. ASSUME NEW p \in held[g] PROVE Misfiled(g)
        BY <3>1, <3>3, <4>2 DEF HeldFiled, Misfiled
      <4> QED BY <1>2, <4>1, <4>2
    <3>4. ASSUME NEW d \in current, d.row = row, Succeed(d) PROVE FALSE
      <4>1. product'[g] = ConfirmedState(row)
        BY <1>1, <3>1, <3>4 DEF Succeed
      <4> QED BY <3>1, <4>1 DEF ConfirmedState
    <3>5. ASSUME NEW d \in current, d.row = row, FailRow(d), Exhausted(d) PROVE FALSE
      BY <1>1, <1>5, <3>1, <3>5 DEF FailRow, FailedOK
    <3> QED BY <3>1, <3>2, <3>3, <3>4, <3>5, Publishing
  <2> QED BY <1>2, <2>1, <2>2, <2>3
<1> QED BY <1>4, <1>5

(* However requests overlap and deliveries are retried, refused or lost in a     *)
(* crash, a grant shown revoked is honoured by no product, unless its events    *)
(* were filed under two products or its grant event still comes after.        *)
THEOREM RevokedIsNotHonoured ==
  IsFiniteSet(Requests) => (DeliverySpec => []RevokedMeansNotHeld)
<1> SUFFICES ASSUME IsFiniteSet(Requests) PROVE DeliverySpec => []RevokedMeansNotHeld
  OBVIOUS
<1> DEFINE Inv == HeldFiled /\ RevokedMeansNotHeld
<1>1. DeliveryInit => Inv
  BY DEF DeliveryInit, HeldFiled, RevokedMeansNotHeld, CallbackGrants
<1>2. FlowInv /\ Inv /\ [DeliveryNext]_allVars => Inv'
  BY HeldFiledStep, NotHeldStep
<1>3. Inv => RevokedMeansNotHeld
  OBVIOUS
<1> HIDE DEF Inv
<1> QED BY <1>1, <1>2, <1>3, FlowInvariant, PTL DEF DeliverySpec

=============================================================================
