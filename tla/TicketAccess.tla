---------------------------- MODULE TicketAccess ----------------------------
(***************************************************************************)
(* Tickets and the just-in-time access grants that hang off them, as the    *)
(* concurrent requests of core-service change them.                         *)
(*                                                                          *)
(* Every request runs in one READ COMMITTED transaction (withScope).  It    *)
(* first reads the ticket without locking it and checks what it may do      *)
(* (the Begin... actions); later it takes the row lock with its UPDATE, and *)
(* all it writes from there on becomes visible when it commits (the         *)
(* Commit... actions).  Between the two any other request may commit.       *)
(*                                                                          *)
(* A grant is named by the request that issued it: one assignment writes at *)
(* most one row per layer.                                                  *)
(***************************************************************************)
EXTENDS TicketStatus, Integers, FiniteSets

CONSTANTS
  Tickets,        \* tickets already raised
  Products,       \* tenants
  Staff,          \* active support users
  Requests,       \* one identifier per request the run may serve
  Client,         \* the product's credential or its end user
  NoOne,          \* null
  Agents,         \* support users whose role is 'agent'
  Supers,         \* support users whose role is 'super_admin'
  Scopes,         \* session scope: the products a support user works
  ScopeHead,      \* the first entry of that list
  TicketProduct,  \* ticket.product_id
  Mechanism,      \* product.access_mechanism
  CallbackUrls,   \* products with an access_callback_url
  Operations,     \* the kinds of request this instance serves
  PoolSize        \* connections, and so transactions, open at one time

AllOperations ==
  {"assign", "admin_status", "client_status", "rate", "comment", "note"}

ASSUME ActorsAssumption ==
  /\ Client \notin Staff
  /\ NoOne \notin Staff
  /\ NoOne \notin Tickets
  /\ Agents \subseteq Staff
  /\ Supers \subseteq Staff \ Agents

ASSUME TenantsAssumption ==
  /\ Scopes \in [Staff -> SUBSET Products]
  /\ ScopeHead \in [Staff -> Products]
  /\ TicketProduct \in [Tickets -> Products]
  /\ Mechanism \in [Products -> {"callback", "preauth", "both"}]
  /\ CallbackUrls \subseteq Products
  /\ Operations \subseteq AllOperations
  /\ PoolSize \in Nat

VARIABLES
  ticket,       \* the ticket rows
  platform,     \* state of the platform-layer grant issued by a request
  product,      \* state of the product-layer grant issued by a request
  preauth,      \* state of the token the product minted for a ticket
  outbox,       \* access.* rows of event_outbox
  ticketEvents, \* ticket.* rows of event_outbox
  audit,        \* audit_event
  phase,        \* where each request stands
  call          \* what each request asks, and the status it read

grantVars == <<platform, product, preauth>>
rowVars   == <<outbox, ticketEvents, audit>>
vars      == <<ticket, grantVars, rowVars, phase, call>>

-----------------------------------------------------------------------------
(* Types.                                                                   *)

TicketRow == [status : Statuses, assignee : Staff \cup {NoOne},
              assigned_at : BOOLEAN, resolved_at : BOOLEAN,
              closed_at : BOOLEAN, responded : BOOLEAN, rated : BOOLEAN]

PlatformStates == {"none", "granted", "revoked"}

ProductStates == {"none", "grant_pending", "granted", "revoke_pending",
                  "revoked", "grant_failed", "revoke_failed"}

Call == [op : AllOperations \cup {"none"},
         ticket : Tickets \cup {NoOne}, caller : Staff \cup {Client, NoOne},
         seen : Statuses, to : Statuses, agent : Staff \cup {NoOne}]

AccessRow == [kind : {"grant_requested", "revoke_requested"},
              grant : Requests, by : Requests, product : Products]

EventRow == [event : {"assigned", "in_progress", "waiting_on_raiser",
                      "resolved", "closed", "reopened", "rated",
                      "comment_added"},
             by : Requests, product : Products]

AuditRow == [action : {"ticket.assigned", "ticket.status_changed",
                       "ticket.rated", "ticket.comment_added",
                       "ticket.internal_note_added", "access.granted",
                       "access.revoked"},
             by : Requests, product : Products]

(* Every variable holds a value of its type.                                *)
TypeOK ==
  /\ ticket \in [Tickets -> TicketRow]
  /\ platform \in [Requests -> PlatformStates]
  /\ product \in [Requests -> ProductStates]
  /\ preauth \in [Tickets -> {"none", "inert", "active", "revoked"}]
  /\ outbox \subseteq AccessRow
  /\ ticketEvents \subseteq EventRow
  /\ audit \subseteq AuditRow
  /\ phase \in [Requests -> {"idle", "open", "done", "failed"}]
  /\ call \in [Requests -> Call]

NoCall == [op |-> "none", ticket |-> NoOne, caller |-> NoOne,
           seen |-> "open", to |-> "open", agent |-> NoOne]

NewTicket == [status |-> "open", assignee |-> NoOne, assigned_at |-> FALSE,
              resolved_at |-> FALSE, closed_at |-> FALSE,
              responded |-> FALSE, rated |-> FALSE]

(* Tickets as POST /v1/tickets leaves them; the token is the product's own,  *)
(* minted at raise time or not at all.                                      *)
Init ==
  /\ ticket = [t \in Tickets |-> NewTicket]
  /\ platform = [r \in Requests |-> "none"]
  /\ product = [r \in Requests |-> "none"]
  /\ preauth \in [Tickets -> {"none", "inert"}]
  /\ outbox = {}
  /\ ticketEvents = {}
  /\ audit = {}
  /\ phase = [r \in Requests |-> "idle"]
  /\ call = [r \in Requests |-> NoCall]

-----------------------------------------------------------------------------
(* Reading: the request opens its transaction, reads the ticket and checks. *)
(* A check that fails throws, the transaction rolls back and nothing has    *)
(* happened, so the checks are guards.                                      *)

InFlight == {r \in Requests : phase[r] = "open"}

Begin(r, c) ==
  /\ phase[r] = "idle"
  /\ c.op \in Operations
  /\ Cardinality(InFlight) < PoolSize
  /\ phase' = [phase EXCEPT ![r] = "open"]
  /\ call' = [call EXCEPT ![r] = c]
  /\ UNCHANGED <<ticket, grantVars, rowVars>>

Asking(op, t, u, to, a) ==
  [op |-> op, ticket |-> t, caller |-> u, seen |-> ticket[t].status,
   to |-> to, agent |-> a]

(* Row-level security lets a support user write the rows of the products in  *)
(* the session's scope and no others, a super_admin included.               *)
InScope(u, t) == TicketProduct[t] \in Scopes[u]

(* The assignee must be scoped to the ticket's tenant.                      *)
Eligible(a, t) == a \in Supers \/ InScope(a, t)

(* POST /admin/api/tickets/:id/assign, up to its first write.               *)
BeginAssign(r) ==
  \E t \in Tickets, u \in Staff, a \in Staff :
    /\ InScope(u, t)
    /\ u \in Agents => a = u
    /\ Eligible(a, t)
    /\ ticket[t].status # "assigned" => CanTransition(ticket[t].status, "assigned")
    /\ Begin(r, Asking("assign", t, u, "assigned", a))

(* PATCH /admin/api/tickets/:id/status, up to its first write.              *)
BeginAdminStatus(r) ==
  \E t \in Tickets, u \in Staff, to \in Statuses :
    /\ InScope(u, t)
    /\ CanTransition(ticket[t].status, to)
    /\ Begin(r, Asking("admin_status", t, u, to, NoOne))

(* PATCH /v1/tickets/:id/status, up to its first write.                     *)
BeginClientStatus(r) ==
  \E t \in Tickets, to \in PRODUCT_SETTABLE_STATUSES :
    /\ CanTransition(ticket[t].status, to)
    /\ Begin(r, Asking("client_status", t, Client, to, NoOne))

(* POST /v1/tickets/:id/rating, up to its first write.                      *)
BeginRate(r) ==
  \E t \in Tickets :
    /\ ticket[t].status \in {"resolved", "closed"}
    /\ Begin(r, Asking("rate", t, Client, ticket[t].status, NoOne))

(* The two comment endpoints; a note is an internal comment, which only the  *)
(* admin endpoint writes.                                                   *)
BeginComment(r) ==
  \E t \in Tickets, u \in Staff \cup {Client}, op \in {"comment", "note"} :
    /\ u \in Staff => InScope(u, t)
    /\ op = "note" => u \in Staff
    /\ Begin(r, Asking(op, t, u, ticket[t].status, NoOne))

BeginRequest(r) ==
  \/ BeginAssign(r)
  \/ BeginAdminStatus(r)
  \/ BeginClientStatus(r)
  \/ BeginRate(r)
  \/ BeginComment(r)

-----------------------------------------------------------------------------
(* Writing.                                                                 *)

(* ctx.productScope[0]: the tenant the request's rows are filed under.       *)
FiledUnder(r) ==
  IF call[r].caller = Client THEN TicketProduct[call[r].ticket]
                             ELSE ScopeHead[call[r].caller]

GrantsOf(t) == {g \in Requests : call[g].ticket = t}

(* The grants that revokeGrants(t) finds to revoke, layer by layer.         *)
LivePlatform(t) == {g \in GrantsOf(t) : platform[g] = "granted"}

LiveProduct(t) ==
  {g \in GrantsOf(t) : product[g] \in {"granted", "grant_pending", "grant_failed"}}

(* issueGrants maps 'both' to 'callback'.                                   *)
Callback(t) == Mechanism[TicketProduct[t]] \in {"callback", "both"}

RevokeState(t) == IF Callback(t) THEN "revoke_pending" ELSE "revoked"

(* A variant of PlatformRevoked that leaves the platform layer alone.       *)
PlatformKept(t) == platform

PlatformRevoked(t) ==
  [g \in Requests |-> IF g \in LivePlatform(t) THEN "revoked" ELSE platform[g]]

ProductRevoked(t) ==
  [g \in Requests |-> IF g \in LiveProduct(t) THEN RevokeState(t) ELSE product[g]]

(* A variant of TokenRevoked that leaves an active token active.            *)
TokenKept(t) == preauth[t]

TokenRevoked(t) == IF preauth[t] = "active" THEN "revoked" ELSE preauth[t]

AccessEvent(kind, g, r) ==
  [kind |-> kind, grant |-> g, by |-> r, product |-> FiledUnder(r)]

(* A variant of RevokeRows that tells the product only of confirmed grants. *)
RevokeRowsForGranted(r, t) ==
  IF Callback(t)
  THEN {AccessEvent("revoke_requested", g, r) :
          g \in {h \in LiveProduct(t) : product[h] = "granted"}}
  ELSE {}

(* One access.revoke_requested per callback grant being revoked.            *)
RevokeRows(r, t) ==
  IF Callback(t)
  THEN {AccessEvent("revoke_requested", g, r) : g \in LiveProduct(t)}
  ELSE {}

TicketEvent(event, r) == [event |-> event, by |-> r, product |-> FiledUnder(r)]

Audited(action, r) == [action |-> action, by |-> r, product |-> FiledUnder(r)]

(* access.revoked is written when something was revoked.                    *)
RevokeAudit(r, t) ==
  IF LivePlatform(t) \cup LiveProduct(t) # {}
  THEN {Audited("access.revoked", r)} ELSE {}

(* issueGrants names the tenant itself.                                     *)
GrantAudit(r, t) ==
  [action |-> "access.granted", by |-> r, product |-> TicketProduct[t]]

Committing(r, op) ==
  /\ phase[r] = "open"
  /\ call[r].op = op
  /\ phase' = [phase EXCEPT ![r] = "done"]
  /\ UNCHANGED call

(* The product layer of issueGrants: a pending callback grant and its event, *)
(* or an inert token bound to the assignee, or nothing.                     *)
CallbackIssued(t) == Callback(t) /\ TicketProduct[t] \in CallbackUrls

TokenBound(t) == ~Callback(t) /\ preauth[t] = "inert"

IssuedState(r, t) ==
  IF CallbackIssued(t) THEN "grant_pending"
  ELSE IF TokenBound(t) THEN "granted" ELSE product[r]

(* The rest of the assign handler: the ticket, then issueGrants, which first *)
(* revokes silently whatever the ticket still carries.                      *)
CommitAssign(r) ==
  LET t == call[r].ticket IN
    /\ Committing(r, "assign")
    /\ ticket' = [ticket EXCEPT ![t] = [@ EXCEPT !.status = "assigned",
                                                 !.assignee = call[r].agent,
                                                 !.assigned_at = TRUE]]
    /\ platform' = [PlatformRevoked(t) EXCEPT ![r] = "granted"]
    /\ product' = [ProductRevoked(t) EXCEPT ![r] = IssuedState(r, t)]
    /\ preauth' = [preauth EXCEPT ![t] = IF TokenBound(t) THEN "active"
                                                          ELSE TokenRevoked(t)]
    /\ outbox' = outbox \cup RevokeRows(r, t)
                   \cup (IF CallbackIssued(t)
                         THEN {AccessEvent("grant_requested", r, r)} ELSE {})
    /\ ticketEvents' = ticketEvents \cup {TicketEvent("assigned", r)}
    /\ audit' = audit \cup {GrantAudit(r, t), Audited("ticket.assigned", r)}

StatusWritten(r, t) ==
  ticket' = [ticket EXCEPT ![t] = [Stamped(@, call[r].to) EXCEPT !.status = call[r].to]]

(* The rest of the admin status handler: resolving and closing revoke.      *)
CommitAdminStatus(r) ==
  LET t == call[r].ticket
      revoke == Revokes(call[r].to)
  IN
    /\ Committing(r, "admin_status")
    /\ StatusWritten(r, t)
    /\ platform' = IF revoke THEN PlatformRevoked(t) ELSE platform
    /\ product' = IF revoke THEN ProductRevoked(t) ELSE product
    /\ preauth' = IF revoke THEN [preauth EXCEPT ![t] = TokenRevoked(t)] ELSE preauth
    /\ outbox' = IF revoke THEN outbox \cup RevokeRows(r, t) ELSE outbox
    /\ ticketEvents' = ticketEvents \cup {TicketEvent(EventFor(call[r].to), r)}
    /\ audit' = audit \cup {Audited("ticket.status_changed", r)}
                  \cup (IF revoke THEN RevokeAudit(r, t) ELSE {})

(* The rest of the client status handler, which asks for no access change.  *)
CommitClientStatus(r) ==
  /\ Committing(r, "client_status")
  /\ StatusWritten(r, call[r].ticket)
  /\ ticketEvents' = ticketEvents \cup {TicketEvent(EventFor(call[r].to), r)}
  /\ audit' = audit \cup {Audited("ticket.status_changed", r)}
  /\ UNCHANGED <<grantVars, outbox>>

CommitRate(r) ==
  /\ Committing(r, "rate")
  /\ ticket' = [ticket EXCEPT ![call[r].ticket].rated = TRUE]
  /\ ticketEvents' = ticketEvents \cup {TicketEvent("rated", r)}
  /\ audit' = audit \cup {Audited("ticket.rated", r)}
  /\ UNCHANGED <<grantVars, outbox>>

(* A public comment; the first by support staff is the first response.      *)
CommitComment(r) ==
  LET t == call[r].ticket IN
    /\ Committing(r, "comment")
    /\ ticket' = [ticket EXCEPT ![t].responded = @ \/ call[r].caller \in Staff]
    /\ ticketEvents' = ticketEvents \cup {TicketEvent("comment_added", r)}
    /\ audit' = audit \cup {Audited("ticket.comment_added", r)}
    /\ UNCHANGED <<grantVars, outbox>>

HoldsGrant(u, t) == \E g \in LivePlatform(t) : call[g].agent = u

(* An internal note: INSERT ... RETURNING must also pass the read policy of  *)
(* the comment table, which asks an agent for an active platform grant.     *)
CommitNote(r) ==
  LET t == call[r].ticket IN
    /\ call[r].caller \in Agents => HoldsGrant(call[r].caller, t)
    /\ Committing(r, "note")
    /\ audit' = audit \cup {Audited("ticket.internal_note_added", r)}
    /\ UNCHANGED <<ticket, grantVars, outbox, ticketEvents>>

CommitRequest(r) ==
  \/ CommitAssign(r)
  \/ CommitAdminStatus(r)
  \/ CommitClientStatus(r)
  \/ CommitRate(r)
  \/ CommitComment(r)
  \/ CommitNote(r)

(* An error, a lost connection or a crash before COMMIT: nothing remains.   *)
Rollback(r) ==
  /\ phase[r] = "open"
  /\ phase' = [phase EXCEPT ![r] = "failed"]
  /\ UNCHANGED <<ticket, grantVars, rowVars, call>>

(* What the drainer writes on the grant of an outbox row it delivers, when   *)
(* the product takes the event and when it gives the event up.              *)
ConfirmedState(row) ==
  IF row.kind = "grant_requested" THEN "granted" ELSE "revoked"

FailedState(row) ==
  IF row.kind = "grant_requested" THEN "grant_failed" ELSE "revoke_failed"

(* The drainer, the one other writer of these tables: it writes over any state *)
(* the grant has by then, at any time after the row committed.  When it does, *)
(* AccessDelivery says; here it may, for any row and any number of times.     *)
DrainerWrites(row) ==
  /\ \E state \in {ConfirmedState(row), FailedState(row)} :
       product' = [product EXCEPT ![row.grant] = state]
  /\ UNCHANGED <<ticket, platform, preauth, rowVars, phase, call>>

Next ==
  \/ \E r \in Requests : BeginRequest(r) \/ CommitRequest(r) \/ Rollback(r)
  \/ \E row \in outbox : DrainerWrites(row)

Spec == Init /\ [][Next]_vars

-----------------------------------------------------------------------------
(* Properties.                                                              *)

(* A ticket has at most one active platform grant, and it is the assignee's: *)
(* issueGrants revokes before it inserts, so reassigning or reopening never *)
(* stacks grants, however requests interleave.                              *)
SingleHolder ==
  \A t \in Tickets : \A g \in LivePlatform(t) :
    /\ LivePlatform(t) = {g}
    /\ call[g].agent = ticket[t].assignee

(* The product was asked, by a committed row, to revoke the grant.          *)
RevokeOnRecord(g) ==
  \E row \in outbox : row.kind = "revoke_requested" /\ row.grant = g

(* A resolved ticket carries no live platform grant and no active token, and  *)
(* the revoke of every product grant still shown live is on record: whatever *)
(* stale request commits around the resolve, only an answer the drainer      *)
(* writes late, over the revoke, can show access on a resolved ticket.       *)
ResolvedMeansRevoked ==
  \A t \in Tickets :
    ticket[t].status = "resolved" =>
      /\ LivePlatform(t) = {}
      /\ preauth[t] # "active"
      /\ \A g \in LiveProduct(t) : RevokeOnRecord(g)

(* The two layers end together: a product grant shown live has its platform  *)
(* twin active, unless its revoke is on record and a late answer of the      *)
(* drainer was written over it; the token of a pre-authorised ticket is      *)
(* active exactly as long as the ticket has a live product grant.            *)
LayersAgree ==
  \A t \in Tickets :
    /\ \A g \in LiveProduct(t) : platform[g] = "granted" \/ RevokeOnRecord(g)
    /\ preauth[t] = "active" => LiveProduct(t) # {}
    /\ ~Callback(t) /\ LiveProduct(t) # {} => preauth[t] = "active"

(* No revoke is lost: a grant waiting to be revoked at the product has an    *)
(* access.revoke_requested row committed with it.                           *)
RevokeHasEvent ==
  \A g \in Requests :
    product[g] = "revoke_pending" => RevokeOnRecord(g)

(* The dates of a ticket fit its status: an open ticket has neither a        *)
(* resolved nor a closed date, a resolved or closed one has its own.        *)
StampsMatchStatus ==
  \A t \in Tickets :
    /\ ticket[t].status = "open" => ~ticket[t].resolved_at /\ ~ticket[t].closed_at
    /\ ticket[t].status = "resolved" => ticket[t].resolved_at
    /\ ticket[t].status = "closed" => ticket[t].closed_at

(* A closed ticket carries an active platform grant only if a client closed    *)
(* it: the status handler of the portal re-asserts the revoke, that of the     *)
(* client asks for no access change.                                        *)
ClosedAccessForCause ==
  \A t \in Tickets :
    (ticket[t].status = "closed" /\ LivePlatform(t) # {}) =>
      \E r \in Requests :
        /\ phase[r] = "done"
        /\ call[r].ticket = t /\ call[r].op = "client_status" /\ call[r].to = "closed"

(* The status of a ticket leaves the transition table only by a request that   *)
(* was overtaken: another one has changed the status it read and judged (a     *)
(* reassignment of an assigned ticket does not move it).                    *)
LegalUnlessOvertaken ==
  [][\A r \in Requests, t \in Tickets :
       /\ phase[r] = "open" /\ phase'[r] = "done"
       /\ ticket'[t].status # ticket[t].status
       /\ <<ticket[t].status, ticket'[t].status>> \notin TRANSITIONS
       => call[r].seen # ticket[t].status]_vars

(* The implementation seen as the promise of PlatformAccess.                *)
HolderOf(t) ==
  IF LivePlatform(t) = {} THEN NoOne
  ELSE call[CHOOSE g \in LivePlatform(t) : TRUE].agent

Promise == INSTANCE PlatformAccess WITH
  MayHold  <- [t \in Tickets |-> {u \in Staff : Eligible(u, t)}],
  holder   <- [t \in Tickets |-> HolderOf(t)],
  resolved <- [t \in Tickets |-> ticket[t].status = "resolved"]

(* The grants implement the promise: access to a payload changes hands only  *)
(* by assignment to an eligible user, and ends by resolving or closing.     *)
PromiseKept == Promise!AccessSpec
=============================================================================
