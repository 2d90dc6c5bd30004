--------------------------- MODULE AccessDelivery ---------------------------
(***************************************************************************)
(* The outbox drainer of core-service (events/publisher.ts) beside the       *)
(* requests of TicketAccess, and the products it calls back.                *)
(*                                                                          *)
(* One drainer runs at a time: a poll tick that finds one running returns.  *)
(* It takes a batch of due rows in created_at order and delivers them one   *)
(* after the other.  Each statement of a delivery is a transaction of its   *)
(* own, so requests commit between them, and the process may stop between   *)
(* them: what it held in memory is then lost and the row, still             *)
(* unpublished, is delivered again.                                         *)
(***************************************************************************)
EXTENDS TicketAccess

CONSTANTS
  Answers,       \* how a callback may end
  Unsigned,      \* products without a usable signing secret
  MaxAttempts,   \* BACKOFF_SECONDS.length
  BatchLimit,    \* LIMIT of the drain query
  MaxCrashes     \* bound on the times the process stops

AllAnswers == {"accepted", "denied", "client_error", "transient"}

ASSUME DeliveryAssumption ==
  /\ Answers \subseteq AllAnswers
  /\ Unsigned \subseteq Products
  /\ MaxAttempts \in Nat \ {0}
  /\ BatchLimit \in Nat \ {0}
  /\ MaxCrashes \in Nat

VARIABLES
  began,         \* when each request's transaction began: its rows' created_at
  published,     \* rows whose published_at is set
  backedOff,     \* rows whose next_attempt_at lies ahead
  attempts,      \* access_grant.attempt_count
  log,           \* delivery_log
  batch,         \* rows the running drain still has to deliver
  current,       \* the delivery in progress: none or one
  held,          \* external: the products that honour a grant
  crashes

queueVars   == <<published, backedOff, attempts, log>>
drainerVars == <<batch, current>>
deliveryVars == <<began, queueVars, drainerVars, held, crashes>>
allVars     == <<vars, deliveryVars>>

Outcomes == AllAnswers \cup {"none", "unsigned"}

Delivery == [stage : {"sending", "answered", "settling", "failed"},
             row : AccessRow, attempt : Nat, outcome : Outcomes]

LogRow == [row : AccessRow, attempt : Nat, outcome : Outcomes]

(* Every variable of the drainer holds a value of its type, and one delivery *)
(* at most is in progress.                                                  *)
DeliveryTypeOK ==
  /\ TypeOK
  /\ began \in [Requests -> Nat]
  /\ published \subseteq outbox
  /\ backedOff \subseteq outbox
  /\ attempts \in [Requests -> Nat]
  /\ log \subseteq LogRow
  /\ batch \subseteq outbox
  /\ current \subseteq Delivery
  /\ \A d, e \in current : d = e
  /\ held \in [Requests -> SUBSET Products]
  /\ crashes \in Nat

DeliveryInit ==
  /\ Init
  /\ began = [r \in Requests |-> 0]
  /\ published = {}
  /\ backedOff = {}
  /\ attempts = [r \in Requests |-> 0]
  /\ log = {}
  /\ batch = {}
  /\ current = {}
  /\ held = [r \in Requests |-> {}]
  /\ crashes = 0

-----------------------------------------------------------------------------
(* Requests.  created_at defaults to now(), the start of the transaction,   *)
(* not its commit.                                                          *)

Clock == Cardinality({r \in Requests : began[r] # 0})

RequestBegins(r) ==
  /\ BeginRequest(r)
  /\ began' = [began EXCEPT ![r] = Clock + 1]
  /\ UNCHANGED <<queueVars, drainerVars, held, crashes>>

RequestEnds(r) ==
  /\ CommitRequest(r) \/ Rollback(r)
  /\ UNCHANGED deliveryVars

-----------------------------------------------------------------------------
(* The drainer.                                                             *)

(* A variant of CreatedAt: the query without its ORDER BY.                  *)
CreatedAtIgnored(row) == 0

CreatedAt(row) == began[row.by]

DueRows == outbox \ (published \cup backedOff)

(* The query of drain(): the earliest due rows, at most BatchLimit of them; *)
(* rows of one transaction have one created_at and come in any order.       *)
Drain ==
  /\ batch = {} /\ current = {}
  /\ \E rows \in SUBSET DueRows :
       /\ rows # {}
       /\ Cardinality(rows) <= BatchLimit
       /\ rows # DueRows => Cardinality(rows) = BatchLimit
       /\ \A early \in rows, late \in DueRows \ rows :
            CreatedAt(early) <= CreatedAt(late)
       /\ batch' = rows
  /\ UNCHANGED <<vars, began, queueVars, current, held, crashes>>

(* The next row of the batch.                                               *)
IsNext(row) ==
  /\ current = {}
  /\ row \in batch
  /\ \A other \in batch : CreatedAt(row) <= CreatedAt(other)

Delivering(stage, row, attempt, outcome) ==
  [stage |-> stage, row |-> row, attempt |-> attempt, outcome |-> outcome]

(* No callback URL under the row's product: the row is marked published and *)
(* that is all.                                                             *)
Skip(row) ==
  /\ IsNext(row)
  /\ row.product \notin CallbackUrls
  /\ batch' = batch \ {row}
  /\ published' = published \cup {row}
  /\ UNCHANGED <<vars, began, backedOff, attempts, log, current, held, crashes>>

(* The grant's attempt_count is read and the callback signed, if it can be. *)
Prepare(row) ==
  /\ IsNext(row)
  /\ row.product \in CallbackUrls
  /\ batch' = batch \ {row}
  /\ LET attempt == attempts[row.grant] + 1 IN
       current' = IF row.product \in Unsigned
                  THEN {Delivering("settling", row, attempt, "unsigned")}
                  ELSE {Delivering("sending", row, attempt, "none")}
  /\ UNCHANGED <<vars, began, queueVars, held, crashes>>

(* External: what the called product does with the event.                   *)
Applied(row) ==
  [held EXCEPT ![row.grant] = IF row.kind = "grant_requested"
                              THEN @ \cup {row.product} ELSE @ \ {row.product}]

(* The POST.  The product honours an accepted event; it may answer 200 to a *)
(* grant it denies, refuse with a 4xx, or fail in a way that leaves open    *)
(* whether it honoured the event (5xx, network error, timeout).             *)
Send(d) ==
  /\ d.stage = "sending"
  /\ \E answer \in Answers :
       /\ answer = "denied" => d.row.kind = "grant_requested"
       /\ current' = {[d EXCEPT !.stage = "answered", !.outcome = answer]}
       /\ \/ answer \in {"accepted", "transient"} /\ held' = Applied(d.row)
          \/ answer # "accepted" /\ UNCHANGED held
  /\ UNCHANGED <<vars, began, queueVars, batch, crashes>>

(* The attempt is written to delivery_log.                                  *)
Log(d) ==
  /\ d.stage = "answered"
  /\ log' = log \cup {[row |-> d.row, attempt |-> d.attempt, outcome |-> d.outcome]}
  /\ current' = {[d EXCEPT !.stage = "settling"]}
  /\ UNCHANGED <<vars, began, published, backedOff, attempts, batch, held, crashes>>

(* A variant of Succeeded that takes any answer for a success.              *)
SucceededIfAnswered(d) == d.outcome # "unsigned"

(* Any 2xx is a success, whatever the body says.                            *)
Succeeded(d) == d.outcome \in {"accepted", "denied"}

(* succeed(): the grant row, whatever its state, and published_at together. *)
Succeed(d) ==
  /\ d.stage = "settling"
  /\ Succeeded(d)
  /\ product' = [product EXCEPT ![d.row.grant] = ConfirmedState(d.row)]
  /\ attempts' = [attempts EXCEPT ![d.row.grant] = d.attempt]
  /\ published' = published \cup {d.row}
  /\ current' = {}
  /\ UNCHANGED <<ticket, platform, preauth, rowVars, phase, call,
                 began, backedOff, log, batch, held, crashes>>

(* A variant of Exhausted that gives up one attempt early.                  *)
ExhaustedEarly(d) ==
  d.outcome \in {"client_error", "unsigned"} \/ d.attempt + 1 >= MaxAttempts

(* A client error or a missing secret fails fast; anything else is retried. *)
Exhausted(d) ==
  d.outcome \in {"client_error", "unsigned"} \/ d.attempt >= MaxAttempts

(* A variant of FailGrant that does not count the attempt.                  *)
FailGrantUncounted(d) ==
  /\ d.stage = "settling"
  /\ ~Succeeded(d)
  /\ product' = IF Exhausted(d)
                THEN [product EXCEPT ![d.row.grant] = FailedState(d.row)]
                ELSE product
  /\ current' = {[d EXCEPT !.stage = "failed"]}
  /\ UNCHANGED <<ticket, platform, preauth, rowVars, phase, call,
                 began, queueVars, batch, held, crashes>>

(* failAttempt(), its first transaction: the grant row.                     *)
FailGrant(d) ==
  /\ d.stage = "settling"
  /\ ~Succeeded(d)
  /\ attempts' = [attempts EXCEPT ![d.row.grant] = d.attempt]
  /\ product' = IF Exhausted(d)
                THEN [product EXCEPT ![d.row.grant] = FailedState(d.row)]
                ELSE product
  /\ current' = {[d EXCEPT !.stage = "failed"]}
  /\ UNCHANGED <<ticket, platform, preauth, rowVars, phase, call,
                 began, published, backedOff, log, batch, held, crashes>>

(* failAttempt(), its second transaction: dead-letter the row or back off.  *)
FailRow(d) ==
  /\ d.stage = "failed"
  /\ IF Exhausted(d)
     THEN published' = published \cup {d.row} /\ UNCHANGED backedOff
     ELSE backedOff' = backedOff \cup {d.row} /\ UNCHANGED published
  /\ current' = {}
  /\ UNCHANGED <<vars, began, attempts, log, batch, held, crashes>>

(* next_attempt_at passes.                                                  *)
BackoffElapses(row) ==
  /\ row \in backedOff
  /\ backedOff' = backedOff \ {row}
  /\ UNCHANGED <<vars, began, published, attempts, log, drainerVars, held, crashes>>

(* The process stops and is started again, or a statement throws: batch and  *)
(* delivery are gone.                                                       *)
Crash ==
  /\ crashes < MaxCrashes
  /\ batch # {} \/ current # {}
  /\ batch' = {}
  /\ current' = {}
  /\ crashes' = crashes + 1
  /\ UNCHANGED <<vars, began, queueVars, held>>

DeliveryStep ==
  \/ \E row \in batch : Skip(row) \/ Prepare(row)
  \/ \E d \in current : Send(d) \/ Log(d) \/ Succeed(d) \/ FailGrant(d) \/ FailRow(d)

DrainerNext ==
  \/ Drain
  \/ DeliveryStep
  \/ \E row \in backedOff : BackoffElapses(row)
  \/ Crash

DeliveryNext ==
  \/ \E r \in Requests : RequestBegins(r) \/ RequestEnds(r)
  \/ DrainerNext

DeliverySpec == DeliveryInit /\ [][DeliveryNext]_allVars

(* setInterval polls every second and every await returns within its        *)
(* timeout, so the drainer keeps moving; back-off times pass.  Requests are *)
(* under no obligation, and the process stops at most MaxCrashes times.     *)
FairDeliverySpec ==
  /\ DeliverySpec
  /\ WF_allVars(Drain)
  /\ WF_allVars(DeliveryStep)
  /\ WF_allVars(\E row \in backedOff : BackoffElapses(row))

-----------------------------------------------------------------------------
(* Properties.                                                              *)

CallbackGrants ==
  {g \in Requests : product[g] # "none" /\ Callback(call[g].ticket)}

Acknowledged(row) == \E e \in log : e.row = row /\ e.outcome \in {"accepted", "denied"}

(* No pending grant is forgotten: as long as a grant waits to be confirmed   *)
(* or revoked, an unpublished row of the outbox still says so, whatever      *)
(* crashes and commits come between the statements of a delivery.           *)
PendingHasRow ==
  \A g \in Requests :
    /\ product[g] = "grant_pending" =>
         \E row \in outbox \ published : row.grant = g /\ row.kind = "grant_requested"
    /\ product[g] = "revoke_pending" =>
         \E row \in outbox \ published : row.grant = g /\ row.kind = "revoke_requested"

(* A callback grant is shown confirmed, or revoked, only after the product   *)
(* answered 200 to an event of that kind.                                   *)
ConfirmedMeansAcknowledged ==
  \A g \in CallbackGrants :
    /\ product[g] = "granted" =>
         \E e \in log : /\ e.row.grant = g /\ e.row.kind = "grant_requested"
                        /\ Acknowledged(e.row)
    /\ product[g] = "revoked" =>
         \E e \in log : /\ e.row.grant = g /\ e.row.kind = "revoke_requested"
                        /\ Acknowledged(e.row)

(* A row the product did not acknowledge is given up only for a reason: no   *)
(* URL, no secret, a client error, or the attempts of its grant used up.    *)
GivenUpForCause ==
  \A row \in published :
    \/ Acknowledged(row)
    \/ row.product \notin CallbackUrls
    \/ row.product \in Unsigned
    \/ \E e \in log : e.row = row /\ e.outcome = "client_error"
    \/ attempts[row.grant] >= MaxAttempts

(* Two events of the grant are filed under different products: the head of    *)
(* the caller's session scope names the tenant of a row, not the ticket.     *)
Misfiled(g) ==
  \E a, b \in outbox : a.grant = g /\ b.grant = g /\ a.product # b.product

Retried(row) == \E e \in log : e.row = row /\ e.outcome = "transient"

(* The grant event is still to be delivered although the revoke may have      *)
(* been: it failed once and waits to be retried, or the revoking transaction *)
(* began before it, so that the query of drain() lists the revoke first.     *)
Overtaken(g) ==
  \E row \in outbox \ published :
    /\ row.grant = g /\ row.kind = "grant_requested"
    /\ \/ Retried(row)
       \/ \E revoke \in outbox :
            /\ revoke.grant = g /\ revoke.kind = "revoke_requested"
            /\ CreatedAt(revoke) < CreatedAt(row)

(* A grant shown revoked is honoured by no product, but for two reasons: its *)
(* revoke went to another product than the grant, or its grant event comes   *)
(* after its revoke.                                                         *)
RevokedMeansNotHeld ==
  \A g \in CallbackGrants :
    product[g] = "revoked" => held[g] = {} \/ Misfiled(g) \/ Overtaken(g)

(* What schema.md 6 says of a resolved ticket ("resolve revokes both"): once    *)
(* every access event is settled, no product grant of it is shown granted.   *)
ResolveRevokesBoth ==
  \A t \in Tickets :
    ticket[t].status = "resolved" /\ outbox \subseteq published =>
      \A g \in GrantsOf(t) : platform[g] # "granted" /\ product[g] # "granted"

(* A grant shown granted, none of whose events is still on its way, is        *)
(* honoured by a product, unless the product answered 200 and denied it.     *)
GrantedMeansHeld ==
  \A g \in CallbackGrants :
    /\ product[g] = "granted"
    /\ \A row \in outbox \ published : row.grant # g
    => held[g] # {} \/ \E e \in log : e.row.grant = g /\ e.outcome = "denied"

(* A revoked grant comes back to life only by its own grant event, delivered  *)
(* after the revoke because it was retried or the two transactions           *)
(* overlapped; any other answer leaves it revoked or marks the revoke failed *)
(* (HLD 9.2: access is auto-revoked on resolve).                             *)
RevokedStaysRevoked ==
  [][\A g \in Requests :
       product[g] = "revoked" =>
         product'[g] \in {"revoked", "revoke_failed"} \/ Overtaken(g)]_allVars

(* Every access event is settled in the end, delivered or given up, as long  *)
(* as the process stops only finitely often: what a request adds to the      *)
(* outbox does not stay there.                                              *)
EveryRowSettles ==
  \A r \in Requests :
    {row \in outbox : row.by = r} # {}
      ~> {row \in outbox : row.by = r} \subseteq published

=============================================================================
