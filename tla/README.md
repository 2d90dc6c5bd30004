# IRIS support ticketing: verification development

TLA+ models of the IRIS support-ticketing platform, the TLC runs that check
them on small instances, and TLAPS proofs of what matters most for every
instance. Every definition is translated from the source; `PROJECT.json` maps
each one to its lines. Paths below are relative to `src/`.

## 1. The system

Integrating products raise support tickets through a gateway, from a widget
their users see. Support staff work the tickets in an admin panel. They have
*no* standing access to the payload of a ticket: assigning a ticket writes a
just-in-time grant on two layers, `platform` (enforced by row-level security in
the platform's own database) and `product` (relayed to the product by a
callback, or as a token the product minted when the ticket was raised).
Resolving a ticket revokes both. A transactional outbox carries the events out,
to the products and to an AI pipeline.

| Component | State it keeps | Operations | Talks to |
|---|---|---|---|
| ticket state machine (`shared/types/ticket.ts`, `core-service/src/tickets/state-machine.ts`) | none | `assertTransition`, `effectsFor` | called by the ticket handlers |
| ticket requests (`core-service/src/tickets`, `admin/tickets.routes.ts`) | `ticket`, `ticket_comment` | raise, list, view, assign, set status (client, admin), rate, comment, note | grants, outbox, audit, in one transaction |
| access grants (`access/grant.service.ts`) | `access_grant`, `preauth_token` | `issueGrants`, `revokeGrants`, `has_active_grant` | outbox, audit |
| outbox (`events/outbox.ts`) | `event_outbox` | `emitEvent` | drained by the publisher and the AI dispatcher |
| access publisher (`events/publisher.ts`) | `access_grant`, `event_outbox`, `delivery_log`; a batch in memory | drain, deliver, succeed, fail, back off | product callbacks |
| transactions and row security (`db/with-scope.ts`, `infra/migrations/005`, `008`) | session settings | begin, commit, rollback; read and write policies | every query |
| AI pipeline (`events/ai-dispatcher.ts`, `worker/`, `internal/ai.*`, `ai-service/`) | outbox rows, BullMQ queue, `ai_execution` | dispatch, claim, execute, complete, retry | Redis, core-service, the AI service |
| gateway (`gateway/src`) | credential, JWKS, token and nonce caches, rate windows | authenticate, limit, proxy | Postgres, Redis, identity providers, core-service |
| support users and sessions (`auth/`, `users/`) | `support_user`, scopes, lockout counter, stateless sessions | login, change password, replace scopes, deactivate | gateway |
| tenants (`admin/admin.routes.ts`, `products/`) | `product`, reference counter | configure, next reference | gateway (NOTIFY), publisher |
| widget backend, attachments, knowledge base | conversations, blobs, articles | ask, upload, link, search | tickets, storage |
| widget front end (`widget/src/app`) | one `state` object, a draft in `sessionStorage` | ask, escalate, write, attach, submit, open, reply | gateway |
| admin panel, scripts | browser state | | HTTP |

What is hard in each, and what makes it correct:

* **Ticket requests.** Each handler runs in one READ COMMITTED transaction that
  reads the ticket *without* locking it, checks it, and writes without
  re-checking. Correct when the status leaves the table only for a request that
  was overtaken, the dates fit the status, and access follows the status.
* **Grants.** Two layers and a token, changed by separate statements with
  separate conditions, under the same interleavings. Correct when at most the
  assignee holds a grant, a resolved ticket carries none but what a revoke on
  record will end, and no revoke is lost between the state change and the outbox.
* **Publisher.** Each statement is its own transaction: crashes and requests
  come between them; products fail, deny or answer late; rows are retried,
  backed off and dead-lettered, and an answer is written over whatever the grant
  is by then. Correct when no pending grant is forgotten, nothing is recorded that
  was not acknowledged, what a grant row says is what the products honour, and
  every row settles.
* **AI pipeline.** At-least-once dispatch, retries, stalled jobs and calls
  that are handled after their caller gave up. Correct when the result of an
  event is applied once and every event comes to an end.
* **Gateway.** Caches refilled by lookups that race their invalidation, keys
  that rotate, counters in two places. Correct when a stale entry lives no
  longer than its bound, a request is refused for a reason and let in once.
* **Sessions and administration.** A session outlives changes of role and
  scope, a lockout counter is raced, two administrators edit one account.
  Correct when authority runs out, guesses are bounded, an edit does what its
  caller asked, within the caller's reach.
* **Reads.** A list is paged while tickets are raised; a view is read statement
  by statement while the grant it depends on comes and goes.
* **Widget.** A user who does not wait for answers. Correct when nothing is
  raised twice and nothing the user entered is lost, but for named causes.

`PROJECT.json` lists each hazard at its line, with the properties that cover it.

## 2. Modules

| Module | What it is |
|---|---|
| `TicketStatus` | statuses, transition table, effects of a transition, as pure operators |
| `TicketAccess` | the concurrent requests of core-service on tickets, grants, tokens, outbox and audit |
| `PlatformAccess` | abstract: who may read the payload of a ticket, and nothing of how |
| `AccessDelivery` | `TicketAccess` composed with the drainer, its crashes, and the products it calls |
| `AiPipeline` | dispatcher, queue, worker runs, AI service, the two internal endpoints |
| `AppliedOnce` | abstract: one result and one audit row per event |
| `CredentialCache` | tenant edits, and the gateways' cached copies with LISTEN/NOTIFY |
| `IdentityKeys` | key rotation against the key-set and token caches of a gateway |
| `GatewayRequests` | signatures, replay caches and rate counters of gateway and core-service |
| `SignIn` | login, lockout, sessions and account edits over time |
| `StaffScopes` | concurrent edits of an account's tenants, statement by statement |
| `RaiseTicket` | questions, conversations, raises with their numbers, uploads |
| `TicketReads` | `RaiseTicket` composed with a reader: pages of a list, a view of a ticket |
| `WidgetPanel` | the widget's panel: handlers, calls under way, draft, reloads |
| `..._proofs` | theorems about the module they are named after (`TicketReads_proofs` also about `RaiseTicket`, `AccessDelivery_proofs` also about `TicketAccess`; `SupportUsers_proofs` about `SignIn` and `StaffScopes`) |
| `MC...` | values of the constants for TLC |

Definitions whose comment begins *A variant of* are not part of a model: each
is the form a plausible slip would give the definition next to it. They are
used by no specification.

**TicketAccess.** A request goes through `Begin...` (the transaction opens, the
ticket is read, the guards are evaluated), then `Commit...` (all its writes,
visible together) or `Rollback`. The split is the one that matters under READ
COMMITTED: the first write of every handler that touches grants is the
`UPDATE` of the ticket row, whose lock it holds to the end, so everything after
it is atomic to the other requests on that ticket; everything before it is
not. `call[r]` is what the handler keeps in its local variables, `seen` the
status it read. A check that fails throws and rolls back, so it is a guard. A
grant row is named by the request that issued it. Timestamps are reduced to
whether they are set. Outbox rows carry the tenant they are filed under, which
for staff is `ctx.productScope[0]`, not the tenant of the ticket. `DrainerWrites`
is the one other writer of grants: for any row of the outbox, at any time and any
number of times, the state that a confirmed or a failed delivery leaves, over
whatever the state is by then. What a drainer really does is `AccessDelivery`,
which implements `TicketAccess` (`DeliveryKeepsRequests`). `TicketAccess`
implements `PlatformAccess` under the mapping `HolderOf` (the agent of the
active platform grant) and `resolved` (the status): `PromiseKept`.

**AccessDelivery.** `began[r]` is the start of a request's transaction, which is
what `created_at DEFAULT now()` records. `Drain` is the query; `Skip`,
`Prepare`, `Send`, `Log`, `Succeed`, `FailGrant`, `FailRow` are the statements
of `deliver()`, `succeed()` and `failAttempt()`, one transaction each. `batch`
and `current` live in the memory of the process, and `Crash` clears them.
`held` is external: which products honour a grant.

**AiPipeline.** `Drain`, `Enqueue`, `Stamp` and their failures are
`drain()`; `Take`, `CallAI`, `TimesOut`, `BackoffElapses`, `Stalls` and
`WorkerStops` are BullMQ's handling of a job and the handler of
`ai.consumer.ts`. A call to core-service is a message in `calls`: it may be
lost, its answer may be lost, and it may be handled long after the run that
sent it has ended. `GetAIInput` is the transaction of the context endpoint
with `claimExecution`, `SubmitAIResult` that of `completeExecution` and
`failExecution`. `execution` is the `ai_execution` row, `audit` the rows of the
audit log that tell of it. It implements `AppliedOnce` with the status and
audit of an event that is decided.

**CredentialCache.** A product row is the set of edits it holds; a copy in a
gateway's cache keeps when it was stored and, as auxiliary state, since when and
why the row has moved on. `UpdateTenant` (columns of their own), `ReplaceConfig`
(the same endpoint given a `config`, which it writes whole, with what its caller
kept of earlier edits), `ReadConfig`/`WriteConfig` (the locked merge of the widget
configuration) and `Deactivate` are the admin handlers, each with its NOTIFY; `StartLookup` and `FinishLookup` are the two
sides of the gateway's query; `HearNotice`, `ListenerDrops` and
`ListenerReconnects` the listener.

**IdentityKeys.** `VerifyRemembered`, `VerifyCached`, `VerifyFetching` are the
three ways through `verifyIdentity`; a fetch is under way between
`VerifyFetching` or `Retry` and `FetchDone`/`FetchFails`, and other requests
meet the caches as they are meanwhile. A verified token is remembered under the
`jti` it names, and found under the `jti` that the next token names before anything
of that one is verified. `Rotate` and `Mint` are the product's; `forcedAt`
(auxiliary) is when each forced fetch of the behaviour began.

**GatewayRequests.** The two verifiers differ in one thing, `NonceFirst`: the
gateway remembers a nonce before it verifies the signature, core-service after.
`Incr`, `Expire`, `Read` are the three Redis commands of `consume()`, each may
fail; `InMemory` is the window of the process. Time runs in ticks because
nonces lapse by the millisecond and timestamps are compared in seconds, both ends
of the window included; a signer's clock may be a whole window ahead.

**SignIn.** `FindByEmail`, `ScopesFor`, `Judge`, `RecordLoginFailure`,
`RecordLoginSuccess`, `IssueSession` are the statements of one login; any may
fail. `Admitted` is the check a request with a cookie meets in the gateway.
A wrong password is `Guessed` at one of two doors, the sign-in page and
`ChangePassword`, of which the second counts nothing. `lastHeld` (auxiliary) is when
each authority was last the account's.

**StaffScopes.** `replaceScopes` as PostgreSQL runs it: the DELETE's snapshot,
row by row with waits for locks, INSERT ... ON CONFLICT DO NOTHING with waits
for uncommitted keys, deadlock victims. `Visible` is the policy that hides rows
from a product_admin.

**RaiseTicket, TicketReads.** `NextReference` takes the product's row lock and
the commit releases it. `Ask` is POST /v1/widget/ask with its conversation,
`PutBlob`, `RecordFile`, `LinkFile` an attachment. `ReadPage` is `listTickets`
with its cursor, `ReadComments`, `ReadFiles`, `ReadGrants` the statements of a
view in the order of the handler, each seeing what is committed when it runs.

**WidgetPanel.** `state` is the panel's state object, `calls` the requests
under way, `draft` what `sessionStorage` holds, `button` whether the submit
button was drawn enabled; each handler is an action, each answer another, with
`Fails` and a lost answer as alternatives, and `LeavePage` a reload. `fields` is
what subject, category and severity (one choice) and the reply show, which nothing
but an input of the description saves, and of them only the subject: `Redraw`, part
of every render, draws them from the draft. `carried` is what a call under way
holds of them, `arrived` what is at the server. `seen` and `entered` are auxiliary:
what the user has done. The vote on an article, which renders when it is answered,
is left out.

## 3. Runs

Deadlock is not checked: each run ends when its requests, its clock (`Horizon`)
or its faults (`MaxFaults`) are used up. Symmetry is used for values no
definition tells apart, and never where liveness is checked.

| Run | Instance | Shows |
|---|---|---|
| `ticket_access` | a callback ticket and a pre-authorised one, an agent who works one of the two tenants and a super admin, 3 requests of all six kinds, all in flight | one holder per ticket, the assignee; nothing live on a resolved ticket; the layers end together; no revoke without its event; dates fit the status; a closed ticket keeps access, and a status takes a forbidden step, for one named cause only; `PlatformAccess` is implemented |
| `access_delivery` | 1 callback ticket, 2 overlapping requests of two staff whose sessions list the two tenants in different orders, both with a URL; denials and transient failures, 2 attempts, batches of 2, a crash | no pending grant is forgotten; confirmed means acknowledged; what a row says and what the products honour agree, and a revoked grant stays revoked, but for events denied, overtaken or misfiled |
| `resolve_revokes` | 1 callback ticket, 2 overlapping requests of a super admin, every answer, no crash; *violation expected* | "resolve revokes both" (`docs/schema.md:229`) fails: a grant event sent again after its revoke |
| `delivery_settles` | 2 requests, refusals, transient failures and back-off, a tenant without a signing secret, a crash; fairness | every access event is settled; a row is given up only for a reason |
| `ai_pipeline` | 2 events (one of before the rollout), 2 worker slots, 2 attempts, a stall, 2 faults (crash, lost call or answer, failing dispatch); fairness | `AppliedOnce` is implemented; a stamped event has its job; every event is decided or has used up its attempts |
| `credential_cache` | 1 gateway, a product under 2 credentials, created while the gateway runs, 2 merges of its widget configuration, a write of the whole config, an update of a column, lifetime and lookup of 1, clock to 4 | a copy is stale no longer than lifetime and lookup; a copy the notification should have cleared is gone when it was heard; no edit is lost but to a write of the whole config |
| `identity_keys` | 2 keys, 2 tokens that may name one jti, 2 fetches at a time, key lifetime 3, cooldown 2, clock to 5 | how long a withdrawn key opens the gateway; when a genuine token is refused; how far any two forced fetches are apart |
| `gateway_requests` | a gateway process and core-service, 2 requests at a time, 1 signed message delivered twice and by a clock up to a window ahead, limit 1, 1 fault, clock to 5 | a request is let in once, unless its timestamp was a full window ahead and is a full window behind; a refusal as replay, or as too many, has its reason |
| `sign_in` | 2 visits, 4 guesses, lock after 2, session, login and lock of 1, 1 and 2, an edit, a fault, clock to 3 | authority taken away runs out; a lock bounds the guesses at the sign-in page, whatever is tried at change-password |
| `staff_scopes` | 2 edits by any callers, 2 tenants, a fault | an edit replaces what its caller sees, but for edits in between; tenants out of reach are untouched |
| `ticket_reads` | 3 raises, one of them committed before, a conversation, a file, a user, pages of 1, 2 microseconds to the millisecond | numbers without gaps; a self-served conversation is no ticket; a walk misses only ties with a page's end; the access flag of a view matches what it carries |
| `widget_panel` | 2 calls under way, 4 in all, 2 texts, an entry in subject or reply at a time, a file, a failure or reload, the panel opened with a link to the list of tickets | nothing raised twice, descriptions and files kept, an entry in a field that nothing saves is lost, and a view shows something else than what was asked for, only for named causes |

*Bounds.* Three requests reach every case of the ticket run: an assignment to
create access, a second request to end or replace it, and a third, stale, that
read before either. In the delivery runs two rows for one grant (its issue and
its revoke) are what can be reordered or lost; two attempts distinguish a retry
from a last attempt; batches of two a row in memory from one in the table. Two
worker slots and a stall let two runs of one job, or of two jobs of one event,
overlap; two attempts let the first fail and the second succeed. The clocks run
past the end of every lifetime started in the first half of a run, and each
lifetime is one or two ticks, so that both sides of every comparison occur.
Two edits, two visits, two fetches, two calls are the least that interleave, and
the least that make a circle of waits.

*Fairness.* `FairDeliverySpec`: weak fairness of `Drain` and of the steps of a
delivery, because `setInterval` polls every second while the process lives and
each `await` ends (the callback has a timeout, a statement fails or returns);
of the passing of a back-off time. `FairSpec` of `AiPipeline`: of the poll loop,
of a free slot taking a job, of the AI service's answer or the client's timeout,
of core-service handling a call, of back-off and stall timers. Requests need not
begin or end, events need not be raised, and nothing has to fail; crashes are
bounded, since nothing is promised of a process that stops for ever.

The answers are shared between the delivery runs: denials and transient failures in
`access_delivery`, refusals and the tenant without a secret in `delivery_settles`;
the theorems of section 4 have them all at once. `widget_panel` lets the user type in
the subject, which the draft keeps once the description is typed, and in the reply,
which nothing keeps; category and severity differ from the subject only in never being
saved, and `WidgetPanel_proofs` has them too.

## 4. What is proved

Each theorem holds for every value of the constants under the named `ASSUME`
of its module. These say that bounds are numbers, names differ and the requests
handled at a time are finitely many, and three things more: `RequestsAssumption`,
that a nonce is remembered for two freshness windows (`NONCE_TTL_MS`), which are
not empty; `KeysAssumption`, that the lifetime of a key set
and the cooldown are positive (`JWKS_TTL_MS`, `JWKS_REFETCH_COOLDOWN_MS`); and
`SignInAssumption`, that a lock takes a failure and lasts
(10 failures, 15 minutes: `user.repo.ts:98`). What a theorem needs beyond them stands
in its statement.

| Module | Theorems (property) | Inductive invariant |
|---|---|---|
| `AccessDelivery_proofs`, on `TicketAccess` | `TypeCorrect`, `OneHolder` (`SingleHolder`), `ResolvedEndsAccess` (`ResolvedMeansRevoked`), `LayersEndTogether` (`LayersAgree`), `NoRevokeLost` (`RevokeHasEvent`), `DatesFitStatus` (`StampsMatchStatus`), `ImplementsPromise` (`PromiseKept`), `MovesLegalUnlessOvertaken` (`LegalUnlessOvertaken`), `ClosedAccessExplained` (`ClosedAccessForCause`) | `AccessInv`; `Judged` for the moves |
| `AccessDelivery_proofs`, on the drainer | `DeliveryTypeCorrect`, `GivenUpWithCause` (`GivenUpForCause`), `ConfirmedByTheProduct` (`ConfirmedMeansAcknowledged`), `NoGrantForgotten` (`PendingHasRow`), `GrantedIsHonoured` (`GrantedMeansHeld`), `DeliveryKeepsRequests` (every step of it is one of `TicketAccess`), `ResolvedEndsDelivered` (`ResolvedMeansRevoked`, `LayersAgree`) | `DeliveryInv`, `FailedOK`, `Carried`, `GrantedOK` |
| `AccessDelivery_proofs`, on the order of rows | `RevokedForGood` (`RevokedStaysRevoked`), `RevokedIsNotHonoured` (`RevokedMeansNotHeld`) | `FlowInv`, `HeldFiled` |
| `AiPipeline_proofs` | `PipelineTypeCorrect`, `ImplementsAppliedOnce` (`PromiseKept`), `StampFollowsJob` (`StampedMeansQueued`) | `Ledger`, `Traced`, `QueueInv` |
| `CredentialCache_proofs` | `CacheTypeCorrect`, `StalenessBounded` (`StaleAtMost`), `StaleCopiesExplained` (`StaleForCause`), `EditsKept` (`LostToWholeConfigOnly`) | `TableInv`, `GatewayInv` |
| `GatewayRequests_proofs` | `RequestsTypeCorrect`, `NoReplay` (`AcceptedOnceUnlessAtEdges`), `NoFalseReplay` (`ReplayedMeansAccepted`), `CountersLapse`, `RefusedWithCause` (`RefusedForCause`) | `Typed`, `NonceInv`, `CountInv` |
| `IdentityKeys_proofs` | `KeysTypeCorrect`, `WithdrawnKeyIsForgotten` (`WithdrawnKeyDies`), `RefetchesAreSpaced` (`RefetchesSpaced`), `TurnedAwayForCause` (`GenuineTurnedAwayForCause`) | `KeysInv` |
| `SupportUsers_proofs`, on `SignIn` | `SignInTypeCorrect`, `AuthorityEnds` (`AuthorityRunsOut`), `GuessesAreBounded` (`GuessesBounded`) | `TypeInv`, `AuthorityInv`, `GuessInv` |
| `SupportUsers_proofs`, on `StaffScopes` | `StaffTypeCorrect`, `OutOfReach` (`OutOfReachUntouched`), `EditReplacesScopes` (`EditReplaces`) | `WithinReach`, `ReplaceInv` |
| `TicketReads_proofs`, on `RaiseTicket` | `RaisesTypeCorrect`, `Gapless` (`NumbersGapless`), `CountsOfTheMetric` (`SelfServedCounts`) | `Numbers`, `Conversations` |
| `TicketReads_proofs`, on the reader | `ReadsTypeCorrect`, `ViewsAreHonest` (`FlagMatchesPayload`), `WalkMissesOnlyTies` (`PagesMissOnlyTies`) | `ViewInv`, `WalkInv` |
| `WidgetPanel_proofs` | `PanelTypeCorrect`, `PressedTwiceRaisedOnce` (`RaisedOnce`), `WhatIsTypedIsKept` (`DescriptionKept`), `EntriesAreKept` (`FieldsKept`), `AttachedIsKept` (`FilesKept`), `AnswersFitTheView` (`AnswersFit`) | `PanelInv`; `FieldInv` |

Why the properties need strengthening:

* `AccessInv`. No property of `TicketAccess` is inductive by itself: each rests
  on what a request in flight may look like. One that has not committed owns no
  grant, so an assignment adds exactly one to what `revokeGrants` has just
  emptied (`Held`, `Twinned`); a client's request can ask for `open` or `closed`
  only, so the one path that does not revoke never commits `resolved`, however
  stale it is (`Ended`). `Judged` says that a request in flight is legal against
  the status it read.
* `DeliveryInv` ties the delivery in progress to the log: what it is about to
  write was answered. `FailedOK` closes the gap between the two transactions
  of `failAttempt`: a row about to be given up is no longer what its grant waits
  for. `NoGrantForgotten` assumes `CallbackUrls = Products`: without it the
  property fails, since `Skip` publishes a row filed under a tenant that has no
  URL and leaves the grant pending. `DeliveryTypeCorrect` needs finitely many
  requests for the clock to be a number.
* `Carried` says that the row being delivered is published by nobody else and
  has had its effect at the product if it was accepted. `GrantedOK`: a grant shown
  granted is honoured, or was denied, or a revoke of it is on its way to a tenant with
  a URL.
* `FlowInv` is about order, and holds for requests that overlap and rows that are
  retried. `RowOrdered`: a grant is asked for by the request that
  issues it and revoked by another, which may have begun before. `InOrder`: of the rows in
  the table, in the batch and in delivery, a grant event is never passed by a
  revoke of a transaction that began later (`Precedes`), unless it has been
  retried; a crash keeps it, because it drops a batch of rows that are the earliest
  still. `GrantOver`, what `RevokedForGood` needs, follows: once a revoke is being
  confirmed, the grant event has been settled, or is one of those that the property
  names (`Late`). `RevokedIsNotHonoured` needs, besides, who honours what
  (`HeldFiled`): a product honours a grant only if an event of it was filed there.
  Both assume finitely many requests, so that the clock of transactions is a number.
* `Ledger` says that an execution has one audit row when it is decided and none
  before, so that every later result finds it decided. `QueueInv` follows an
  event from the table to the queue: its row is in one place at a time
  (`Dispatching`), and one in the dispatcher's hand or stamped has a job, of
  which each but the last has cost a fault (`MintedInOrder`).
* `GatewayInv` bounds by the clock when a copy, or a lookup on its way, was
  overtaken; `TableInv` follows what was edited against what a write of the whole
  config left out. `NonceInv`: a nonce let in is remembered for two windows, so that a
  timestamp still fresh when it lapses was a full window ahead when it was let in,
  and is a full window behind now; a third time it is not fresh.
* `KeysInv` dates what the gateway knows of a key: a key set under way differs
  from the published one only in keys that changed after its fetch began, a
  stored one in keys that changed no more than `FetchLimit` before it was stored
  (`Behind`), and a token was verified while its key was published or soon after
  (`Usable`). `ForcedOK` says what became of the last forced fetch: it is under
  way, has failed, or has been stored; `lastForced` is the last of `forcedAt`, of
  which any two are a cooldown apart.
* `AuthorityInv` follows what a sign-in reads from the moment it was true, through
  `SignInOK`, to the cookie (`SessionOK`).
* `CountInv` compares, for every key, what is counted with what came. A request
  that was let into the limiter is pending until it has its verdict, for a command
  each of counting, expiring and reading (`Paced`), so that those pending since a
  time are no more than came since (`Awaited`, for *every* time). A counter, with
  the requests that may still be added to it, is no more than what came since it
  was opened: at its own expiry less the window, if that is set (`MemoryFair`,
  `ClosedFair`), when its one opener sent INCR, if EXPIRE is on its way
  (`OpenFair`), and not bounded at all if EXPIRE was lost (`OrphanFair`). A count
  read is kept with the time it was read (`ReadFair`). The slack of three commands
  in `Memory` is what these add up to.
* `GuessInv` weighs guesses against failures. Below the limit of the counter each
  guess has been counted, is about to be, or its record failed. At the limit,
  those that will still be recent at a time T are bounded *for every T to come*
  (`GuessesWithin`): while the lock lasts, together with the sign-ins that read
  the account before it, by what filled the counter and the visits; once it has
  run out, by the failures not recorded yet, since each record locks anew.
* `WithinReach`: what an edit holds in its hands its caller sees or may grant.
  `ReplaceInv` first sorts the rows by hands (`RowsInv`: a row deleted by one edit
  is in no other's, a key being inserted is free), then follows an edit: a row of
  its caller's tenants is still to be deleted or another edit put it in
  (`Swept`), and a tenant it wants is there, or still to be inserted, or
  another edit took it away (`Met`).
* `Numbers`: between the UPDATE and the commit of a raise, its number is held by
  nobody else. `Conversations` does the same for a raise's conversation.
* `WalkInv` says what a walk has met by the page that ends at the cursor: every
  ticket it began with that is not older than the cursor, but for ties with a
  page's end. It rests on three facts about pages: the tickets are finitely many (their
  numbers are distinct and none exceeds the counter), a full page ends at its
  oldest ticket, and a page that is not full was the last.
* `PanelInv` follows what the user entered through the calls that carry it.
  `OnePress`: of the calls a press of the button sets going (raise, link, reply,
  the refresh after it) one at most is under way, and the button is disabled
  until it is over; without it two presses raise two tickets. `TextsSoFar` and
  `ConvsSoFar`: texts and conversations are numbered upwards, so a new one equals
  none before. `TextOnce`, `ConvOnce`: a text, or a conversation, that is a ticket
  already is in no draft and in no raise under way, unless its files are still
  being linked (`Linking`, `LinksOK`) or an attempt with it failed. `ListOK`: while
  the list is awaited something is loading, and nothing but lists; `OpeningOK`:
  the openings under way are all of the ticket opened last. The proof goes in two
  steps. Each handler is first reduced to its effect on the fields that the
  invariant reads; most effects then leave the submissions aside, and each
  conjunct is proved for the few that do not. `FieldInv` follows an entry
  from the screen (`OnScreen`) to the call that bears it (`Bears`), and a subject
  that was saved through a failed submission (`SavedOK`).

Only model-checked: `EveryRowSettles` and `EventSettles`, liveness under
fairness, out of the prover's reach. Every other property that the passing runs
check, and the type invariant of every state machine, is proved.

## 5. What the models show about the code

Where the code does less than a document or comment says, the properties state
what it does do. Met while modelling:

* *The client's close keeps access* (`ticket.routes.ts:230`): it computes the
  revoke and does not act on it. `ClosedAccessForCause` says that this is the
  only way.
* *Illegal moves* (`tickets.routes.ts:236`): two requests are each legal against
  the status both read, and not in sequence. `LegalUnlessOvertaken`.
* *`reissue`* (`state-machine.ts:46`) is read by no caller: reopening gives
  nobody access back until the next assignment.
* *Reassigning a pre-authorised ticket* (`grant.service.ts:104`) finds the token
  revoked by its own first statement: the new assignee has the platform layer
  only.
* *An access event is filed under the first tenant of the caller's scope*
  (`outbox.ts:32`): it reaches another tenant's callback, or none. `Misfiled`.
* *Grant and revoke share an attempt counter* (`publisher.ts:117`): a revoke may
  be given up after its first attempt.
* *A denied `200` counts as granted* (`publisher.ts:189`): the exception of
  `GrantedMeansHeld`.
* *A late grant event re-opens a resolved ticket* (`publisher.ts:219`), the finding
  of `resolve_revokes`: retried after its revoke was delivered, or of a transaction
  that began after the revoking one did, it makes the row `granted` and the product
  honour it, with nothing left to end it. `Overtaken` names the two cases, and
  `RevokedStaysRevoked` and `RevokedMeansNotHeld` say that there is no third.
* *A confirmation overwrites `revoke_pending`* with `granted` (`publisher.ts:219`)
  until the revoke is delivered: hence `RevokeOnRecord` in `ResolvedMeansRevoked` and
  `LayersAgree`.
* *Two scope edits at once* may leave the union (`user.repo.ts:205` says
  replace); `EditReplaces` says when: never if both change the account's row.
* *The self-served metric* (`schema.md:289`): a ticket raised from a conversation
  by an identity that does not own it leaves the conversation self-served.
* *`Idempotency-Key`* (`api-contract.md:130`) is sent with a new uuid per
  attempt (`widget/src/app/api.ts:77`) and read by nobody: a submission whose
  answer is lost and that is repeated makes two tickets. `RaisedOnce`.
* *A signed request may be let in twice* (`service-auth.ts:162`, `verify.ts:60`): a
  timestamp 300 s ahead is fresh for up to 601 s, its nonce is remembered for 600.
  `AcceptedOnceUnlessAtEdges`.
* *The gateway remembers a nonce before it verifies* (`gateway/src/server.ts:294`): a
  damaged copy uses up the nonce, and the genuine request is refused.
  `ReplayedMeansAccepted` is about core-service, which verifies first.
* *Counters of a process* (`limiter.ts`) count beside those of Redis, so that more than
  the limit may be let in. `RefusedForCause` is about what is refused only.
* *An execution whose job has given up stays `running`* (`worker/src/index.ts:54`);
  `EventSettles` counts it as settled.
* *A wrong current password* at change-password (`auth.routes.ts:150`) is not counted
  and no lock stops it. `GuessesBounded` is about the sign-in page only.
* *`PATCH /admin/api/tenants/:id` with a `config`* (`admin.routes.ts:541`) writes it
  whole, over what the widget editor has merged ("Merge, never replace",
  `admin.routes.ts:489`). `LostToWholeConfigOnly`.
* *The cursor* is cut to milliseconds: a page that ends inside one skips its
  other tickets. `PagesMissOnlyTies`, which is about the tickets committed when the
  walk began; one dated before and committed after may be on no page.
* *`has_platform_grant`* ignores `expires_at`: a lapsed grant is announced whose
  payload is not there (`FlagMatchesPayload`); and the third branch of the
  comment policy (migration 008) lets agents in scope read public comments
  without a grant.
* *The widget* loses a description typed while a submission is under way and files
  uploaded while others are linked. Subject, category, severity and a reply are on
  the screen only (`main.ts:850` saves with the description): any answer that draws
  the panel anew empties them, the saved subject excepted, and a failed reply is
  not given back (`main.ts:831`). A late answer replaces the ticket opened
  after it, brings back a conversation that was closed, or clears the loading
  flag of another list, which then reads "No tickets yet"; so does "Back" from a
  ticket just opened from "Ticket created", with no list ever asked for
  (`main.ts:744`, `336`). A failed opening
  spins for ever; after a failed submission or a sent reply the button stays
  disabled until the next render. The exceptions in `DescriptionKept`, `FieldsKept`,
  `FilesKept`, `AnswersFit` and `RaisedOnce` are these.

## 6. Not modelled

* Two replicas of core-service draining at once: the guard is a flag of one
  process, and a second drainer takes `AccessDelivery` past what TLC can check.
* Changes of a tenant's mechanism or URL under live grants in `AccessDelivery`:
  there tenants, users and scopes are constants. `CredentialCache`, `SignIn` and
  `StaffScopes` model their changes.
* The expiry of grants in `TicketAccess` (no row changes); `TicketReads` has it.
* The clock of `revoke_due_at`, latencies, bodies of callbacks.
* The AI service (one request, one answer: external in `AiPipeline`), the
  redaction of what it is sent.
* SQL of the knowledge-base search, lists and counters of administration, the
  proxying of the gateway: reads.
* Markup, theme and frame of the widget; the admin panel, which keeps no state
  of a protocol; scripts, migrations runner and seed; cryptography, taken to
  work.

## 7. Plan

1. A drainer per replica, on an instance of one grant, with the proof of what
   remains true of it.
2. The admin panel's ticket view against `TicketReads`.
