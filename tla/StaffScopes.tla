----------------------------- MODULE StaffScopes -----------------------------
(***************************************************************************)
(* How administrators change which tenants a member of staff may work:       *)
(* PATCH /admin/api/users/:id, statement by statement, several at a time, on  *)
(* one account.                                                              *)
(*                                                                           *)
(* replaceScopes deletes the account's rows of support_user_scope and inserts *)
(* the wanted ones.  Row-level security hides from a product_admin the rows   *)
(* of tenants the caller does not hold, so the same statement deletes other   *)
(* rows for other callers.  Under READ COMMITTED the deletion sees what was   *)
(* committed when it began, waits for a row another transaction is deleting   *)
(* and skips it when that one commits; an insertion waits for an uncommitted  *)
(* row with its key, and does nothing when the row is there.                  *)
(***************************************************************************)
EXTENDS Naturals

CONSTANTS
  Tenants,        \* rows of product
  Edits,          \* PATCH requests
  Origin,         \* who wrote the rows the account starts with
  NoAccount,      \* before the account is created
  MaxFailedEdits  \* bound on edits that fail for a reason of their own

ASSUME StaffAssumption == Origin \notin Edits /\ MaxFailedEdits \in Nat

VARIABLES
  rows,       \* committed rows of the account, or NoAccount
  request,    \* what each edit asks for
  stage,      \* how far its transaction is
  targets,    \* rows its DELETE still has to visit
  deleted,    \* rows it has deleted
  todo,       \* tenants it has not inserted yet
  inserted,   \* tenants it has inserted
  overlap,    \* edits committed since its DELETE began (auxiliary)
  failedEdits

scopesVars == <<rows, request, stage, targets, deleted, todo, inserted, overlap, failedEdits>>

-----------------------------------------------------------------------------
(* A row of support_user_scope, with the edit that wrote it: a row deleted    *)
(* and inserted again is another row.                                        *)
Row == [product : Tenants, by : Edits \cup {Origin}]

(* No set of rows is the mark of an account that does not exist.              *)
ASSUME AccountAssumption == \A rs \in SUBSET Row : rs # NoAccount

(* claims: the tenants in the caller's session, isSuper: whether they are all  *)
(* there are; own: the caller edits the caller's own account; rescope: the     *)
(* body has scopes; patch: it has other fields.                              *)
Request == [claims : SUBSET Tenants, isSuper : BOOLEAN, own : BOOLEAN,
            rescope : BOOLEAN, patch : BOOLEAN, wants : SUBSET Tenants]

(* requireRole and assertTenant: a tenant is granted only by who holds it.    *)
Allowed(req) == IF req.isSuper THEN req.claims = Tenants ELSE req.wants \subseteq req.claims

(* What an administrator may ask, each request in one form.                  *)
Asked == {req \in Request :
            /\ Allowed(req)
            /\ req.claims # {}
            /\ req.isSuper => ~req.own
            /\ req.rescope \/ (req.patch /\ req.wants = {})}

Stages == {"idle", "begun", "updated", "deleting", "inserting", "committed", "failed"}

Running(e) == stage[e] \notin {"idle", "committed", "failed"}

NoRequest == [claims |-> {}, isSuper |-> FALSE, own |-> FALSE, rescope |-> FALSE,
              patch |-> FALSE, wants |-> {}]

ScopesInit ==
  /\ rows \in {NoAccount} \cup {{[product |-> p, by |-> Origin] : p \in ps} : ps \in SUBSET Tenants}
  /\ request = [e \in Edits |-> NoRequest]
  /\ stage = [e \in Edits |-> "idle"]
  /\ targets = [e \in Edits |-> {}]
  /\ deleted = [e \in Edits |-> {}]
  /\ todo = [e \in Edits |-> {}]
  /\ inserted = [e \in Edits |-> {}]
  /\ overlap = [e \in Edits |-> {}]
  /\ failedEdits = 0

-----------------------------------------------------------------------------
(* POST /admin/api/users: the account is new, so nobody waits for its rows.   *)
CreateUser ==
  /\ rows = NoAccount
  /\ \E wants \in SUBSET Tenants : rows' = {[product |-> p, by |-> Origin] : p \in wants}
  /\ UNCHANGED <<request, stage, targets, deleted, todo, inserted, overlap, failedEdits>>

BeginEdit(e) ==
  /\ rows # NoAccount
  /\ stage[e] = "idle"
  /\ \E req \in Asked : request' = [request EXCEPT ![e] = req]
  /\ stage' = [stage EXCEPT ![e] = "begun"]
  /\ UNCHANGED <<rows, targets, deleted, todo, inserted, overlap, failedEdits>>

(* A variant of RowLocks whose lock does not last until the commit.           *)
RowLocksBriefly(e) == {}

(* Transactions that have updated the account's row and not ended.           *)
RowLocks(e) == {f \in Edits \ {e} : request[f].patch /\ Running(f) /\ stage[f] # "begun"}

(* updateUser issues no statement when the body has nothing but scopes.       *)
UpdateUser(e) ==
  /\ stage[e] = "begun"
  /\ request[e].patch => RowLocks(e) = {}
  /\ stage' = [stage EXCEPT ![e] = IF request[e].rescope THEN "updated" ELSE "inserting"]
  /\ UNCHANGED <<rows, request, targets, deleted, todo, inserted, overlap, failedEdits>>

(* A variant of Visible without row-level security.                          *)
VisibleToAll(req) == Tenants

(* scope_visibility.                                                         *)
Visible(req) == IF req.isSuper \/ req.own THEN Tenants ELSE req.claims

(* replaceScopes: DELETE takes its snapshot.                                 *)
StartDelete(e) ==
  /\ stage[e] = "updated"
  /\ targets' = [targets EXCEPT ![e] = {r \in rows : r.product \in Visible(request[e])}]
  /\ stage' = [stage EXCEPT ![e] = "deleting"]
  /\ UNCHANGED <<rows, request, deleted, todo, inserted, overlap, failedEdits>>

Deleting(e, r) == {f \in Edits \ {e} : r \in deleted[f]}

(* One row of the snapshot: deleted, unless another edit has committed that   *)
(* meanwhile.                                                                *)
DeleteRow(e, r) ==
  /\ stage[e] = "deleting"
  /\ r \in targets[e]
  /\ Deleting(e, r) = {}
  /\ deleted' = [deleted EXCEPT ![e] = @ \cup ({r} \cap rows)]
  /\ targets' = [targets EXCEPT ![e] = @ \ {r}]
  /\ UNCHANGED <<rows, request, stage, todo, inserted, overlap, failedEdits>>

FinishDelete(e) ==
  /\ stage[e] = "deleting"
  /\ targets[e] = {}
  /\ stage' = [stage EXCEPT ![e] = "inserting"]
  /\ todo' = [todo EXCEPT ![e] = request[e].wants]
  /\ UNCHANGED <<rows, request, targets, deleted, inserted, overlap, failedEdits>>

(* Who else has the key of tenant p in an uncommitted row.                  *)
KeyHolders(e, p) ==
  {f \in Edits \ {e} : p \in inserted[f] \/ \E r \in deleted[f] : r.product = p}

(* INSERT ... ON CONFLICT DO NOTHING, in the order of the body.               *)
InsertRow(e, p) ==
  /\ stage[e] = "inserting"
  /\ p \in todo[e]
  /\ KeyHolders(e, p) = {}
  /\ inserted' = [inserted EXCEPT
       ![e] = @ \cup {q \in {p} : \A r \in rows \ deleted[e] : r.product # q}]
  /\ todo' = [todo EXCEPT ![e] = @ \ {p}]
  /\ UNCHANGED <<rows, request, stage, targets, deleted, overlap, failedEdits>>

Deletes(e) == stage[e] \in {"deleting", "inserting"} /\ request[e].rescope

(* The audit row and COMMIT.                                                 *)
Commit(e) ==
  /\ stage[e] = "inserting"
  /\ todo[e] = {}
  /\ rows' = (rows \ deleted[e]) \cup {[product |-> p, by |-> e] : p \in inserted[e]}
  /\ stage' = [stage EXCEPT ![e] = "committed"]
  /\ deleted' = [deleted EXCEPT ![e] = {}]
  /\ inserted' = [inserted EXCEPT ![e] = {}]
  /\ overlap' = [f \in Edits |-> IF f # e /\ Deletes(f) THEN overlap[f] \cup {e} ELSE overlap[f]]
  /\ UNCHANGED <<request, targets, todo, failedEdits>>

RolledBack(e) ==
  /\ stage' = [stage EXCEPT ![e] = "failed"]
  /\ targets' = [targets EXCEPT ![e] = {}]
  /\ deleted' = [deleted EXCEPT ![e] = {}]
  /\ todo' = [todo EXCEPT ![e] = {}]
  /\ inserted' = [inserted EXCEPT ![e] = {}]
  /\ UNCHANGED <<rows, request, overlap>>

(* A statement fails or the connection breaks.                               *)
EditFails(e) ==
  /\ Running(e)
  /\ failedEdits < MaxFailedEdits
  /\ failedEdits' = failedEdits + 1
  /\ RolledBack(e)

(* Whom an edit cannot go on without.                                        *)
WaitsFor(e) ==
  CASE stage[e] = "begun" /\ request[e].patch -> RowLocks(e)
    [] stage[e] = "deleting" -> UNION {Deleting(e, r) : r \in targets[e]}
    [] stage[e] = "inserting" -> UNION {KeyHolders(e, p) : p \in todo[e]}
    [] OTHER -> {}

(* Two edits that insert the same tenants in opposite orders wait for each    *)
(* other; the database fails one of those in the circle.                     *)
DeadlockVictim(e) ==
  /\ \E circle \in SUBSET Edits :
       e \in circle /\ \A f \in circle : WaitsFor(f) \cap circle # {}
  /\ RolledBack(e)
  /\ UNCHANGED failedEdits

EditStep(e) ==
  \/ BeginEdit(e) \/ UpdateUser(e) \/ StartDelete(e) \/ FinishDelete(e)
  \/ \E r \in Row : DeleteRow(e, r)
  \/ \E p \in Tenants : InsertRow(e, p)
  \/ Commit(e) \/ EditFails(e) \/ DeadlockVictim(e)

ScopesNext == CreateUser \/ \E e \in Edits : EditStep(e)

ScopesSpec == ScopesInit /\ [][ScopesNext]_scopesVars

-----------------------------------------------------------------------------
(* Properties.                                                               *)

(* Every variable holds a value of its type; no tenant has two rows.          *)
StaffTypeOK ==
  /\ rows \in {NoAccount} \cup SUBSET Row
  /\ rows # NoAccount => \A r, s \in rows : r.product = s.product => r = s
  /\ stage \in [Edits -> Stages]
  /\ targets \in [Edits -> SUBSET Row]
  /\ deleted \in [Edits -> SUBSET Row]
  /\ todo \in [Edits -> SUBSET Tenants]
  /\ inserted \in [Edits -> SUBSET Tenants]
  /\ overlap \in [Edits -> SUBSET Edits]
  /\ failedEdits \in 0..MaxFailedEdits

Scoped(rs) == {r.product : r \in rs}

(* Edits that got in between: with e's own lock on the account's row, none     *)
(* that takes the lock as well.                                              *)
Between(e) ==
  {f \in overlap[e] : request[f].rescope /\ ~(request[e].patch /\ request[f].patch)}

(* When an edit of scopes commits, the caller's part of the account's tenants  *)
(* is what the caller wanted, but for what edits that committed between its    *)
(* deletion and its commit put in or left out; edits that also change the      *)
(* account's row never get in between.                                       *)
EditReplaces ==
  [][\A e \in Edits :
       (stage[e] = "inserting" /\ stage'[e] = "committed" /\ request[e].rescope) =>
         /\ (Scoped(rows') \cap Visible(request[e])) \ request[e].wants
              \subseteq UNION {request[f].wants : f \in Between(e)}
         /\ request[e].wants \ Scoped(rows')
              \subseteq UNION {Visible(request[f]) \ request[f].wants : f \in Between(e)}
     ]_scopesVars

(* Whatever is under way, only an edit by someone who holds a tenant, or by    *)
(* the account's owner, adds or removes the account's row for it.             *)
OutOfReachUntouched ==
  [][rows # NoAccount => \A p \in Tenants :
       {r \in rows : r.product = p} # {r \in rows' : r.product = p} =>
         \E e \in Edits : /\ stage[e] # "committed" /\ stage'[e] = "committed"
                          /\ \/ request[e].isSuper \/ request[e].own
                             \/ p \in request[e].claims]_scopesVars
=============================================================================
