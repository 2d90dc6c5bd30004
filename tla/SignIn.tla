------------------------------- MODULE SignIn -------------------------------
(***************************************************************************)
(* How support staff sign in and what a session lets them do: the lookup of  *)
(* the account, the lock after repeated failures, the signed cookie that      *)
(* carries role and scopes for SESSION_TTL_SECONDS, and the account edits     *)
(* that go on meanwhile.                                                     *)
(*                                                                           *)
(* One account is modelled (a product_admin or a manager signs in like an      *)
(* agent), with the visits of everybody who tries to open it.                *)
(* Every statement of a sign-in is a step of its own, several visits go on     *)
(* at a time, and any of them may fail half-way.  An edit of the account is    *)
(* one step here; StaffScopes shows how it is made.                          *)
(***************************************************************************)
EXTENDS Naturals, FiniteSets

CONSTANTS
  Visits,        \* browsers at the sign-in page of the account
  Products,
  MaxFailures,   \* 10 in recordLoginFailure
  LockFor,       \* its 15 minutes
  SessionTTL,    \* SESSION_TTL_SECONDS
  LoginLimit,    \* the gateway's timeout: the longest sign-in it answers
  MaxGuesses,    \* bound on wrong passwords
  MaxEdits,      \* bound on account edits
  MaxFaults,     \* bound on steps that fail
  Horizon        \* bound on the clock

ASSUME SignInAssumption ==
  /\ IsFiniteSet(Visits)
  /\ {MaxFailures, LockFor, SessionTTL, LoginLimit, MaxGuesses, MaxEdits, MaxFaults,
      Horizon} \subseteq Nat
  /\ MaxFailures > 0 /\ LockFor > 0

VARIABLES
  now,
  account,    \* the support_user row and its support_user_scope rows
  visit,      \* how far each visit is
  guessed,    \* the wrong passwords tried since the last right one and within
              \* LockFor, and the door each was tried at (auxiliary)
  lastHeld,   \* when the account last had a role, a scope, was active (auxiliary)
  guesses, edits, faults

vars == <<now, account, visit, guessed, lastHeld, guesses, edits, faults>>

-----------------------------------------------------------------------------
Roles == {"super_admin", "agent"}

Unlocked == 0

Account == [role : Roles, scopes : SUBSET Products, active : BOOLEAN,
            failures : Nat, lockedUntil : 0..(Horizon + LockFor)]

(* What an account is good for.                                              *)
Authority == Roles \cup Products \cup {"active"}

Held(acc) ==
  {acc.role} \cup acc.scopes \cup (IF acc.active THEN {"active"} ELSE {})

Out == [stage |-> "out"]

Times == 0..Horizon

Lookup == [stage : {"row"}, role : Roles, lockedUntil : 0..(Horizon + LockFor), since : Times]

Attempt == [stage : {"read", "passing", "passed"}, role : Roles,
            scopes : SUBSET Products, lockedUntil : 0..(Horizon + LockFor), since : Times]

Failing == [stage : {"failing"}, since : Times]

Guess == [number : 1..MaxGuesses, at : Times, door : {"sign-in", "session"}]

Session == [stage : {"in"}, role : Roles, scopes : SUBSET Products, exp : 0..(Horizon + SessionTTL)]

(* Every variable holds a value of its type, and a lock comes with the        *)
(* failures that set it.                                                     *)
SignInTypeOK ==
  /\ now \in Times
  /\ account \in Account
  /\ account.lockedUntil # Unlocked => account.failures >= MaxFailures
  /\ visit \in [Visits -> {Out} \cup Lookup \cup Attempt \cup Failing \cup Session]
  /\ guessed \subseteq Guess
  /\ lastHeld \in [Authority -> Times \cup {Horizon + 1}]
  /\ guesses \in 0..MaxGuesses
  /\ edits \in 0..MaxEdits
  /\ faults \in 0..MaxFaults

Never == Horizon + 1

Init ==
  /\ now = 0
  /\ \E role \in Roles, scopes \in SUBSET Products :
       account = [role |-> role, scopes |-> scopes, active |-> TRUE, failures |-> 0,
                  lockedUntil |-> Unlocked]
  /\ visit = [v \in Visits |-> Out]
  /\ guessed = {}
  /\ lastHeld = [x \in Authority |-> IF x \in Held(account) THEN 0 ELSE Never]
  /\ guesses = 0
  /\ edits = 0
  /\ faults = 0

-----------------------------------------------------------------------------
(* POST /admin/api/auth/login.                                               *)

(* findByEmailForAuth reads the row; an inactive account ends it here.        *)
FindByEmail(v) ==
  /\ visit[v] = Out
  /\ account.active
  /\ visit' = [visit EXCEPT ![v] = [stage |-> "row", role |-> account.role,
                                    lockedUntil |-> account.lockedUntil, since |-> now]]
  /\ UNCHANGED <<now, account, guessed, lastHeld, guesses, edits, faults>>

(* scopesFor, a statement of its own in the same transaction.                *)
ScopesFor(v) ==
  /\ visit[v].stage = "row"
  /\ visit' = [visit EXCEPT ![v] = [stage |-> "read", role |-> @.role, scopes |-> account.scopes,
                                    lockedUntil |-> @.lockedUntil, since |-> @.since]]
  /\ UNCHANGED <<now, account, guessed, lastHeld, guesses, edits, faults>>

Locked(until) == until # Unlocked /\ until > now

(* A wrong password is tried at the sign-in page or inside a session.         *)
Guessed(door) ==
  /\ guesses < MaxGuesses
  /\ guesses' = guesses + 1
  /\ guessed' = guessed \cup {[number |-> guesses', at |-> now, door |-> door]}

(* The verdict on what was read: locked, wrong password or right one.        *)
Judge(v) ==
  /\ visit[v].stage = "read"
  /\ \/ /\ Locked(visit[v].lockedUntil)
        /\ visit' = [visit EXCEPT ![v] = Out]
        /\ UNCHANGED <<guessed, guesses>>
     \/ /\ ~Locked(visit[v].lockedUntil)
        /\ Guessed("sign-in")
        /\ visit' = [visit EXCEPT ![v] = [stage |-> "failing", since |-> @.since]]
     \/ /\ ~Locked(visit[v].lockedUntil)
        /\ visit' = [visit EXCEPT ![v].stage = "passing", ![v].lockedUntil = Unlocked]
        /\ UNCHANGED <<guessed, guesses>>
  /\ UNCHANGED <<now, account, lastHeld, edits, faults>>

(* A variant of LocksAt that lets one more failure pass.                     *)
LocksAfter(count) == count > MaxFailures

LocksAt(count) == count >= MaxFailures

RecordLoginFailure(v) ==
  /\ visit[v].stage = "failing"
  /\ account' = [account EXCEPT !.failures = @ + 1,
       !.lockedUntil = IF LocksAt(account.failures + 1) THEN now + LockFor ELSE @]
  /\ visit' = [visit EXCEPT ![v] = Out]
  /\ UNCHANGED <<now, guessed, lastHeld, guesses, edits, faults>>

Reset(acc) == [acc EXCEPT !.failures = 0, !.lockedUntil = Unlocked]

RecordLoginSuccess(v) ==
  /\ visit[v].stage = "passing"
  /\ account' = Reset(account)
  /\ guessed' = {}
  /\ visit' = [visit EXCEPT ![v].stage = "passed"]
  /\ UNCHANGED <<now, lastHeld, guesses, edits, faults>>

(* A super_admin is scoped to every active product.                          *)
EffectiveScopes(role, scopes) == IF role = "super_admin" THEN Products ELSE scopes

(* issueSession; the audit row that follows only delays the cookie.           *)
IssueSession(v) ==
  /\ visit[v].stage = "passed"
  /\ visit' = [visit EXCEPT ![v] = [stage |-> "in", role |-> @.role,
                                    scopes |-> EffectiveScopes(@.role, @.scopes),
                                    exp |-> now + SessionTTL]]
  /\ UNCHANGED <<now, account, guessed, lastHeld, guesses, edits, faults>>

(* A statement fails, or the process stops: what is committed stays.          *)
SignInFails(v) ==
  /\ faults < MaxFaults
  /\ visit[v].stage \in {"row", "read", "failing", "passing", "passed"}
  /\ visit' = [visit EXCEPT ![v] = Out]
  /\ faults' = faults + 1
  /\ UNCHANGED <<now, account, guessed, lastHeld, guesses, edits>>

-----------------------------------------------------------------------------
(* With a session.                                                           *)

(* A variant of Valid that goes by the signature alone.                      *)
ValidForever(session) == session.stage = "in"

(* verifySession of the gateway.                                             *)
Valid(session) == session.stage = "in" /\ session.exp >= now

(* resolveAdminCaller turns down staff without a tenant; nothing is looked up  *)
(* in the database again.                                                    *)
Admitted(v) ==
  /\ Valid(visit[v])
  /\ visit[v].role = "super_admin" \/ visit[v].scopes # {}

(* POST /admin/api/auth/change-password, for an account that is still active.  *)
(* The right current password resets the counter, and the sessions that are    *)
(* out there stay valid; a wrong one is neither counted nor stopped by a lock. *)
ChangePassword(v) ==
  /\ Valid(visit[v])
  /\ account.active
  /\ \/ /\ account' = Reset(account)
        /\ guessed' = {}
        /\ UNCHANGED guesses
     \/ Guessed("session") /\ UNCHANGED account
  /\ UNCHANGED <<now, visit, lastHeld, edits, faults>>

(* POST /admin/api/auth/logout clears the cookie of the browser.             *)
Logout(v) ==
  /\ visit[v].stage = "in"
  /\ visit' = [visit EXCEPT ![v] = Out]
  /\ UNCHANGED <<now, account, guessed, lastHeld, guesses, edits, faults>>

Touched(acc) ==
  lastHeld' = [x \in Authority |-> IF x \in Held(account) \cup Held(acc) THEN now ELSE lastHeld[x]]

(* PATCH /admin/api/users/:id by an administrator.                           *)
EditAccount ==
  /\ edits < MaxEdits
  /\ \E role \in Roles, scopes \in SUBSET Products, active \in BOOLEAN :
       LET acc == [account EXCEPT !.role = role, !.scopes = scopes, !.active = active]
       IN account' = acc /\ acc # account /\ Touched(acc)
  /\ edits' = edits + 1
  /\ UNCHANGED <<now, visit, guessed, guesses, faults>>

UnderWay(v) == visit[v].stage \notin {"out", "in"}

Tick ==
  /\ now < Horizon
  /\ \A v \in Visits : UnderWay(v) => now - visit[v].since < LoginLimit
  /\ now' = now + 1
  /\ guessed' = {g \in guessed : g.at + LockFor > now + 1}
  /\ lastHeld' = [x \in Authority |-> IF x \in Held(account) THEN now + 1 ELSE lastHeld[x]]
  /\ UNCHANGED <<account, visit, guesses, edits, faults>>

-----------------------------------------------------------------------------
SignInStep(v) ==
  \/ FindByEmail(v) \/ ScopesFor(v) \/ Judge(v) \/ RecordLoginFailure(v)
  \/ RecordLoginSuccess(v) \/ IssueSession(v) \/ SignInFails(v)

SessionStep(v) == ChangePassword(v) \/ Logout(v)

Next == (\E v \in Visits : SignInStep(v) \/ SessionStep(v)) \/ EditAccount \/ Tick

Spec == Init /\ [][Next]_vars

-----------------------------------------------------------------------------
(* Properties.                                                               *)

(* Whoever is admitted acts under a role, scopes and an account that were      *)
(* there no longer ago than a session and a sign-in may last: a demotion or    *)
(* deactivation bites in the end, and a sign-in that raced it is no way round. *)
AuthorityRunsOut ==
  \A v \in Visits : Admitted(v) =>
    \A x \in {visit[v].role, "active"} \cup (IF visit[v].role = "agent" THEN visit[v].scopes ELSE {}) :
      lastHeld[x] # Never /\ now <= lastHeld[x] + SessionTTL + LoginLimit

AtSignIn == {g \in guessed : g.door = "sign-in"}

(* From one right password to the next (a sign-in or a change of password     *)
(* starts the counter again), no more wrong ones are tried at the sign-in page *)
(* within the time of a lock than fill the counter and then one per visit      *)
(* under way, and those whose record failed: neither the race of the lookups    *)
(* nor the counter that survives the lock opens the page to more, and those     *)
(* tried at change-password, which nothing bounds, take none of it off.         *)
GuessesBounded ==
  Cardinality(AtSignIn) <= MaxFailures - 1 + Cardinality(Visits) + faults
=============================================================================
