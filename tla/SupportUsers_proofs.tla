------------------------- MODULE SupportUsers_proofs -------------------------
(***************************************************************************)
(* Proofs about the accounts of support users, for any number of visits,    *)
(* edits and tenants.                                                       *)
(*                                                                          *)
(* SignIn: its type invariant; that the authority of a session runs out; and *)
(* how many guesses the sign-in page lets through.  The second invariant follows what *)
(* a sign-in has read from the moment it was true to the cookie it ends in, *)
(* the third weighs the guesses against the failures counted and the sign-ins *)
(* that may guess yet, at every time to come.                               *)
(*                                                                          *)
(* StaffScopes: what an edit holds in its hands is within its caller's reach, *)
(* and so is what it changes; and an edit of scopes replaces the caller's part *)
(* of the account's tenants, but for what other edits did in between.       *)
(***************************************************************************)
EXTENDS SignIn, StaffScopes, FiniteSetTheorems, TLAPS

-----------------------------------------------------------------------------
(* Sign-ins.                                                                *)

(* The guesses are numbered in the order they were judged.                  *)
Counted == \A g \in guessed : g.number <= guesses

TypeInv == SignInTypeOK /\ Counted

Visit == {Out} \cup Lookup \cup Attempt \cup Failing \cup Session

LEMMA AccountTypes ==
  ASSUME SignInTypeOK
  PROVE  /\ account.role \in Roles /\ account.scopes \in SUBSET Products
         /\ account.active \in BOOLEAN /\ account.failures \in Nat
         /\ account.lockedUntil \in 0..(Horizon + LockFor)
         /\ now \in Times /\ now \in Nat
BY DEF SignInTypeOK, Account, Times

LEMMA Bounds ==
  /\ MaxFailures \in Nat /\ LockFor \in Nat /\ SessionTTL \in Nat /\ LoginLimit \in Nat
  /\ MaxGuesses \in Nat /\ MaxEdits \in Nat /\ MaxFaults \in Nat /\ Horizon \in Nat
  /\ MaxFailures > 0 /\ LockFor > 0
  BY SignInAssumption

LEMMA SignInTypeInit == Init => TypeInv
<1> USE Bounds DEF Init
<1>0. Init => guesses \in 0..MaxGuesses /\ edits \in 0..MaxEdits /\ faults \in 0..MaxFaults
  OBVIOUS
<1>1. Init => 0 \in Times /\ now = 0 /\ 0 \in Nat /\ 0 <= Horizon + LockFor
  BY DEF Times
<1>2. Init => /\ account \in Account
              /\ account.lockedUntil # Unlocked => account.failures >= MaxFailures
  BY <1>1 DEF Account, Unlocked
<1>3. Init => visit \in [Visits -> Visit]
  BY DEF Visit
<1>4. Init => guessed \subseteq Guess /\ Counted
  BY DEF Counted
<1>5. Init => lastHeld \in [Authority -> Times \cup {Horizon + 1}]
  BY <1>1 DEF Never
<1> QED BY <1>0, <1>1, <1>2, <1>3, <1>4, <1>5 DEF TypeInv, SignInTypeOK, Visit

(* What a sign-in in each of its stages has read.                           *)
LEMMA VisitTypes ==
  ASSUME SignInTypeOK, NEW v \in Visits
  PROVE  /\ visit[v] \in Visit
         /\ visit[v].stage = "row" => visit[v] \in Lookup
         /\ visit[v].stage \in {"read", "passing", "passed"} => visit[v] \in Attempt
         /\ visit[v].stage = "failing" => visit[v] \in Failing
         /\ visit[v].stage = "in" => visit[v] \in Session
<1>1. visit[v] \in Visit
  BY DEF SignInTypeOK, Visit
<1>2. CASE visit[v] = Out
  BY <1>1, <1>2 DEF Out
<1>3. CASE visit[v] \in Lookup
  BY <1>1, <1>3 DEF Lookup
<1>4. CASE visit[v] \in Attempt
  BY <1>1, <1>4 DEF Attempt
<1>5. CASE visit[v] \in Failing
  BY <1>1, <1>5 DEF Failing
<1>6. CASE visit[v] \in Session
  BY <1>1, <1>6 DEF Session
<1> QED BY <1>1, <1>2, <1>3, <1>4, <1>5, <1>6 DEF Visit

(* A step of one visit, as far as the visits go.                            *)
LEMMA VisitMoves ==
  ASSUME TypeInv, NEW v \in Visits, SignInStep(v) \/ SessionStep(v)
  PROVE  visit' \in [Visits -> Visit]
<1> USE Bounds
<1>0. /\ visit \in [Visits -> Visit] /\ now \in Times
      /\ account.role \in Roles /\ account.scopes \in SUBSET Products
      /\ account.lockedUntil \in 0..(Horizon + LockFor)
  BY AccountTypes DEF TypeInv, SignInTypeOK, Visit
<1>1. Out \in Visit
  BY DEF Visit
<1>2. ASSUME NEW x \in Visit, visit' = [visit EXCEPT ![v] = x] PROVE visit' \in [Visits -> Visit]
  BY <1>0, <1>2
<1>3. CASE FindByEmail(v)
  <2>1. [stage |-> "row", role |-> account.role, lockedUntil |-> account.lockedUntil,
         since |-> now] \in Visit
    BY <1>0 DEF Visit, Lookup
  <2> QED BY <1>2, <1>3, <2>1 DEF FindByEmail
<1>4. CASE ScopesFor(v)
  <2>1. visit[v] \in Lookup
    BY <1>4, VisitTypes DEF TypeInv, ScopesFor
  <2>2. [stage |-> "read", role |-> visit[v].role, scopes |-> account.scopes,
         lockedUntil |-> visit[v].lockedUntil, since |-> visit[v].since] \in Attempt
    BY <1>0, <2>1 DEF Lookup, Attempt
  <2> QED BY <1>2, <1>4, <2>2 DEF ScopesFor, Visit
<1>5. CASE Judge(v)
  <2>1. visit[v] \in Attempt
    BY <1>5, VisitTypes DEF TypeInv, Judge
  <2>2. [stage |-> "failing", since |-> visit[v].since] \in Visit
    BY <2>1 DEF Attempt, Failing, Visit
  <2>3. [visit[v] EXCEPT !.stage = "passing", !.lockedUntil = Unlocked] \in Visit
    <3>1. Unlocked \in 0..(Horizon + LockFor)
      BY DEF Unlocked
    <3>2. [visit[v] EXCEPT !.stage = "passing", !.lockedUntil = Unlocked] \in Attempt
      BY <2>1, <3>1 DEF Attempt
    <3> QED BY <3>2 DEF Visit
  <2>4. CASE visit' = [visit EXCEPT ![v].stage = "passing", ![v].lockedUntil = Unlocked]
    <3>1. visit' = [visit EXCEPT ![v] = [visit[v] EXCEPT !.stage = "passing",
                                                         !.lockedUntil = Unlocked]]
      BY <1>0, <2>4
    <3> QED BY <1>2, <2>3, <3>1
  <2>5. CASE visit' = [visit EXCEPT ![v] = Out]
    BY <1>1, <1>2, <2>5
  <2>6. CASE visit' = [visit EXCEPT ![v] = [stage |-> "failing", since |-> visit[v].since]]
    BY <1>2, <2>2, <2>6
  <2> QED BY <1>5, <2>4, <2>5, <2>6 DEF Judge
<1>6. CASE RecordLoginFailure(v) \/ SignInFails(v) \/ Logout(v)
  BY <1>1, <1>2, <1>6 DEF RecordLoginFailure, SignInFails, Logout
<1>7. CASE RecordLoginSuccess(v)
  <2>1. visit[v] \in Attempt
    BY <1>7, VisitTypes DEF TypeInv, RecordLoginSuccess
  <2>2. [visit[v] EXCEPT !.stage = "passed"] \in Visit
    BY <2>1 DEF Attempt, Visit
  <2> QED BY <1>2, <1>7, <2>2 DEF RecordLoginSuccess
<1>8. CASE IssueSession(v)
  <2>1. visit[v] \in Attempt
    BY <1>8, VisitTypes DEF TypeInv, IssueSession
  <2>2. /\ visit[v].role \in Roles
        /\ EffectiveScopes(visit[v].role, visit[v].scopes) \in SUBSET Products
        /\ now + SessionTTL \in 0..(Horizon + SessionTTL)
    BY <1>0, <2>1 DEF Attempt, EffectiveScopes, Times
  <2>3. [stage |-> "in", role |-> visit[v].role,
         scopes |-> EffectiveScopes(visit[v].role, visit[v].scopes),
         exp |-> now + SessionTTL] \in Session
    BY <2>2 DEF Session
  <2> QED BY <1>2, <1>8, <2>3 DEF IssueSession, Visit
<1>9. CASE ChangePassword(v)
  BY <1>0, <1>9 DEF ChangePassword
<1> QED BY <1>3, <1>4, <1>5, <1>6, <1>7, <1>8, <1>9 DEF SignInStep, SessionStep

LEMMA AccountMoves ==
  ASSUME TypeInv, NEW v \in Visits, SignInStep(v) \/ SessionStep(v)
  PROVE  /\ account' \in Account
         /\ (account'.lockedUntil # Unlocked => account'.failures >= MaxFailures)
         /\ account'.role = account.role /\ account'.scopes = account.scopes
         /\ account'.active = account.active
         /\ UNCHANGED <<now, lastHeld, edits>>
<1> USE Bounds
<1>1. /\ account \in Account /\ account.failures \in Nat /\ now \in Times
      /\ (account.lockedUntil # Unlocked => account.failures >= MaxFailures)
  BY AccountTypes DEF TypeInv, SignInTypeOK
<1>2. UNCHANGED <<now, lastHeld, edits>>
  BY DEF SignInStep, SessionStep, FindByEmail, ScopesFor, Judge, RecordLoginFailure,
         RecordLoginSuccess, IssueSession, SignInFails, ChangePassword, Logout
<1>3. CASE account' = account
  BY <1>1, <1>2, <1>3
<1>4. CASE account' = Reset(account)
  <2>1. Unlocked \in 0..(Horizon + LockFor) /\ 0 \in Nat
    BY DEF Unlocked
  <2>2. Reset(account) \in Account
    BY <1>1, <2>1 DEF Reset, Account
  <2> QED BY <1>1, <1>2, <1>4, <2>2 DEF Reset, Account
<1>5. CASE RecordLoginFailure(v)
  <2>1. account.failures + 1 \in Nat /\ now + LockFor \in 0..(Horizon + LockFor)
    BY <1>1 DEF Times
  <2>2. PICK until \in {now + LockFor, account.lockedUntil} :
          /\ until = IF LocksAt(account.failures + 1) THEN now + LockFor ELSE account.lockedUntil
          /\ account' = [account EXCEPT !.failures = account.failures + 1, !.lockedUntil = until]
    BY <1>5 DEF RecordLoginFailure
  <2>3. account.lockedUntil \in 0..(Horizon + LockFor)
    BY AccountTypes DEF TypeInv
  <2>4. account' \in Account
    BY <1>1, <2>1, <2>2, <2>3 DEF Account
  <2>5. /\ account'.lockedUntil = until /\ account'.failures = account.failures + 1
        /\ account'.role = account.role /\ account'.scopes = account.scopes
        /\ account'.active = account.active
    BY <1>1, <2>2 DEF Account
  <2>6. account'.lockedUntil # Unlocked => account'.failures >= MaxFailures
    BY <1>1, <2>1, <2>2, <2>5 DEF LocksAt
  <2> QED BY <1>2, <2>4, <2>5, <2>6
<1> QED BY <1>3, <1>4, <1>5
        DEF SignInStep, SessionStep, FindByEmail, ScopesFor, Judge, RecordLoginSuccess,
            IssueSession, SignInFails, ChangePassword, Logout

LEMMA GuessMoves ==
  ASSUME TypeInv, NEW v \in Visits, SignInStep(v) \/ SessionStep(v)
  PROVE  /\ guessed' \subseteq Guess /\ Counted'
         /\ guesses' \in 0..MaxGuesses /\ faults' \in 0..MaxFaults
<1> USE Bounds
<1>1. /\ guessed \subseteq Guess /\ guesses \in 0..MaxGuesses /\ now \in Times
      /\ faults \in 0..MaxFaults /\ Counted
  BY DEF TypeInv, SignInTypeOK
<1>2. faults' \in 0..MaxFaults
  BY <1>1 DEF SignInStep, SessionStep, FindByEmail, ScopesFor, Judge, RecordLoginFailure,
              RecordLoginSuccess, IssueSession, SignInFails, ChangePassword, Logout
<1>3. CASE UNCHANGED <<guessed, guesses>>
  BY <1>1, <1>2, <1>3 DEF Counted
<1>4. CASE guessed' = {} /\ guesses' = guesses
  BY <1>1, <1>2, <1>4 DEF Counted
<1>5. ASSUME NEW door \in {"sign-in", "session"}, Guessed(door)
      PROVE  /\ guessed' \subseteq Guess /\ Counted'
             /\ guesses' \in 0..MaxGuesses /\ faults' \in 0..MaxFaults
  <2>0. /\ guesses < MaxGuesses /\ guesses' = guesses + 1
        /\ guessed' = guessed \cup {[number |-> guesses', at |-> now, door |-> door]}
    BY <1>5 DEF Guessed
  <2>1. guesses' \in 1..MaxGuesses
    BY <1>1, <2>0
  <2>2. [number |-> guesses', at |-> now, door |-> door] \in Guess
    BY <1>1, <2>1 DEF Guess
  <2>3. \A g \in guessed : g.number \in Nat /\ g.number <= guesses'
    BY <1>1, <2>0 DEF Counted, Guess
  <2>4. Counted'
    BY <2>0, <2>1, <2>3 DEF Counted
  <2> QED BY <1>1, <1>2, <2>0, <2>1, <2>2, <2>4
<1> QED BY <1>3, <1>4, <1>5
        DEF SignInStep, SessionStep, FindByEmail, ScopesFor, Judge, RecordLoginFailure,
            RecordLoginSuccess, IssueSession, SignInFails, ChangePassword, Logout

(* An edit and a tick, as far as the types go.                              *)
LEMMA HeldTypes ==
  ASSUME NEW acc \in Account
  PROVE  Held(acc) \subseteq Authority
BY DEF Held, Authority, Account

LEMMA SignInTypeStep == TypeInv /\ [Next]_vars => TypeInv'
<1> SUFFICES ASSUME TypeInv, [Next]_vars PROVE TypeInv'
  OBVIOUS
<1> USE Bounds
<1>1. SignInTypeOK /\ Counted /\ visit \in [Visits -> Visit]
  BY DEF TypeInv, SignInTypeOK, Visit
<1>2. ASSUME NEW v \in Visits, SignInStep(v) \/ SessionStep(v) PROVE TypeInv'
  <2>1. visit' \in [Visits -> Visit]
    BY <1>2, VisitMoves
  <2>2. /\ account' \in Account
        /\ account'.lockedUntil # Unlocked => account'.failures >= MaxFailures
        /\ UNCHANGED <<now, lastHeld, edits>>
    BY <1>2, AccountMoves
  <2>3. /\ guessed' \subseteq Guess /\ Counted'
        /\ guesses' \in 0..MaxGuesses /\ faults' \in 0..MaxFaults
    BY <1>2, GuessMoves
  <2> QED BY <1>1, <2>1, <2>2, <2>3 DEF TypeInv, SignInTypeOK, Visit
<1>3. CASE EditAccount
  <2>1. PICK role \in Roles, scopes \in SUBSET Products, active \in BOOLEAN :
          /\ account' = [account EXCEPT !.role = role, !.scopes = scopes, !.active = active]
          /\ Touched(account')
    BY <1>3 DEF EditAccount
  <2>2. account \in Account
    BY <1>1 DEF SignInTypeOK
  <2>3. /\ account' \in Account /\ account'.failures = account.failures
        /\ account'.lockedUntil = account.lockedUntil
    BY <2>1, <2>2 DEF Account
  <2>4. lastHeld' \in [Authority -> Times \cup {Horizon + 1}]
    BY <1>1, <2>1 DEF Touched, SignInTypeOK
  <2>5. edits' \in 0..MaxEdits /\ UNCHANGED <<now, visit, guessed, guesses, faults>>
    BY <1>1, <1>3 DEF EditAccount, SignInTypeOK
  <2> QED BY <1>1, <2>3, <2>4, <2>5 DEF TypeInv, SignInTypeOK, Counted
<1>4. CASE Tick
  <2>1. now + 1 \in Times /\ now' = now + 1
    BY <1>1, <1>4 DEF Tick, SignInTypeOK, Times
  <2>2. lastHeld' \in [Authority -> Times \cup {Horizon + 1}]
    BY <1>1, <1>4, <2>1 DEF Tick, SignInTypeOK
  <2>3. guessed' \subseteq guessed /\ guesses' = guesses
    BY <1>4 DEF Tick
  <2>4. UNCHANGED <<account, visit, guesses, edits, faults>>
    BY <1>4 DEF Tick
  <2> QED BY <1>1, <2>1, <2>2, <2>3, <2>4 DEF TypeInv, SignInTypeOK, Counted
<1>5. CASE UNCHANGED vars
  BY <1>1, <1>5 DEF vars, TypeInv, SignInTypeOK, Counted
<1> QED BY <1>2, <1>3, <1>4, <1>5 DEF Next

LEMMA SignInTypes == Spec => []TypeInv
  BY SignInTypeInit, SignInTypeStep, PTL DEF Spec

(* Every variable of a sign-in holds a value of its type, and an account is *)
(* only ever locked with its failures counted, whatever visits, edits and   *)
(* failing steps interleave.                                                *)
THEOREM SignInTypeCorrect == Spec => []SignInTypeOK
<1>1. TypeInv => SignInTypeOK
  BY DEF TypeInv
<1> QED BY <1>1, SignInTypes, PTL

-----------------------------------------------------------------------------
(* Authority runs out.                                                      *)

(* The account held x at time t or later.                                   *)
HeldSince(x, t) == lastHeld[x] # Never /\ t <= lastHeld[x]

(* What a sign-in has read was held when it began, or later, and it began no *)
(* longer ago than a sign-in may last.                                      *)
SignInOK(v) ==
  visit[v].stage \in {"row", "read", "passing", "passed"} =>
    /\ visit[v].since <= now /\ now <= visit[v].since + LoginLimit
    /\ HeldSince(visit[v].role, visit[v].since) /\ HeldSince("active", visit[v].since)
    /\ visit[v].stage # "row" => \A x \in visit[v].scopes : HeldSince(x, visit[v].since)

(* What a session is good for was held no earlier than its cookie allows.   *)
SessionOK(v) ==
  visit[v].stage = "in" =>
    \A x \in {visit[v].role, "active"}
               \cup (IF visit[v].role = "agent" THEN visit[v].scopes ELSE {}) :
      lastHeld[x] # Never /\ visit[v].exp <= lastHeld[x] + SessionTTL + LoginLimit

(* What the account holds it holds now, and nothing was held in the future. *)
HoldsNow ==
  /\ \A x \in Held(account) : lastHeld[x] = now
  /\ \A x \in Authority : lastHeld[x] = Never \/ lastHeld[x] <= now

AuthorityInv == HoldsNow /\ \A v \in Visits : SignInOK(v) /\ SessionOK(v)

(* The history only moves forward.                                          *)
Later == \A x \in Authority :
  lastHeld[x] # Never => lastHeld'[x] # Never /\ lastHeld[x] <= lastHeld'[x]

LEMMA Clocked ==
  ASSUME SignInTypeOK
  PROVE  /\ now \in Nat /\ now # Never
         /\ \A x \in Authority : lastHeld[x] \in Nat
         /\ Held(account) \subseteq Authority /\ "active" \in Authority
<1> USE Bounds
<1>1. now \in Nat /\ now # Never
  BY DEF SignInTypeOK, Times, Never
<1>2. \A x \in Authority : lastHeld[x] \in Times \cup {Horizon + 1}
  BY DEF SignInTypeOK
<1>3. Times \cup {Horizon + 1} \subseteq Nat
  BY DEF Times
<1> QED BY <1>1, <1>2, <1>3, HeldTypes DEF SignInTypeOK, Authority

(* What a visit has read is authority.                                      *)
LEMMA ReadTypes ==
  ASSUME SignInTypeOK, NEW v \in Visits
  PROVE  /\ visit[v].stage \in {"row", "read", "passing", "passed"} =>
              visit[v].role \in Authority /\ visit[v].since \in Nat
         /\ visit[v].stage \in {"read", "passing", "passed", "in"} =>
              visit[v].role \in Authority /\ visit[v].scopes \subseteq Authority
         /\ visit[v].stage = "in" => visit[v].exp \in Nat
<1> USE Bounds
<1>1. CASE visit[v].stage = "row"
  BY <1>1, VisitTypes DEF Lookup, Authority, Times
<1>2. CASE visit[v].stage \in {"read", "passing", "passed"}
  BY <1>2, VisitTypes DEF Attempt, Authority, Times
<1>3. CASE visit[v].stage = "in"
  BY <1>3, VisitTypes DEF Session, Authority
<1> QED BY <1>1, <1>2, <1>3

(* A visit that stays as it is keeps what was known of it while the clock   *)
(* stands, or moves within the time of a sign-in.                           *)
LEMMA VisitStays ==
  ASSUME SignInTypeOK, NEW v \in Visits, SignInOK(v), SessionOK(v), Later,
         SignInTypeOK', visit'[v] = visit[v],
         \/ now' = now
         \/ now' = now + 1 /\ (UnderWay(v) => now - visit[v].since < LoginLimit)
  PROVE  SignInOK(v)' /\ SessionOK(v)'
<1> USE Bounds
<1>1. /\ now \in Nat /\ now' \in Nat /\ "active" \in Authority
      /\ \A x \in Authority : lastHeld[x] \in Nat /\ lastHeld'[x] \in Nat
  <2>1. \A x \in Authority : lastHeld'[x] \in Times \cup {Horizon + 1}
    BY DEF SignInTypeOK
  <2> QED BY <2>1, Clocked DEF Times
<1>2. ASSUME NEW x \in Authority, NEW t \in Nat, HeldSince(x, t) PROVE HeldSince(x, t)'
  BY <1>1, <1>2 DEF HeldSince, Later
<1>3. SignInOK(v)'
  <2> SUFFICES ASSUME visit[v].stage \in {"row", "read", "passing", "passed"}
               PROVE  /\ visit[v].since <= now' /\ now' <= visit[v].since + LoginLimit
                      /\ HeldSince(visit[v].role, visit[v].since)'
                      /\ HeldSince("active", visit[v].since)'
                      /\ visit[v].stage # "row" =>
                           \A x \in visit[v].scopes : HeldSince(x, visit[v].since)'
    BY DEF SignInOK, HeldSince
  <2>1. /\ visit[v].since \in Nat /\ visit[v].role \in Authority
        /\ visit[v].stage # "row" => visit[v].scopes \subseteq Authority
    BY ReadTypes
  <2>2. visit[v].since <= now' /\ now' <= visit[v].since + LoginLimit
    BY <1>1, <2>1 DEF SignInOK, UnderWay
  <2>3. HeldSince(visit[v].role, visit[v].since)' /\ HeldSince("active", visit[v].since)'
    BY <1>1, <1>2, <2>1 DEF SignInOK, HeldSince
  <2>4. ASSUME visit[v].stage # "row", NEW x \in visit[v].scopes
        PROVE  HeldSince(x, visit[v].since)'
    BY <1>1, <1>2, <2>1, <2>4 DEF SignInOK, HeldSince
  <2> QED BY <2>2, <2>3, <2>4
<1>4. SessionOK(v)'
  <2> SUFFICES ASSUME visit[v].stage = "in",
                      NEW x \in {visit[v].role, "active"}
                                  \cup (IF visit[v].role = "agent" THEN visit[v].scopes ELSE {})
               PROVE  lastHeld'[x] # Never
                      /\ visit[v].exp <= lastHeld'[x] + SessionTTL + LoginLimit
    BY DEF SessionOK
  <2>1. x \in Authority /\ visit[v].exp \in Nat
    BY <1>1, ReadTypes
  <2>2. lastHeld[x] # Never /\ visit[v].exp <= lastHeld[x] + SessionTTL + LoginLimit
    BY DEF SessionOK
  <2> QED BY <1>1, <2>1, <2>2 DEF Later
<1> QED BY <1>3, <1>4

(* A step of a sign-in keeps what is known of its own visit.                *)
LEMMA VisitSteps ==
  ASSUME SignInTypeOK, HoldsNow, NEW v \in Visits, SignInOK(v), SessionOK(v),
         SignInStep(v) \/ SessionStep(v), UNCHANGED <<now, lastHeld>>
  PROVE  SignInOK(v)' /\ SessionOK(v)'
<1> USE Bounds
<1>1. /\ now \in Nat /\ now # Never /\ visit \in [Visits -> Visit]
      /\ \A x \in Authority : lastHeld[x] \in Nat
      /\ Held(account) \subseteq Authority
  BY Clocked DEF SignInTypeOK, Visit
<1>2. CASE visit' = [visit EXCEPT ![v] = Out]
  BY <1>1, <1>2 DEF SignInOK, SessionOK, Out
<1>3. CASE FindByEmail(v)
  <2>1. /\ visit'[v].stage = "row" /\ visit'[v].role = account.role /\ visit'[v].since = now
        /\ account.active
    BY <1>1, <1>3 DEF FindByEmail
  <2>2. account.role \in Held(account) /\ "active" \in Held(account)
    BY <2>1 DEF Held
  <2> QED BY <1>1, <2>1, <2>2 DEF SignInOK, SessionOK, HoldsNow, HeldSince
<1>4. CASE ScopesFor(v)
  <2>1. /\ visit[v].stage = "row" /\ visit'[v].stage = "read"
        /\ visit'[v].role = visit[v].role /\ visit'[v].since = visit[v].since
        /\ visit'[v].scopes = account.scopes
    BY <1>1, <1>4 DEF ScopesFor
  <2>2. account.scopes \subseteq Held(account)
    BY DEF Held
  <2> QED BY <1>1, <2>1, <2>2 DEF SignInOK, SessionOK, HoldsNow, HeldSince
<1>5. ASSUME visit[v].stage \in {"read", "passing"}, visit[v] \in Attempt,
             visit'[v].stage \in {"passing", "passed"},
             visit'[v].role = visit[v].role, visit'[v].scopes = visit[v].scopes,
             visit'[v].since = visit[v].since
      PROVE  SignInOK(v)' /\ SessionOK(v)'
  BY <1>5 DEF SignInOK, SessionOK, HeldSince
<1>6. CASE Judge(v)
  <2>1. visit[v].stage = "read" /\ visit[v] \in Attempt
    BY <1>6, VisitTypes DEF Judge
  <2>2. CASE visit' = [visit EXCEPT ![v].stage = "passing", ![v].lockedUntil = Unlocked]
    <3>1. visit'[v] = [visit[v] EXCEPT !.stage = "passing", !.lockedUntil = Unlocked]
      BY <1>1, <2>2
    <3> QED BY <1>5, <2>1, <3>1 DEF Attempt
  <2>3. CASE visit' = [visit EXCEPT ![v] = [stage |-> "failing", since |-> visit[v].since]]
    BY <1>1, <2>3 DEF SignInOK, SessionOK
  <2> QED BY <1>2, <1>6, <2>2, <2>3 DEF Judge
<1>7. CASE RecordLoginSuccess(v)
  <2>1. visit[v].stage = "passing" /\ visit[v] \in Attempt
    BY <1>7, VisitTypes DEF RecordLoginSuccess
  <2>2. visit'[v] = [visit[v] EXCEPT !.stage = "passed"]
    BY <1>1, <1>7 DEF RecordLoginSuccess
  <2> QED BY <1>5, <2>1, <2>2 DEF Attempt
<1>8. CASE IssueSession(v)
  <2>1. /\ visit[v].stage = "passed" /\ visit'[v].stage = "in"
        /\ visit'[v].role = visit[v].role
        /\ visit'[v].scopes = EffectiveScopes(visit[v].role, visit[v].scopes)
        /\ visit'[v].exp = now + SessionTTL
    BY <1>1, <1>8 DEF IssueSession
  <2>2. /\ visit[v].since \in Nat /\ visit[v].role \in Authority
        /\ visit[v].scopes \subseteq Authority
    BY <2>1, ReadTypes
  <2>3. ASSUME NEW x \in Authority, HeldSince(x, visit[v].since)
        PROVE  lastHeld[x] # Never /\ now + SessionTTL <= lastHeld[x] + SessionTTL + LoginLimit
    BY <1>1, <2>1, <2>2, <2>3 DEF HeldSince, SignInOK
  <2>4. /\ HeldSince(visit[v].role, visit[v].since) /\ HeldSince("active", visit[v].since)
        /\ \A x \in visit[v].scopes : HeldSince(x, visit[v].since)
    BY <2>1 DEF SignInOK
  <2>5. visit'[v].role = "agent" => visit'[v].scopes = visit[v].scopes
    BY <2>1 DEF EffectiveScopes
  <2>6. "active" \in Authority
    BY Clocked
  <2>7. SessionOK(v)'
    BY <2>1, <2>2, <2>3, <2>4, <2>5, <2>6 DEF SessionOK
  <2>8. SignInOK(v)'
    BY <2>1 DEF SignInOK
  <2> QED BY <2>7, <2>8
<1>9. CASE ChangePassword(v)
  BY <1>9 DEF ChangePassword, SignInOK, SessionOK, HeldSince
<1>10. CASE RecordLoginFailure(v) \/ SignInFails(v) \/ Logout(v)
  BY <1>2, <1>10 DEF RecordLoginFailure, SignInFails, Logout
<1> QED BY <1>3, <1>4, <1>6, <1>7, <1>8, <1>9, <1>10 DEF SignInStep, SessionStep

LEMMA VisitsApart ==
  ASSUME NEW v \in Visits, NEW w \in Visits \ {v}, SignInTypeOK, SignInStep(v) \/ SessionStep(v)
  PROVE  visit'[w] = visit[w]
<1>1. visit \in [Visits -> Visit]
  BY DEF SignInTypeOK, Visit
<1> QED BY <1>1 DEF SignInStep, SessionStep, FindByEmail, ScopesFor, Judge, RecordLoginFailure,
        RecordLoginSuccess, IssueSession, SignInFails, ChangePassword, Logout

LEMMA AuthorityStep == TypeInv /\ TypeInv' /\ AuthorityInv /\ [Next]_vars => AuthorityInv'
<1> SUFFICES ASSUME TypeInv, TypeInv', AuthorityInv, [Next]_vars PROVE AuthorityInv'
  OBVIOUS
<1> USE Bounds
<1>1. /\ SignInTypeOK /\ SignInTypeOK' /\ HoldsNow
      /\ \A v \in Visits : SignInOK(v) /\ SessionOK(v)
  BY DEF TypeInv, AuthorityInv
<1>2. /\ now \in Nat /\ now # Never /\ account \in Account
      /\ lastHeld \in [Authority -> Times \cup {Horizon + 1}]
      /\ \A x \in Authority : lastHeld[x] \in Nat
      /\ Held(account) \subseteq Authority
  BY <1>1, Clocked DEF SignInTypeOK
<1>3. ASSUME NEW v \in Visits, SignInStep(v) \/ SessionStep(v) PROVE AuthorityInv'
  <2>1. /\ account'.role = account.role /\ account'.scopes = account.scopes
        /\ account'.active = account.active
        /\ UNCHANGED <<now, lastHeld>>
    BY <1>3, AccountMoves
  <2>2. HoldsNow'
    BY <1>1, <2>1 DEF HoldsNow, Held
  <2>3. Later
    BY <1>2, <2>1 DEF Later
  <2>4. ASSUME NEW w \in Visits \ {v} PROVE SignInOK(w)' /\ SessionOK(w)'
    <3>1. visit'[w] = visit[w]
      BY <1>1, <1>3, VisitsApart
    <3> QED BY <1>1, <2>1, <2>3, <3>1, VisitStays
  <2>5. SignInOK(v)' /\ SessionOK(v)'
    BY <1>1, <1>3, <2>1, VisitSteps
  <2> QED BY <2>2, <2>4, <2>5 DEF AuthorityInv
<1>4. CASE EditAccount
  <2>1. /\ UNCHANGED <<now, visit>>
        /\ lastHeld' = [x \in Authority |-> IF x \in Held(account) \cup Held(account')
                                            THEN now ELSE lastHeld[x]]
    BY <1>4 DEF EditAccount, Touched
  <2>2. Held(account') \subseteq Authority
    BY <1>1, HeldTypes DEF SignInTypeOK
  <2>3. HoldsNow'
    BY <1>1, <1>2, <2>1, <2>2 DEF HoldsNow
  <2>4. Later
    BY <1>1, <1>2, <2>1 DEF Later, HoldsNow
  <2> QED BY <1>1, <2>1, <2>3, <2>4, VisitStays DEF AuthorityInv
<1>5. CASE Tick
  <2>1. /\ now' = now + 1 /\ UNCHANGED <<account, visit>>
        /\ \A v \in Visits : UnderWay(v) => now - visit[v].since < LoginLimit
        /\ lastHeld' = [x \in Authority |-> IF x \in Held(account) THEN now + 1 ELSE lastHeld[x]]
        /\ now < Horizon
    BY <1>5 DEF Tick
  <2>2. now + 1 # Never
    BY <1>2, <2>1 DEF Never
  <2>3. HoldsNow'
    BY <1>1, <1>2, <2>1 DEF HoldsNow
  <2>4. Later
    BY <1>1, <1>2, <2>1, <2>2 DEF Later, HoldsNow
  <2> QED BY <1>1, <2>1, <2>3, <2>4, VisitStays DEF AuthorityInv
<1>6. CASE UNCHANGED vars
  <2>1. UNCHANGED <<now, account, visit, lastHeld>>
    BY <1>6 DEF vars
  <2>2. HoldsNow' /\ Later
    BY <1>1, <1>2, <2>1 DEF HoldsNow, Later
  <2> QED BY <1>1, <2>1, <2>2, VisitStays DEF AuthorityInv
<1> QED BY <1>3, <1>4, <1>5, <1>6 DEF Next

(* Whatever an edit takes away, a role, a tenant or the account itself, no  *)
(* session, not even one whose sign-in raced the edit, acts on it once the  *)
(* time of a session and of a sign-in has passed.                           *)
THEOREM AuthorityEnds == Spec => []AuthorityRunsOut
<1>1. Init => AuthorityInv
  <2>1. Init => \A v \in Visits : SignInOK(v) /\ SessionOK(v)
    BY DEF Init, SignInOK, SessionOK, Out
  <2>2. Init => /\ account \in Account /\ now = 0
                /\ lastHeld = [x \in Authority |-> IF x \in Held(account) THEN 0 ELSE Never]
    BY SignInTypeInit DEF Init, TypeInv, SignInTypeOK
  <2>3. Init => HoldsNow
    BY <2>2, HeldTypes DEF HoldsNow
  <2> QED BY <2>1, <2>3 DEF AuthorityInv
<1>2. TypeInv /\ AuthorityInv => AuthorityRunsOut
  <2> SUFFICES ASSUME TypeInv, AuthorityInv, NEW v \in Visits, Admitted(v),
                      NEW x \in {visit[v].role, "active"}
                                  \cup (IF visit[v].role = "agent" THEN visit[v].scopes ELSE {})
               PROVE  lastHeld[x] # Never /\ now <= lastHeld[x] + SessionTTL + LoginLimit
    BY DEF AuthorityRunsOut
  <2>1. /\ visit[v].stage = "in" /\ now <= visit[v].exp
        /\ lastHeld[x] # Never /\ visit[v].exp <= lastHeld[x] + SessionTTL + LoginLimit
    BY DEF AuthorityInv, SessionOK, Admitted, Valid
  <2>2. visit[v].exp \in Nat /\ now \in Nat /\ x \in Authority /\ lastHeld[x] \in Nat
    BY <2>1, ReadTypes, Clocked DEF TypeInv
  <2> QED BY <2>1, <2>2, Bounds
<1> QED BY <1>1, <1>2, SignInTypes, AuthorityStep, PTL DEF Spec

-----------------------------------------------------------------------------
(* Guesses.                                                                 *)

(* At time T, the guesses that will still count, and the sign-ins that may  *)
(* guess by then for all they have read of a lock.                          *)
Recent(T) == {g \in AtSignIn : g.at + LockFor > T}

Trying(T) ==
  {v \in Visits : visit[v].stage \in {"row", "read"} /\ visit[v].lockedUntil <= T}

Guessing == {v \in Visits : visit[v].stage = "failing"}

(* Below the limit every guess has been counted, is about to be, or was     *)
(* lost.  At the limit this is true of the guesses since the last record,   *)
(* and up to the end of the lock the sign-ins that read nothing of it may   *)
(* each add one to what filled the counter.                                 *)
GuessesWithin(T) ==
  IF account.lockedUntil > T
  THEN Cardinality(Recent(T)) + Cardinality(Trying(T))
         <= MaxFailures - 1 + Cardinality(Visits) + faults
  ELSE Cardinality(Recent(T)) <= Cardinality(Guessing) + faults

GuessInv ==
  /\ IsFiniteSet(AtSignIn)
  /\ \A g \in AtSignIn : g.at <= now /\ g.at + LockFor > now
  /\ account.failures < MaxFailures =>
       Cardinality(AtSignIn) <= account.failures + Cardinality(Guessing) + faults
  /\ account.failures >= MaxFailures => \A T \in Nat : T >= now => GuessesWithin(T)

LEMMA VisitCounts ==
  ASSUME NEW T
  PROVE  /\ IsFiniteSet(Trying(T)) /\ IsFiniteSet(Guessing)
         /\ Cardinality(Trying(T)) \in Nat /\ Cardinality(Guessing) \in Nat
         /\ Cardinality(Visits) \in Nat
         /\ Cardinality(Trying(T)) + Cardinality(Guessing) <= Cardinality(Visits)
<1>1. IsFiniteSet(Visits) /\ Trying(T) \subseteq Visits /\ Guessing \subseteq Visits
  BY SignInAssumption DEF Trying, Guessing
<1>2. IsFiniteSet(Trying(T)) /\ IsFiniteSet(Guessing)
  BY <1>1, FS_Subset
<1>3. Trying(T) \cap Guessing = {}
  BY DEF Trying, Guessing
<1>4. /\ Cardinality(Trying(T) \cup Guessing) <= Cardinality(Visits)
      /\ Cardinality(Trying(T) \cup Guessing) =
           Cardinality(Trying(T)) + Cardinality(Guessing) - Cardinality(Trying(T) \cap Guessing)
  BY <1>1, <1>2, FS_Subset, FS_Union
<1>5. /\ Cardinality(Trying(T)) \in Nat /\ Cardinality(Guessing) \in Nat
      /\ Cardinality(Visits) \in Nat /\ Cardinality(Trying(T) \cap Guessing) = 0
  BY <1>1, <1>2, <1>3, FS_CardinalityType, FS_EmptySet
<1> QED
  BY <1>2, <1>4, <1>5

LEMMA RecentCounts ==
  ASSUME NEW T, IsFiniteSet(AtSignIn)
  PROVE  /\ IsFiniteSet(Recent(T)) /\ Cardinality(Recent(T)) \in Nat
         /\ Cardinality(AtSignIn) \in Nat /\ Cardinality(Recent(T)) <= Cardinality(AtSignIn)
BY FS_Subset, FS_CardinalityType DEF Recent

(* The invariant gives the bound.                                           *)
LEMMA GuessInvBounds == TypeInv /\ GuessInv => GuessesBounded
<1> SUFFICES ASSUME TypeInv, GuessInv PROVE GuessesBounded
  OBVIOUS
<1>1. /\ now \in Nat /\ account.failures \in Nat /\ faults \in Nat
      /\ MaxFailures \in Nat /\ MaxFailures > 0
  BY Bounds, AccountTypes DEF TypeInv, SignInTypeOK
<1>2. CASE account.failures < MaxFailures
  BY <1>1, <1>2, VisitCounts, RecentCounts DEF GuessInv, GuessesBounded
<1>3. CASE account.failures >= MaxFailures
  <2>1. GuessesWithin(now)
    BY <1>1, <1>3 DEF GuessInv
  <2>2. Recent(now) = AtSignIn
    BY DEF GuessInv, Recent
  <2> QED
    BY <1>1, <2>1, <2>2, VisitCounts, RecentCounts DEF GuessInv, GuessesWithin, GuessesBounded
<1> QED
  BY <1>1, <1>2, <1>3

(* A step that adds no guess, counts none and lets no sign-in out of a lock. *)
LEMMA GuessesKept ==
  ASSUME TypeInv, TypeInv', GuessInv,
         AtSignIn' \subseteq AtSignIn, now' >= now,
         \A g \in AtSignIn' : g.at + LockFor > now',
         account'.failures = account.failures, account'.lockedUntil = account.lockedUntil,
         faults' >= faults,
         Cardinality(Guessing)' + faults' >= Cardinality(Guessing) + faults,
         \A T \in Nat : account.lockedUntil > T => Trying(T)' \subseteq Trying(T)
  PROVE  GuessInv'
<1>1. /\ now \in Nat /\ now' \in Nat /\ account.failures \in Nat /\ faults \in Nat
      /\ faults' \in Nat /\ MaxFailures \in Nat /\ account.lockedUntil \in Nat
  BY Bounds, AccountTypes DEF TypeInv, SignInTypeOK, Times
<1>2. /\ IsFiniteSet(AtSignIn') /\ Cardinality(AtSignIn') <= Cardinality(AtSignIn)
      /\ Cardinality(AtSignIn') \in Nat /\ Cardinality(AtSignIn) \in Nat
  BY FS_Subset, FS_CardinalityType DEF GuessInv
<1>3. /\ Cardinality(Guessing) \in Nat /\ Cardinality(Guessing)' \in Nat
      /\ Cardinality(Visits) \in Nat
  <2>1. Guessing' \subseteq Visits
    BY DEF Guessing
  <2>2. Cardinality(Guessing)' \in Nat
    BY <2>1, SignInAssumption, FS_Subset, FS_CardinalityType
  <2> QED
    BY <2>2, VisitCounts
<1>4. \A g \in AtSignIn' : g.at <= now' /\ g.at + LockFor > now'
  BY <1>1, Bounds DEF AtSignIn, GuessInv, TypeInv, SignInTypeOK, Guess, Times
<1>5. ASSUME account.failures < MaxFailures
      PROVE  Cardinality(AtSignIn') <= account'.failures + Cardinality(Guessing)' + faults'
  BY <1>1, <1>2, <1>3, <1>5 DEF GuessInv
<1>6. ASSUME account.failures >= MaxFailures, NEW T \in Nat, T >= now'
      PROVE  GuessesWithin(T)'
  <2>1. GuessesWithin(T)
    BY <1>1, <1>6 DEF GuessInv
  <2>2. Recent(T)' \subseteq Recent(T)
    BY DEF Recent
  <2>3. /\ Cardinality(Recent(T)') <= Cardinality(Recent(T))
        /\ Cardinality(Recent(T)') \in Nat /\ Cardinality(Recent(T)) \in Nat
    BY <2>2, RecentCounts, FS_Subset, FS_CardinalityType DEF GuessInv
  <2>4. CASE account.lockedUntil > T
    <3>1. /\ Cardinality(Trying(T)') <= Cardinality(Trying(T))
          /\ Cardinality(Trying(T)') \in Nat /\ Cardinality(Trying(T)) \in Nat
      BY <2>4, VisitCounts, FS_Subset, FS_CardinalityType
    <3> QED
      BY <1>1, <1>3, <2>1, <2>3, <2>4, <3>1 DEF GuessesWithin
  <2>5. CASE ~(account.lockedUntil > T)
    BY <1>1, <1>3, <2>1, <2>3, <2>5 DEF GuessesWithin
  <2> QED
    BY <2>4, <2>5
<1> QED
  BY <1>2, <1>4, <1>5, <1>6 DEF GuessInv

(* A guess is judged: a sign-in that might have AtSignIn has.                *)
LEMMA GuessJudged ==
  ASSUME TypeInv, TypeInv', GuessInv, NEW v \in Visits,
         visit[v].stage = "read", ~Locked(visit[v].lockedUntil),
         visit' = [visit EXCEPT ![v] = [stage |-> "failing", since |-> visit[v].since]],
         guesses' = guesses + 1,
         AtSignIn' = AtSignIn \cup {[number |-> guesses', at |-> now, door |-> "sign-in"]},
         UNCHANGED <<now, account, faults>>
  PROVE  GuessInv'
<1> DEFINE guess == [number |-> guesses', at |-> now, door |-> "sign-in"]
<1>1. /\ now \in Nat /\ account.failures \in Nat /\ faults \in Nat /\ guesses \in Nat
      /\ MaxFailures \in Nat /\ account.lockedUntil \in Nat /\ LockFor \in Nat /\ LockFor > 0
  BY Bounds, AccountTypes DEF TypeInv, SignInTypeOK, Times
<1>2. guess \notin AtSignIn
  BY <1>1 DEF TypeInv, Counted, AtSignIn
<1>3. /\ IsFiniteSet(AtSignIn') /\ Cardinality(AtSignIn') = Cardinality(AtSignIn) + 1
      /\ Cardinality(AtSignIn) \in Nat
  BY <1>2, FS_AddElement, FS_CardinalityType DEF GuessInv
<1>4. visit[v] \in Attempt /\ visit[v].lockedUntil \in Nat /\ visit[v].lockedUntil <= now
  <2>1. visit[v] \in Attempt
    BY VisitTypes DEF TypeInv
  <2>2. visit[v].lockedUntil \in Nat
    BY <1>1, <2>1, Bounds DEF Attempt
  <2> QED
    BY <1>1, <2>1, <2>2 DEF Locked, Unlocked
<1>5. visit'[v].stage = "failing" /\ \A u \in Visits \ {v} : visit'[u] = visit[u]
  BY DEF TypeInv, SignInTypeOK
<1>6. /\ Guessing' = Guessing \cup {v} /\ v \notin Guessing
      /\ \A T \in Nat : Trying(T)' = Trying(T) \ {v}
      /\ \A T \in Nat : T >= now => v \in Trying(T)
  BY <1>1, <1>4, <1>5 DEF Guessing, Trying
<1>7. /\ Cardinality(Guessing') = Cardinality(Guessing) + 1 /\ Cardinality(Guessing) \in Nat
      /\ \A T \in Nat : T >= now => Cardinality(Trying(T)') = Cardinality(Trying(T)) - 1
  BY <1>6, VisitCounts, FS_AddElement, FS_RemoveElement
<1>8. \A T : /\ Cardinality(Recent(T)') <= Cardinality(Recent(T)) + 1
             /\ Cardinality(Recent(T)') \in Nat /\ Cardinality(Recent(T)) \in Nat
  <2> SUFFICES ASSUME NEW T
               PROVE  /\ Cardinality(Recent(T)') <= Cardinality(Recent(T)) + 1
                      /\ Cardinality(Recent(T)') \in Nat /\ Cardinality(Recent(T)) \in Nat
    OBVIOUS
  <2>1. IsFiniteSet(Recent(T)) /\ Cardinality(Recent(T)) \in Nat
    BY RecentCounts DEF GuessInv
  <2> HIDE DEF guess
  <2>2. /\ IsFiniteSet(Recent(T) \cup {guess})
        /\ Cardinality(Recent(T) \cup {guess}) <= Cardinality(Recent(T)) + 1
    <3>1. /\ IsFiniteSet(Recent(T) \cup {guess})
          /\ Cardinality(Recent(T) \cup {guess}) =
               IF guess \in Recent(T) THEN Cardinality(Recent(T)) ELSE Cardinality(Recent(T)) + 1
      BY <2>1, FS_AddElement, Zenon
    <3> QED
      BY <2>1, <3>1
  <2>4. Cardinality(Recent(T) \cup {guess}) \in Nat
    BY <2>2, FS_CardinalityType
  <2>3. Recent(T)' \subseteq Recent(T) \cup {guess}
    BY DEF Recent, guess
  <2> QED
    BY <2>1, <2>2, <2>3, <2>4, FS_Subset, FS_CardinalityType
<1>9. \A g \in AtSignIn' : g.at <= now' /\ g.at + LockFor > now'
  BY <1>1 DEF GuessInv
<1>10. ASSUME account.failures < MaxFailures
       PROVE  Cardinality(AtSignIn') <= account'.failures + Cardinality(Guessing)' + faults'
  BY <1>1, <1>3, <1>7, <1>10 DEF GuessInv
<1>11. ASSUME account.failures >= MaxFailures, NEW T \in Nat, T >= now'
       PROVE  GuessesWithin(T)'
  <2>1. GuessesWithin(T)
    BY <1>1, <1>11 DEF GuessInv
  <2>2. /\ Cardinality(Trying(T)') = Cardinality(Trying(T)) - 1
        /\ Cardinality(Trying(T)) \in Nat /\ Cardinality(Visits) \in Nat
    BY <1>7, <1>11, VisitCounts
  <2> QED
    BY <1>1, <1>7, <1>8, <2>1, <2>2 DEF GuessesWithin
<1> QED
  BY <1>3, <1>9, <1>10, <1>11 DEF GuessInv

(* A guess is counted; the last one that fills the counter sets the lock, and *)
(* so does each one after it.                                               *)
LEMMA GuessCounted ==
  ASSUME TypeInv, TypeInv', GuessInv, NEW v \in Visits, RecordLoginFailure(v)
  PROVE  GuessInv'
<1> DEFINE until == now + LockFor
<1>1. /\ now \in Nat /\ account.failures \in Nat /\ faults \in Nat
      /\ MaxFailures \in Nat /\ MaxFailures > 0 /\ account.lockedUntil \in Nat
      /\ LockFor \in Nat /\ LockFor > 0
  BY Bounds, AccountTypes DEF TypeInv, SignInTypeOK, Times
<1>2. /\ account'.failures = account.failures + 1
      /\ account'.failures >= MaxFailures => account'.lockedUntil = until
  BY <1>1 DEF RecordLoginFailure, LocksAt, TypeInv, SignInTypeOK, Account
<1>3. UNCHANGED <<now, AtSignIn, faults>>
  BY DEF RecordLoginFailure, AtSignIn
<1>4. visit'[v] = Out /\ \A u \in Visits \ {v} : visit'[u] = visit[u]
  BY DEF RecordLoginFailure, TypeInv, SignInTypeOK
<1>5. /\ Guessing' = Guessing \ {v} /\ v \in Guessing
      /\ \A T \in Nat : Trying(T)' = Trying(T)
  BY <1>4 DEF RecordLoginFailure, Guessing, Trying, Out
<1>6. /\ Cardinality(Guessing') = Cardinality(Guessing) - 1
      /\ Cardinality(Guessing) \in Nat /\ Cardinality(Guessing') \in Nat
  BY <1>5, VisitCounts, FS_RemoveElement, FS_CardinalityType
<1>7. \A T : Recent(T)' = Recent(T)
  BY <1>3 DEF Recent
<1>8. ASSUME account'.failures < MaxFailures
      PROVE  Cardinality(AtSignIn') <= account'.failures + Cardinality(Guessing)' + faults'
  BY <1>1, <1>2, <1>3, <1>6, <1>8, RecentCounts DEF GuessInv
<1>9. ASSUME account'.failures >= MaxFailures, NEW T \in Nat, T >= now'
      PROVE  GuessesWithin(T)'
  <2>1. /\ Cardinality(Recent(T)) \in Nat /\ Cardinality(Recent(T)) <= Cardinality(AtSignIn)
        /\ Cardinality(Trying(T)) \in Nat /\ Cardinality(Visits) \in Nat
        /\ Cardinality(Trying(T)) + Cardinality(Guessing) <= Cardinality(Visits)
        /\ Cardinality(AtSignIn) \in Nat
    BY RecentCounts, VisitCounts DEF GuessInv
  <2>2. CASE until > T
    <3>1. CASE account.failures < MaxFailures
      BY <1>1, <1>2, <1>3, <1>5, <1>6, <1>7, <1>9, <2>1, <2>2, <3>1 DEF GuessInv, GuessesWithin
    <3>2. CASE account.failures >= MaxFailures
      <4>1. GuessesWithin(T)
        BY <1>3, <1>9, <3>2 DEF GuessInv
      <4> QED
        BY <1>1, <1>2, <1>3, <1>5, <1>6, <1>7, <1>9, <2>1, <2>2, <4>1 DEF GuessesWithin
    <3> QED
      BY <1>1, <3>1, <3>2
  <2>3. CASE ~(until > T)
    <3>1. Recent(T) = {}
      BY <1>1, <1>3, <1>9, <2>3, Bounds
      DEF AtSignIn, GuessInv, Recent, TypeInv, SignInTypeOK, Guess, Times
    <3>2. Cardinality(Recent(T)') = 0
      BY <1>7, <3>1, FS_EmptySet
    <3> QED
      BY <1>1, <1>2, <1>3, <1>6, <1>9, <2>3, <3>2 DEF GuessesWithin
  <2> QED
    BY <2>2, <2>3
<1> QED
  BY <1>3, <1>8, <1>9 DEF GuessInv

(* The counter is reset.                                                    *)
LEMMA GuessesForgotten ==
  ASSUME TypeInv, GuessInv, AtSignIn' = {}, account' = Reset(account), faults' = faults
  PROVE  GuessInv'
<1>1. faults \in Nat /\ MaxFailures \in Nat /\ MaxFailures > 0 /\ account \in Account
  BY Bounds DEF TypeInv, SignInTypeOK
<1>2. account'.failures = 0
  BY <1>1 DEF Reset, Account
<1>3. Guessing' \subseteq Visits
  BY DEF Guessing
<1>4. Cardinality(Guessing)' \in Nat
  BY <1>3, SignInAssumption, FS_Subset, FS_CardinalityType
<1> QED
  BY <1>1, <1>2, <1>4, FS_EmptySet DEF GuessInv

LEMMA GuessInit == Init => GuessInv
<1> SUFFICES ASSUME Init PROVE GuessInv
  OBVIOUS
<1>1. AtSignIn = {} /\ account.failures = 0 /\ faults = 0 /\ MaxFailures \in Nat /\ MaxFailures > 0
  BY Bounds DEF Init, AtSignIn
<1> QED
  BY <1>1, VisitCounts, FS_EmptySet DEF GuessInv

LEMMA GuessStep == TypeInv /\ GuessInv /\ [Next]_vars => GuessInv'
<1> SUFFICES ASSUME TypeInv, GuessInv, [Next]_vars PROVE GuessInv'
  OBVIOUS
<1>0. TypeInv'
  BY SignInTypeStep
<1>1. /\ now \in Nat /\ faults \in Nat /\ visit \in [Visits -> Visit]
      /\ \A g \in AtSignIn : g.at + LockFor > now
      /\ Cardinality(Guessing) \in Nat
  BY Bounds, AccountTypes, VisitCounts DEF TypeInv, SignInTypeOK, GuessInv, Visit
<1>2. ASSUME NEW v \in Visits, \A u \in Visits \ {v} : visit'[u] = visit[u],
             visit[v].stage # "failing", visit'[v].stage # "failing",
             UNCHANGED <<now, account, AtSignIn>>, faults' >= faults,
             visit'[v].stage \in {"row", "read"} =>
               \/ visit'[v].lockedUntil = account.lockedUntil
               \/ /\ visit[v].stage \in {"row", "read"}
                  /\ visit'[v].lockedUntil = visit[v].lockedUntil
      PROVE  GuessInv'
  <2>2. Guessing' = Guessing
    BY <1>2 DEF Guessing
  <2>3. \A T \in Nat : account.lockedUntil > T => Trying(T)' \subseteq Trying(T)
    <3> SUFFICES ASSUME NEW T \in Nat, account.lockedUntil > T,
                        NEW u \in Trying(T)'
                 PROVE  u \in Trying(T)
      OBVIOUS
    <3>1. account.lockedUntil \in Nat
      BY Bounds, AccountTypes DEF TypeInv
    <3>2. u \in Visits /\ visit'[u].stage \in {"row", "read"} /\ visit'[u].lockedUntil <= T
      BY DEF Trying
    <3>3. CASE u # v
      BY <1>2, <3>2, <3>3 DEF Trying
    <3>4. CASE u = v
      BY <1>2, <3>1, <3>2, <3>4 DEF Trying
    <3> QED
      BY <3>3, <3>4
  <2>4. faults' \in Nat
    BY <1>0, Bounds DEF TypeInv, SignInTypeOK
  <2> QED
    BY <1>0, <1>1, <1>2, <2>2, <2>3, <2>4, GuessesKept
<1>3. ASSUME NEW v \in Visits, FindByEmail(v) PROVE GuessInv'
  <2>1. /\ visit[v].stage = "out" /\ UNCHANGED <<now, account, AtSignIn, faults>>
        /\ \A u \in Visits \ {v} : visit'[u] = visit[u]
        /\ visit'[v].stage = "row" /\ visit'[v].lockedUntil = account.lockedUntil
    BY <1>1, <1>3 DEF FindByEmail, Out, AtSignIn
  <2> QED
    BY <1>1, <1>2, <2>1
<1>4. ASSUME NEW v \in Visits, ScopesFor(v) PROVE GuessInv'
  <2>1. /\ visit[v].stage = "row" /\ UNCHANGED <<now, account, AtSignIn, faults>>
        /\ \A u \in Visits \ {v} : visit'[u] = visit[u]
        /\ visit'[v].stage = "read" /\ visit'[v].lockedUntil = visit[v].lockedUntil
    BY <1>1, <1>4 DEF ScopesFor, AtSignIn
  <2> QED
    BY <1>1, <1>2, <2>1
<1>5. ASSUME NEW v \in Visits, Judge(v) PROVE GuessInv'
  <2>1. visit[v].stage = "read" /\ UNCHANGED <<now, account, faults>>
    BY <1>5 DEF Judge
  <2>2. CASE visit' = [visit EXCEPT ![v] = Out] /\ UNCHANGED AtSignIn
    <3>1. visit'[v] = Out /\ \A u \in Visits \ {v} : visit'[u] = visit[u]
      BY <1>1, <2>2
    <3>2. visit'[v].stage = "out"
      BY <3>1 DEF Out
    <3> QED
      BY <1>1, <1>2, <2>1, <2>2, <3>1, <3>2
  <2>3. CASE /\ visit' = [visit EXCEPT ![v].stage = "passing", ![v].lockedUntil = Unlocked]
             /\ UNCHANGED AtSignIn
    <3>1. visit[v] \in Attempt
      BY <2>1, VisitTypes DEF TypeInv
    <3>2. visit' = [visit EXCEPT ![v] =
                      [visit[v] EXCEPT !.stage = "passing", !.lockedUntil = Unlocked]]
      BY <1>1, <2>3
    <3>3. visit'[v] = [visit[v] EXCEPT !.stage = "passing", !.lockedUntil = Unlocked]
      BY <1>1, <3>2
    <3>4. visit'[v].stage = "passing"
      BY <3>1, <3>3 DEF Attempt
    <3>5. \A u \in Visits \ {v} : visit'[u] = visit[u]
      BY <1>1, <3>2
    <3> QED
      BY <1>1, <1>2, <2>1, <2>3, <3>4, <3>5
  <2>4. CASE /\ ~Locked(visit[v].lockedUntil) /\ Guessed("sign-in")
             /\ visit' = [visit EXCEPT ![v] = [stage |-> "failing", since |-> visit[v].since]]
    <3>1. AtSignIn' = AtSignIn \cup {[number |-> guesses', at |-> now, door |-> "sign-in"]}
      BY <2>4 DEF Guessed, AtSignIn
    <3> QED
      BY <1>0, <2>1, <2>4, <3>1, GuessJudged DEF Guessed
  <2> QED
    BY <2>2, <2>3, <2>4, <1>5 DEF Judge, AtSignIn
<1>6. ASSUME NEW v \in Visits, RecordLoginFailure(v) PROVE GuessInv'
  BY <1>0, <1>6, GuessCounted
<1>7. ASSUME NEW v \in Visits, RecordLoginSuccess(v) \/ ChangePassword(v) PROVE GuessInv'
  <2>1. CASE guessed' = {} /\ account' = Reset(account) /\ faults' = faults
    BY <2>1, GuessesForgotten DEF AtSignIn
  <2>2. CASE Guessed("session") /\ UNCHANGED <<now, account, visit, faults>>
    <3>1. AtSignIn' = AtSignIn
      BY <2>2 DEF Guessed, AtSignIn
    <3>2. Guessing' = Guessing /\ \A T \in Nat : Trying(T)' = Trying(T)
      BY <2>2 DEF Guessing, Trying
    <3> QED
      BY <1>0, <1>1, <2>2, <3>1, <3>2, GuessesKept
  <2> QED
    BY <1>7, <2>1, <2>2 DEF RecordLoginSuccess, ChangePassword
<1>8. ASSUME NEW v \in Visits, IssueSession(v) \/ Logout(v) PROVE GuessInv'
  <2>1. /\ visit[v].stage \in {"passed", "in"} /\ UNCHANGED <<now, account, AtSignIn, faults>>
        /\ \A u \in Visits \ {v} : visit'[u] = visit[u]
        /\ visit'[v].stage \in {"in", "out"}
    BY <1>1, <1>8 DEF IssueSession, Logout, Out, AtSignIn
  <2> QED
    BY <1>1, <1>2, <2>1
<1>9. ASSUME NEW v \in Visits, SignInFails(v) PROVE GuessInv'
  <2>1. CASE visit[v].stage # "failing"
    <3>1. /\ UNCHANGED <<now, account, AtSignIn>> /\ faults' = faults + 1
          /\ \A u \in Visits \ {v} : visit'[u] = visit[u]
          /\ visit'[v].stage = "out"
      BY <1>1, <1>9 DEF SignInFails, Out, AtSignIn
    <3> QED
      BY <1>1, <1>2, <2>1, <3>1
  <2>2. CASE visit[v].stage = "failing"
    <3>1. visit'[v] = Out /\ \A u \in Visits \ {v} : visit'[u] = visit[u]
      BY <1>1, <1>9 DEF SignInFails
    <3>2. /\ Guessing' = Guessing \ {v} /\ v \in Guessing
          /\ \A T \in Nat : Trying(T)' = Trying(T)
      BY <2>2, <3>1 DEF Guessing, Trying, Out
    <3>3. /\ Cardinality(Guessing') = Cardinality(Guessing) - 1
          /\ Cardinality(Guessing)' = Cardinality(Guessing')
      BY <3>2, VisitCounts, FS_RemoveElement
    <3>4. faults' = faults + 1 /\ UNCHANGED <<now, account, AtSignIn>>
      BY <1>9 DEF SignInFails, AtSignIn
    <3> QED
      BY <1>0, <1>1, <3>2, <3>3, <3>4, GuessesKept
  <2> QED
    BY <2>1, <2>2
<1>10. CASE EditAccount
  <2>1. UNCHANGED <<now, visit, AtSignIn, faults>>
    BY <1>10 DEF EditAccount, AtSignIn
  <2>2. account'.failures = account.failures /\ account'.lockedUntil = account.lockedUntil
    BY <1>10 DEF EditAccount, TypeInv, SignInTypeOK, Account
  <2>3. Guessing' = Guessing /\ \A T \in Nat : Trying(T)' = Trying(T)
    BY <2>1 DEF Guessing, Trying
  <2> QED
    BY <1>0, <1>1, <2>1, <2>2, <2>3, GuessesKept
<1>11. CASE Tick
  <2>1. now' = now + 1 /\ UNCHANGED <<account, visit, faults>>
    BY <1>11 DEF Tick
  <2>2. AtSignIn' \subseteq AtSignIn /\ \A g \in AtSignIn' : g.at + LockFor > now'
    BY <1>1, <1>11, Bounds DEF AtSignIn, Tick, TypeInv, SignInTypeOK, Guess, Times
  <2>3. Guessing' = Guessing /\ \A T \in Nat : Trying(T)' = Trying(T)
    BY <2>1 DEF Guessing, Trying
  <2> QED
    BY <1>0, <1>1, <2>1, <2>2, <2>3, GuessesKept
<1>12. CASE UNCHANGED vars
  BY <1>12 DEF vars, GuessInv, GuessesWithin, AtSignIn, Recent, Trying, Guessing
<1> QED
  BY <1>3, <1>4, <1>5, <1>6, <1>7, <1>8, <1>9, <1>10, <1>11, <1>12
  DEF Next, SignInStep, SessionStep

(* From one right password to the next, no more wrong ones are tried at the  *)
(* sign-in page within the time of a lock than fill the counter, one per visit *)
(* under way, and those whose record failed; for any number of visits, however *)
(* their statements interleave and whatever is tried at change-password besides *)
(* (recordLoginFailure, POST /admin/api/auth/login).                        *)
THEOREM GuessesAreBounded == Spec => []GuessesBounded
<1>1. TypeInv /\ GuessInv => GuessesBounded
  BY GuessInvBounds
<1>2. Spec => [](TypeInv /\ GuessInv)
  BY SignInTypeInit, SignInTypeStep, GuessInit, GuessStep, PTL DEF Spec
<1> QED
  BY <1>1, <1>2, PTL

-----------------------------------------------------------------------------
(* Edits of an account's tenants.                                           *)

(* What an edit deletes it sees, and what it inserts its caller holds.      *)
Seen(e) == {r \in Row : r.product \in Visible(request[e])}

Granted(e) == IF request[e].isSuper THEN Tenants ELSE request[e].claims

Reached(e) ==
  /\ targets[e] \subseteq Seen(e)
  /\ deleted[e] \subseteq Seen(e)
  /\ todo[e] \subseteq Granted(e)
  /\ inserted[e] \subseteq Granted(e)

(* An edit that has not begun has nothing in its hands; one that has asks for *)
(* what its caller may grant.                                               *)
Entitled(e) ==
  IF stage[e] = "idle"
  THEN targets[e] = {} /\ deleted[e] = {} /\ todo[e] = {} /\ inserted[e] = {}
  ELSE request[e].wants \subseteq Granted(e) /\ rows \subseteq Row

ScopeFunctions ==
  /\ rows \in {NoAccount} \cup SUBSET Row
  /\ request \in [Edits -> Request]
  /\ stage \in [Edits -> Stages]
  /\ targets \in [Edits -> SUBSET Row]
  /\ deleted \in [Edits -> SUBSET Row]
  /\ todo \in [Edits -> SUBSET Tenants]
  /\ inserted \in [Edits -> SUBSET Tenants]

WithinReach ==
  /\ ScopeFunctions
  /\ \A e \in Edits : Reached(e) /\ Entitled(e)

-----------------------------------------------------------------------------
LEMMA FirstRows ==
  ASSUME NEW ps \in SUBSET Tenants
  PROVE  {[product |-> p, by |-> Origin] : p \in ps} \subseteq Row
BY DEF Row

LEMMA ReachInit == ScopesInit => WithinReach
<1> SUFFICES ASSUME ScopesInit PROVE WithinReach
  OBVIOUS
<1>1. rows \in {NoAccount} \cup SUBSET Row
  BY FirstRows DEF ScopesInit
<1>2. ScopeFunctions
  BY <1>1 DEF ScopesInit, ScopeFunctions, NoRequest, Request, Stages
<1> QED
  BY <1>2 DEF ScopesInit, WithinReach, Reached, Entitled

(* A step of one edit leaves what the others have in their hands.           *)
LEMMA ReachOfOthers ==
  ASSUME WithinReach, NEW e \in Edits, ScopeFunctions', Reached(e)', Entitled(e)',
         rows \subseteq Row => rows' \subseteq Row,
         \A f \in Edits \ {e} :
           /\ request'[f] = request[f] /\ stage'[f] = stage[f]
           /\ targets'[f] = targets[f] /\ deleted'[f] = deleted[f]
           /\ todo'[f] = todo[f] /\ inserted'[f] = inserted[f]
  PROVE  WithinReach'
<1>1. ASSUME NEW f \in Edits, f # e
      PROVE  Reached(f)' /\ Entitled(f)'
  BY <1>1 DEF WithinReach, Reached, Entitled, Seen, Granted, Visible
<1> QED
  BY <1>1 DEF WithinReach

LEMMA ReachStep ==
  ASSUME WithinReach, [ScopesNext]_scopesVars
  PROVE  WithinReach'
<1>1. CASE UNCHANGED scopesVars
  BY <1>1 DEF scopesVars, WithinReach, ScopeFunctions, Reached, Entitled, Seen, Granted, Visible
<1>2. CASE CreateUser
  <2>1. rows' \subseteq Row
    BY <1>2, FirstRows DEF CreateUser
  <2>2. ScopeFunctions'
    BY <1>2, <2>1 DEF CreateUser, WithinReach, ScopeFunctions
  <2>3. \A f \in Edits : Reached(f)' /\ Entitled(f)'
    BY <1>2, <2>1 DEF CreateUser, WithinReach, Reached, Entitled, Seen, Granted, Visible
  <2> QED
    BY <2>2, <2>3 DEF WithinReach
<1>3. ASSUME NEW e \in Edits, EditStep(e)
      PROVE  WithinReach'
  <2> USE DEF ScopeFunctions
  <2>0. ScopeFunctions /\ Reached(e) /\ Entitled(e)
    BY DEF WithinReach
  <2>1. CASE BeginEdit(e)
    <3>1. PICK req \in Asked : request' = [request EXCEPT ![e] = req]
      BY <2>1 DEF BeginEdit
    <3>2. req \in Request /\ req.wants \subseteq IF req.isSuper THEN Tenants ELSE req.claims
      BY DEF Asked, Allowed, Request
    <3>3. ScopeFunctions'
      BY <2>0, <2>1, <3>1, <3>2 DEF BeginEdit, Stages
    <3>4. Reached(e)' /\ Entitled(e)'
      BY <2>0, <2>1, <3>1, <3>2 DEF BeginEdit, Reached, Entitled, Granted
    <3> QED
      BY <2>0, <2>1, <3>1, <3>3, <3>4, ReachOfOthers DEF BeginEdit
  <2>2. CASE UpdateUser(e)
    <3>1. ScopeFunctions'
      BY <2>0, <2>2 DEF UpdateUser, Stages
    <3>2. Reached(e)' /\ Entitled(e)'
      BY <2>0, <2>2 DEF UpdateUser, Reached, Entitled, Seen, Granted, Visible
    <3> QED
      BY <2>0, <2>2, <3>1, <3>2, ReachOfOthers DEF UpdateUser
  <2>3. CASE StartDelete(e)
    <3>1. rows \subseteq Row
      BY <2>0, <2>3 DEF StartDelete, Entitled
    <3>2. ScopeFunctions'
      BY <2>0, <2>3, <3>1 DEF StartDelete, Stages
    <3>3. Reached(e)' /\ Entitled(e)'
      BY <2>0, <2>3, <3>1 DEF StartDelete, Reached, Entitled, Seen, Granted, Visible
    <3> QED
      BY <2>0, <2>3, <3>2, <3>3, ReachOfOthers DEF StartDelete
  <2>4. CASE FinishDelete(e)
    <3>1. request[e].wants \subseteq Tenants
      BY <2>0 DEF Request
    <3>2. ScopeFunctions'
      BY <2>0, <2>4, <3>1 DEF FinishDelete, Stages
    <3>3. Reached(e)' /\ Entitled(e)'
      BY <2>0, <2>4 DEF FinishDelete, Reached, Entitled, Seen, Granted, Visible
    <3> QED
      BY <2>0, <2>4, <3>2, <3>3, ReachOfOthers DEF FinishDelete
  <2>5. ASSUME NEW r \in Row, DeleteRow(e, r)
        PROVE  WithinReach'
    <3>1. ScopeFunctions'
      BY <2>0, <2>5 DEF DeleteRow
    <3>2. Reached(e)' /\ Entitled(e)'
      BY <2>0, <2>5 DEF DeleteRow, Reached, Entitled, Seen, Granted, Visible
    <3> QED
      BY <2>0, <2>5, <3>1, <3>2, ReachOfOthers DEF DeleteRow
  <2>6. ASSUME NEW p \in Tenants, InsertRow(e, p)
        PROVE  WithinReach'
    <3>1. ScopeFunctions'
      BY <2>0, <2>6 DEF InsertRow
    <3>2. Reached(e)' /\ Entitled(e)'
      BY <2>0, <2>6 DEF InsertRow, Reached, Entitled, Seen, Granted, Visible
    <3> QED
      BY <2>0, <2>6, <3>1, <3>2, ReachOfOthers DEF InsertRow
  <2>7. CASE Commit(e)
    <3>1. rows \subseteq Row
      BY <2>0, <2>7 DEF Commit, Entitled
    <3>2. rows' \subseteq Row
      BY <2>0, <2>7, <3>1 DEF Commit, Row
    <3>3. ScopeFunctions'
      BY <2>0, <2>7, <3>2 DEF Commit, Stages
    <3>4. Reached(e)' /\ Entitled(e)'
      BY <2>0, <2>7, <3>2 DEF Commit, Reached, Entitled, Seen, Granted, Visible
    <3> QED
      BY <2>0, <2>7, <3>2, <3>3, <3>4, ReachOfOthers DEF Commit
  <2>8. ASSUME RolledBack(e), stage[e] # "idle"
        PROVE  WithinReach'
    <3>1. ScopeFunctions'
      BY <2>0, <2>8 DEF RolledBack, Stages
    <3>2. Reached(e)' /\ Entitled(e)'
      BY <2>0, <2>8 DEF RolledBack, Reached, Entitled, Seen, Granted, Visible
    <3> QED
      BY <2>0, <2>8, <3>1, <3>2, ReachOfOthers DEF RolledBack
  <2>9. EditFails(e) => RolledBack(e) /\ stage[e] # "idle"
    BY DEF EditFails, Running
  <2>10. DeadlockVictim(e) => RolledBack(e) /\ stage[e] # "idle"
    BY DEF DeadlockVictim, WaitsFor
  <2> QED
    BY <1>3, <2>1, <2>2, <2>3, <2>4, <2>5, <2>6, <2>7, <2>8, <2>9, <2>10 DEF EditStep
<1> QED
  BY <1>1, <1>2, <1>3 DEF ScopesNext

LEMMA ReachAlways == ScopesSpec => []WithinReach
BY ReachInit, ReachStep, PTL DEF ScopesSpec

-----------------------------------------------------------------------------
(* A step changes the rows of an account that exists only by committing an  *)
(* edit, and for a tenant the edit sees or may grant.                       *)
LEMMA ChangeWithinReach ==
  ASSUME WithinReach, ScopesNext, rows # NoAccount, NEW p \in Tenants,
         {r \in rows : r.product = p} # {r \in rows' : r.product = p}
  PROVE  \E e \in Edits : /\ stage[e] # "committed" /\ stage'[e] = "committed"
                          /\ \/ request[e].isSuper \/ request[e].own
                             \/ p \in request[e].claims
<1>1. rows' # rows
  OBVIOUS
<1>2. PICK e \in Edits : Commit(e)
  BY <1>1 DEF ScopesNext, CreateUser, EditStep, BeginEdit, UpdateUser, StartDelete, DeleteRow,
              FinishDelete, InsertRow, EditFails, DeadlockVictim, RolledBack
<1>3. /\ rows \subseteq Row /\ deleted[e] \subseteq Seen(e) /\ inserted[e] \subseteq Granted(e)
      /\ stage \in [Edits -> Stages]
  BY <1>2 DEF WithinReach, ScopeFunctions, Entitled, Reached, Commit
<1>4. stage[e] # "committed" /\ stage'[e] = "committed"
  BY <1>2, <1>3 DEF Commit
<1>5. rows' = (rows \ deleted[e]) \cup {[product |-> q, by |-> e] : q \in inserted[e]}
  BY <1>2 DEF Commit
<1>6. \/ \E r \in deleted[e] : r.product = p
      \/ p \in inserted[e]
  BY <1>5
<1>7. p \in Visible(request[e]) \/ p \in Granted(e)
  BY <1>3, <1>6 DEF Seen
<1> QED
  BY <1>4, <1>7 DEF Visible, Granted

(* OutOfReachUntouched for any number of administrators, tenants and edits  *)
(* (replaceScopes under scope_visibility).                                  *)
THEOREM OutOfReach == ScopesSpec => OutOfReachUntouched
<1>1. WithinReach /\ [ScopesNext]_scopesVars =>
        [rows # NoAccount => \A p \in Tenants :
           {r \in rows : r.product = p} # {r \in rows' : r.product = p} =>
             \E e \in Edits : /\ stage[e] # "committed" /\ stage'[e] = "committed"
                              /\ \/ request[e].isSuper \/ request[e].own
                                 \/ p \in request[e].claims]_scopesVars
  BY ChangeWithinReach
<1> QED
  BY <1>1, ReachAlways, PTL DEF ScopesSpec, OutOfReachUntouched

-----------------------------------------------------------------------------
(* What an edit has in its hands at each stage.                             *)
InHand(e) ==
  /\ stage[e] # "deleting" => targets[e] = {}
  /\ stage[e] \notin {"deleting", "inserting"} => deleted[e] = {}
  /\ stage[e] # "inserting" => todo[e] = {} /\ inserted[e] = {}
  /\ ~request[e].rescope => /\ stage[e] \notin {"updated", "deleting"}
                            /\ deleted[e] = {} /\ todo[e] = {} /\ inserted[e] = {}
  /\ todo[e] \cup inserted[e] \subseteq request[e].wants

(* An edit that holds the lock on the account's row, if it has taken it.    *)
HoldsLock(e) == Running(e) /\ stage[e] # "begun"

BothPatch(e, f) == request[e].patch /\ request[f].patch

RowLockHeld ==
  \A e \in Edits : \A f \in Edits \ {e} : HoldsLock(e) /\ HoldsLock(f) => ~BothPatch(e, f)

(* What an edit takes note of: edits that are over, none of which had the lock *)
(* it holds.                                                                *)
Overlapped(e) ==
  \A f \in overlap[e] : stage[f] = "committed" /\ stage[e] # "idle" /\ ~BothPatch(e, f)

StageInv ==
  /\ WithinReach
  /\ overlap \in [Edits -> SUBSET Edits]
  /\ RowLockHeld
  /\ \A e \in Edits : InHand(e) /\ Overlapped(e)

(* A step of one edit leaves the others where they are.                     *)
Untouched(f) ==
  /\ request'[f] = request[f] /\ stage'[f] = stage[f] /\ targets'[f] = targets[f]
  /\ deleted'[f] = deleted[f] /\ todo'[f] = todo[f] /\ inserted'[f] = inserted[f]

-----------------------------------------------------------------------------
LEMMA OneAtATime ==
  ASSUME ScopeFunctions, NEW e \in Edits, EditStep(e)
  PROVE  \A f \in Edits \ {e} : Untouched(f)
<1> USE DEF ScopeFunctions, Untouched
<1>1. CASE BeginEdit(e) \/ UpdateUser(e) \/ StartDelete(e) \/ FinishDelete(e)
  BY <1>1 DEF BeginEdit, UpdateUser, StartDelete, FinishDelete
<1>2. ASSUME NEW r \in Row, DeleteRow(e, r)
      PROVE  \A f \in Edits \ {e} : Untouched(f)
  BY <1>2 DEF DeleteRow
<1>3. ASSUME NEW p \in Tenants, InsertRow(e, p)
      PROVE  \A f \in Edits \ {e} : Untouched(f)
  BY <1>3 DEF InsertRow
<1>4. CASE Commit(e)
  BY <1>4 DEF Commit
<1>5. CASE RolledBack(e)
  BY <1>5 DEF RolledBack
<1> QED
  BY <1>1, <1>2, <1>3, <1>4, <1>5 DEF EditStep, EditFails, DeadlockVictim

(* An edit that is over takes no step, and one that has begun keeps to what it *)
(* was asked.                                                               *)
LEMMA StagesGoOn ==
  ASSUME ScopeFunctions, NEW e \in Edits, EditStep(e)
  PROVE  /\ stage[e] \notin {"committed", "failed"}
         /\ stage'[e] # "idle"
         /\ stage[e] # "idle" => request'[e] = request[e]
<1> USE DEF ScopeFunctions
<1>1. CASE BeginEdit(e) \/ UpdateUser(e) \/ StartDelete(e) \/ FinishDelete(e)
  BY <1>1 DEF BeginEdit, UpdateUser, StartDelete, FinishDelete
<1>2. ASSUME NEW r \in Row, DeleteRow(e, r)
      PROVE  stage[e] = "deleting" /\ stage' = stage /\ request' = request
  BY <1>2 DEF DeleteRow
<1>3. ASSUME NEW p \in Tenants, InsertRow(e, p)
      PROVE  stage[e] = "inserting" /\ stage' = stage /\ request' = request
  BY <1>3 DEF InsertRow
<1>4. CASE Commit(e)
  BY <1>4 DEF Commit
<1>5. RolledBack(e) => stage'[e] = "failed" /\ request' = request
  BY DEF RolledBack
<1>6. EditFails(e) => RolledBack(e) /\ stage[e] \notin {"idle", "committed", "failed"}
  BY DEF EditFails, Running
<1>7. DeadlockVictim(e) => RolledBack(e) /\ stage[e] \in {"begun", "deleting", "inserting"}
  BY DEF DeadlockVictim, WaitsFor
<1> QED
  BY <1>1, <1>2, <1>3, <1>4, <1>5, <1>6, <1>7 DEF EditStep

LEMMA InHandStep ==
  ASSUME ScopeFunctions, NEW e \in Edits, EditStep(e), InHand(e)
  PROVE  InHand(e)'
<1> USE DEF ScopeFunctions, InHand
<1>1. CASE BeginEdit(e) \/ UpdateUser(e) \/ StartDelete(e)
  BY <1>1 DEF BeginEdit, UpdateUser, StartDelete
<1>2. CASE FinishDelete(e)
  BY <1>2 DEF FinishDelete
<1>3. ASSUME NEW r \in Row, DeleteRow(e, r)
      PROVE  InHand(e)'
  BY <1>3 DEF DeleteRow
<1>4. ASSUME NEW p \in Tenants, InsertRow(e, p)
      PROVE  InHand(e)'
  BY <1>4 DEF InsertRow
<1>5. CASE Commit(e)
  BY <1>5 DEF Commit
<1>6. RolledBack(e) => InHand(e)'
  BY DEF RolledBack
<1>7. EditFails(e) \/ DeadlockVictim(e) => RolledBack(e)
  BY DEF EditFails, DeadlockVictim
<1> QED
  BY <1>1, <1>2, <1>3, <1>4, <1>5, <1>6, <1>7 DEF EditStep

(* The lock is taken by UpdateUser and held until the edit is over.         *)
LEMMA LockTaken ==
  ASSUME ScopeFunctions, NEW e \in Edits, EditStep(e), HoldsLock(e)', request[e].patch'
  PROVE  /\ request[e].patch /\ stage[e] # "idle"
         /\ ~HoldsLock(e) => RowLocks(e) = {}
<1> USE DEF ScopeFunctions, HoldsLock, Running
<1>1. CASE BeginEdit(e)
  BY <1>1 DEF BeginEdit
<1>2. CASE UpdateUser(e)
  BY <1>2 DEF UpdateUser
<1>3. CASE stage[e] \in {"updated", "deleting", "inserting"} /\ UNCHANGED request
  BY <1>3
<1>4. CASE RolledBack(e)
  BY <1>4 DEF RolledBack
<1> QED
  BY <1>1, <1>2, <1>3, <1>4
  DEF EditStep, StartDelete, DeleteRow, FinishDelete, InsertRow, Commit, EditFails,
      DeadlockVictim

LEMMA RowLockStep ==
  ASSUME ScopeFunctions, RowLockHeld, NEW e \in Edits, EditStep(e)
  PROVE  RowLockHeld'
<1>1. \A f \in Edits \ {e} : request'[f] = request[f] /\ stage'[f] = stage[f]
  BY OneAtATime DEF Untouched
<1>2. ASSUME NEW f \in Edits \ {e}, HoldsLock(e)', HoldsLock(f)', BothPatch(e, f)'
      PROVE  FALSE
  <2>1. HoldsLock(f) /\ request[f].patch /\ request[e].patch'
    BY <1>1, <1>2 DEF HoldsLock, Running, BothPatch
  <2>2. request[e].patch /\ (~HoldsLock(e) => RowLocks(e) = {})
    BY <1>2, <2>1, LockTaken
  <2>3. f \in RowLocks(e)
    BY <2>1 DEF RowLocks, HoldsLock
  <2> QED
    BY <2>1, <2>2, <2>3 DEF RowLockHeld, BothPatch
<1>3. ASSUME NEW f \in Edits, NEW g \in Edits \ {f}, f # e, g # e, HoldsLock(f)', HoldsLock(g)'
      PROVE  ~BothPatch(f, g)'
  BY <1>1, <1>3 DEF RowLockHeld, HoldsLock, Running, BothPatch
<1> QED
  BY <1>2, <1>3 DEF RowLockHeld, BothPatch

(* An edit is noted when it commits.                                        *)
LEMMA OverlapGrows ==
  ASSUME overlap \in [Edits -> SUBSET Edits], NEW e \in Edits, EditStep(e), NEW f \in Edits
  PROVE  \/ overlap'[f] = overlap[f]
         \/ Commit(e) /\ f # e /\ Deletes(f) /\ overlap'[f] = overlap[f] \cup {e}
<1>1. CASE Commit(e)
  BY <1>1 DEF Commit
<1> QED
  BY <1>1 DEF EditStep, BeginEdit, UpdateUser, StartDelete, DeleteRow, FinishDelete, InsertRow,
              EditFails, DeadlockVictim, RolledBack

LEMMA OverlapStep ==
  ASSUME StageInv, NEW e \in Edits, EditStep(e)
  PROVE  overlap' \in [Edits -> SUBSET Edits] /\ \A f \in Edits : Overlapped(f)'
<1>1. ScopeFunctions /\ overlap \in [Edits -> SUBSET Edits]
  BY DEF StageInv, WithinReach
<1>2. /\ \A f \in Edits \ {e} : request'[f] = request[f] /\ stage'[f] = stage[f]
      /\ stage[e] # "committed" /\ stage'[e] # "idle"
      /\ stage[e] # "idle" => request'[e] = request[e]
  BY <1>1, OneAtATime, StagesGoOn DEF Untouched
<1>3. overlap' \in [Edits -> SUBSET Edits]
  <2>1. CASE Commit(e)
    BY <1>1, <2>1 DEF Commit
  <2> QED
    BY <1>1, <2>1 DEF EditStep, BeginEdit, UpdateUser, StartDelete, DeleteRow, FinishDelete,
                      InsertRow, EditFails, DeadlockVictim, RolledBack
<1>4. ASSUME NEW f \in Edits, NEW g \in overlap[f]
      PROVE  stage'[g] = "committed" /\ stage'[f] # "idle" /\ ~BothPatch(f, g)'
  <2>1. g \in Edits /\ stage[g] = "committed" /\ stage[f] # "idle" /\ ~BothPatch(f, g)
    BY <1>1 DEF StageInv, Overlapped
  <2>2. g # e /\ request'[f] = request[f]
    BY <1>2, <2>1
  <2> QED
    BY <1>2, <2>1, <2>2 DEF BothPatch
<1>5. ASSUME NEW f \in Edits \ {e}, Commit(e), Deletes(f)
      PROVE  stage'[e] = "committed" /\ stage'[f] # "idle" /\ ~BothPatch(f, e)'
  <2>1. stage[e] = "inserting" /\ stage'[e] = "committed" /\ request' = request
    BY <1>1, <1>5 DEF Commit, ScopeFunctions
  <2>2. stage[f] \in {"deleting", "inserting"} /\ stage'[f] = stage[f]
    BY <1>2, <1>5 DEF Deletes
  <2>3. HoldsLock(e) /\ HoldsLock(f)
    BY <2>1, <2>2 DEF HoldsLock, Running
  <2>4. ~BothPatch(f, e)
    BY <2>3 DEF StageInv, RowLockHeld
  <2> QED
    BY <2>1, <2>2, <2>4 DEF BothPatch
<1>6. ASSUME NEW f \in Edits
      PROVE  Overlapped(f)'
  <2>1. CASE overlap'[f] = overlap[f]
    BY <1>4, <2>1 DEF Overlapped
  <2>2. CASE Commit(e) /\ f # e /\ Deletes(f) /\ overlap'[f] = overlap[f] \cup {e}
    BY <1>4, <1>5, <2>2 DEF Overlapped
  <2> QED
    BY <1>1, <2>1, <2>2, OverlapGrows
<1> QED
  BY <1>3, <1>6

LEMMA StageInit == ScopesInit => StageInv
<1> SUFFICES ASSUME ScopesInit PROVE StageInv
  OBVIOUS
<1>1. WithinReach
  BY ReachInit
<1> QED
  BY <1>1 DEF ScopesInit, StageInv, RowLockHeld, HoldsLock, Running, InHand, Overlapped

LEMMA StageStep ==
  ASSUME StageInv, [ScopesNext]_scopesVars
  PROVE  StageInv'
<1>1. WithinReach'
  BY ReachStep DEF StageInv
<1>2. CASE UNCHANGED <<request, stage, targets, deleted, todo, inserted, overlap>>
  BY <1>1, <1>2 DEF StageInv, RowLockHeld, HoldsLock, Running, InHand, Overlapped, BothPatch
<1>3. ASSUME NEW e \in Edits, EditStep(e)
      PROVE  StageInv'
  <2>1. ScopeFunctions /\ InHand(e) /\ RowLockHeld
    BY DEF StageInv, WithinReach
  <2>2. \A f \in Edits \ {e} : InHand(f)'
    BY <1>3, <2>1, OneAtATime DEF StageInv, InHand, Untouched
  <2>3. InHand(e)' /\ RowLockHeld'
    BY <1>3, <2>1, InHandStep, RowLockStep
  <2>4. overlap' \in [Edits -> SUBSET Edits] /\ \A f \in Edits : Overlapped(f)'
    BY <1>3, OverlapStep
  <2> QED
    BY <1>1, <2>2, <2>3, <2>4 DEF StageInv
<1> QED
  BY <1>2, <1>3 DEF ScopesNext, CreateUser, scopesVars

-----------------------------------------------------------------------------
(* The rows of the account, and what the edits under way make of them.      *)

(* A tenant has one row, written by an edit that is over.                   *)
OneRowEach ==
  /\ \A r, s \in rows : r.product = s.product => r = s
  /\ \A r \in rows : r.by \in Edits => stage[r.by] = "committed"

(* An edit deletes rows that are there and inserts rows that are not.       *)
KeysFree(e) ==
  /\ deleted[e] \subseteq rows
  /\ \A r \in rows \ deleted[e] : r.product \notin inserted[e]

(* Two edits never hold the same row or the same key.                       *)
HandsApart(e, f) == deleted[e] \cap deleted[f] = {} /\ inserted[e] \cap inserted[f] = {}

RowsInv ==
  /\ StageInv
  /\ rows = NoAccount => \A e \in Edits : stage[e] = "idle"
  /\ rows # NoAccount => /\ OneRowEach
                         /\ \A e \in Edits : KeysFree(e)
                         /\ \A e \in Edits : \A f \in Edits \ {e} : HandsApart(e, f)

LEMMA RowsInit == ScopesInit => RowsInv
<1> SUFFICES ASSUME ScopesInit PROVE RowsInv
  OBVIOUS
<1>1. StageInv
  BY StageInit
<1>2. rows # NoAccount => OneRowEach
  BY StaffAssumption DEF ScopesInit, OneRowEach
<1> QED
  BY <1>1, <1>2 DEF ScopesInit, RowsInv, KeysFree, HandsApart

(* An account that is not there is not edited.                              *)
LEMMA AccountThere ==
  ASSUME RowsInv, NEW e \in Edits, EditStep(e)
  PROVE  rows # NoAccount /\ rows \subseteq Row
<1>1. ScopeFunctions
  BY DEF RowsInv, StageInv, WithinReach
<1>2. CASE stage[e] # "idle"
  BY <1>1, <1>2 DEF RowsInv, ScopeFunctions
<1>3. CASE stage[e] = "idle"
  <2>1. BeginEdit(e)
    BY <1>3 DEF EditStep, UpdateUser, StartDelete, DeleteRow, FinishDelete, InsertRow, Commit,
                EditFails, Running, DeadlockVictim, WaitsFor
  <2> QED
    BY <1>1, <2>1 DEF BeginEdit, ScopeFunctions
<1> QED
  BY <1>2, <1>3

(* A committed row goes to its tenant's key alone.                          *)
LEMMA CommitKeepsRows ==
  ASSUME RowsInv, NEW e \in Edits, Commit(e)
  PROVE  /\ rows' # NoAccount /\ rows' \subseteq Row
         /\ OneRowEach'
         /\ \A f \in Edits : KeysFree(f)'
         /\ \A f \in Edits : \A g \in Edits \ {f} : HandsApart(f, g)'
<1>1. /\ ScopeFunctions /\ rows # NoAccount /\ rows \subseteq Row
      /\ OneRowEach /\ \A f \in Edits : KeysFree(f)
      /\ \A f \in Edits : \A g \in Edits \ {f} : HandsApart(f, g)
  BY AccountThere, Zenon DEF RowsInv, StageInv, WithinReach, EditStep
<1> DEFINE new == {[product |-> p, by |-> e] : p \in inserted[e]}
<1>2. /\ rows' = (rows \ deleted[e]) \cup new
      /\ stage[e] = "inserting" /\ stage'[e] = "committed"
      /\ \A f \in Edits \ {e} : stage'[f] = stage[f]
      /\ deleted'[e] = {} /\ inserted'[e] = {}
      /\ \A f \in Edits \ {e} : deleted'[f] = deleted[f] /\ inserted'[f] = inserted[f]
  BY <1>1 DEF Commit, ScopeFunctions
<1>3. \A r \in new : r.by = e /\ r.product \in inserted[e] /\ r \in Row
  BY <1>1 DEF ScopeFunctions, Row
<1>4. \A r, s \in new : r.product = s.product => r = s
  OBVIOUS
<1>5. \A r \in rows \ deleted[e] : r.product \notin inserted[e]
  BY <1>1 DEF KeysFree
<1> HIDE DEF new
<1>6. rows' \subseteq Row /\ rows' # NoAccount
  BY <1>1, <1>2, <1>3, AccountAssumption
<1>7. OneRowEach'
  <2>1. \A r, s \in rows' : r.product = s.product => r = s
    BY <1>1, <1>2, <1>3, <1>4, <1>5 DEF OneRowEach
  <2>2. \A r \in rows' : r.by \in Edits => stage'[r.by] = "committed"
    BY <1>1, <1>2, <1>3 DEF OneRowEach
  <2> QED
    BY <2>1, <2>2 DEF OneRowEach
<1>8. ASSUME NEW f \in Edits \ {e}
      PROVE  KeysFree(f)'
  <2>1. KeysFree(f) /\ HandsApart(f, e)
    BY <1>1
  <2>2. deleted[f] \subseteq rows'
    BY <1>2, <2>1 DEF KeysFree, HandsApart
  <2>3. \A r \in rows' \ deleted[f] : r.product \notin inserted[f]
    BY <1>2, <1>3, <2>1 DEF KeysFree, HandsApart
  <2> QED
    BY <1>2, <2>2, <2>3 DEF KeysFree
<1>9. KeysFree(e)'
  BY <1>2 DEF KeysFree
<1>10. \A f \in Edits : \A g \in Edits \ {f} : HandsApart(f, g)'
  BY <1>1, <1>2 DEF HandsApart
<1> QED
  BY <1>6, <1>7, <1>8, <1>9, <1>10

(* What a step of e leaves in its hands is nobody else's.                   *)
HandsFree(e) ==
  /\ KeysFree(e)'
  /\ \A f \in Edits \ {e} : deleted'[e] \cap deleted[f] = {} /\ inserted'[e] \cap inserted[f] = {}

LEMMA RowsStep ==
  ASSUME RowsInv, [ScopesNext]_scopesVars
  PROVE  RowsInv'
<1>1. StageInv' /\ ScopeFunctions
  BY StageStep DEF RowsInv, StageInv, WithinReach
<1>2. CASE UNCHANGED scopesVars
  BY <1>1, <1>2 DEF scopesVars, RowsInv, OneRowEach, KeysFree, HandsApart
<1>3. CASE CreateUser
  <2>1. \A e \in Edits : stage[e] = "idle" /\ deleted[e] = {} /\ inserted[e] = {}
    BY <1>3 DEF CreateUser, RowsInv, StageInv, InHand
  <2>2. \A r \in rows' : r.by = Origin /\ r = [product |-> r.product, by |-> Origin]
    BY <1>3 DEF CreateUser
  <2>3. OneRowEach'
    BY <2>2, StaffAssumption DEF OneRowEach
  <2> QED
    BY <1>1, <1>3, <2>1, <2>3 DEF CreateUser, RowsInv, KeysFree, HandsApart
<1>4. ASSUME NEW e \in Edits, EditStep(e)
      PROVE  RowsInv'
  <2>1. /\ rows # NoAccount /\ rows \subseteq Row
        /\ OneRowEach /\ \A f \in Edits : KeysFree(f)
        /\ \A f \in Edits : \A g \in Edits \ {f} : HandsApart(f, g)
    BY <1>4, AccountThere, Zenon DEF RowsInv
  <2>2. CASE Commit(e)
    BY <1>1, <2>2, CommitKeepsRows DEF RowsInv
  <2> SUFFICES ASSUME ~Commit(e)
               PROVE  RowsInv'
    BY <2>2
  <2>3. rows' = rows
    BY <1>4 DEF EditStep, BeginEdit, UpdateUser, StartDelete, DeleteRow, FinishDelete,
                InsertRow, EditFails, DeadlockVictim, RolledBack
  <2>4. OneRowEach'
    <3>1. \A f \in Edits : stage[f] = "committed" => stage'[f] = "committed"
      BY <1>1, <1>4, OneAtATime, StagesGoOn DEF Untouched
    <3> QED
      BY <2>1, <2>3, <3>1 DEF OneRowEach
  <2>5. \A f \in Edits \ {e} : deleted'[f] = deleted[f] /\ inserted'[f] = inserted[f]
    BY <1>1, <1>4, OneAtATime DEF Untouched
  <2>6. HandsFree(e)
    <3>1. KeysFree(e) /\ \A f \in Edits \ {e} : HandsApart(e, f)
      BY <2>1
    <3>2. CASE deleted'[e] = deleted[e] /\ inserted'[e] = inserted[e]
      BY <2>3, <3>1, <3>2 DEF KeysFree, HandsApart, HandsFree
    <3>3. CASE deleted'[e] = {} /\ inserted'[e] = {}
      BY <3>3 DEF KeysFree, HandsFree
    <3>4. ASSUME NEW r \in Row, DeleteRow(e, r)
          PROVE  HandsFree(e)
      <4>1. /\ deleted'[e] = deleted[e] \cup ({r} \cap rows) /\ inserted'[e] = inserted[e]
            /\ \A f \in Edits \ {e} : r \notin deleted[f]
        BY <1>1, <3>4 DEF DeleteRow, Deleting, ScopeFunctions
      <4> QED
        BY <2>3, <3>1, <4>1 DEF KeysFree, HandsApart, HandsFree
    <3>5. ASSUME NEW p \in Tenants, InsertRow(e, p)
          PROVE  HandsFree(e)
      <4>1. /\ deleted'[e] = deleted[e]
            /\ inserted'[e] =
                 inserted[e] \cup {q \in {p} : \A r \in rows \ deleted[e] : r.product # q}
            /\ \A f \in Edits \ {e} : p \notin inserted[f]
        BY <1>1, <3>5 DEF InsertRow, KeyHolders, ScopeFunctions
      <4> QED
        BY <2>3, <3>1, <4>1 DEF KeysFree, HandsApart, HandsFree
    <3>6. CASE RolledBack(e)
      BY <1>1, <3>3, <3>6 DEF RolledBack, ScopeFunctions
    <3>7. CASE UNCHANGED <<deleted, inserted>>
      BY <3>2, <3>7
    <3> QED
      BY <1>4, <3>4, <3>5, <3>6, <3>7
      DEF EditStep, BeginEdit, UpdateUser, StartDelete, FinishDelete, EditFails, DeadlockVictim
  <2>7. \A f \in Edits \ {e} : KeysFree(f)'
    BY <2>1, <2>3, <2>5 DEF KeysFree
  <2>8. \A f \in Edits : \A g \in Edits \ {f} : HandsApart(f, g)'
    BY <2>1, <2>5, <2>6 DEF HandsApart, HandsFree
  <2> QED
    BY <1>1, <2>1, <2>3, <2>4, <2>6, <2>7, <2>8 DEF RowsInv, HandsFree
<1> QED
  BY <1>2, <1>3, <1>4 DEF ScopesNext

LEMMA RowsAlways == ScopesSpec => []RowsInv
BY RowsInit, RowsStep, PTL DEF ScopesSpec

-----------------------------------------------------------------------------
(* An edit of scopes from its deletion to its commit.                       *)

(* A row the deletion does not reach is one that another edit has put in.   *)
PutIn(e, r) ==
  r.by \in overlap[e] /\ request[r.by].rescope /\ r.product \in request[r.by].wants

Swept(e) ==
  Deletes(e) => \A r \in rows : r.product \in Visible(request[e])
                                  => r \in targets[e] \cup deleted[e] \/ PutIn(e, r)

(* A tenant the edit deletes and wants it inserts itself.                   *)
Reinserted(e) ==
  stage[e] = "inserting" /\ request[e].rescope =>
    \A r \in deleted[e] :
      r.product \in request[e].wants \ todo[e] => r.product \in inserted[e]

(* A tenant it wants and need not insert is there, or another edit has taken *)
(* it away.                                                                 *)
LeftOut(e, p) ==
  \E f \in overlap[e] : request[f].rescope /\ p \in Visible(request[f]) \ request[f].wants

Met(e) ==
  stage[e] = "inserting" /\ request[e].rescope =>
    \A p \in request[e].wants \ (todo[e] \cup inserted[e]) :
      (\E r \in rows \ deleted[e] : r.product = p) \/ LeftOut(e, p)

Replacing(e) == Swept(e) /\ Reinserted(e) /\ Met(e)

LEMMA NotesLast ==
  ASSUME StageInv, NEW e \in Edits, EditStep(e), NEW f \in Edits
  PROVE  /\ overlap[f] \subseteq overlap'[f]
         /\ \A g \in overlap[f] : request'[g] = request[g]
<1>1. ScopeFunctions /\ overlap \in [Edits -> SUBSET Edits] /\ Overlapped(f)
  BY DEF StageInv, WithinReach
<1>2. overlap[f] \subseteq overlap'[f]
  BY <1>1, OverlapGrows
<1>3. \A g \in overlap[f] : g \in Edits \ {e}
  BY <1>1, StagesGoOn DEF Overlapped
<1> QED
  BY <1>1, <1>2, <1>3, OneAtATime DEF Untouched

LEMMA NotesKept ==
  ASSUME StageInv, NEW e \in Edits, EditStep(e), NEW f \in Edits
  PROVE  /\ \A r : PutIn(f, r) => PutIn(f, r)'
         /\ \A p : LeftOut(f, p) => LeftOut(f, p)'
<1>1. /\ overlap[f] \subseteq overlap'[f]
      /\ \A g \in overlap[f] : request'[g] = request[g]
  BY NotesLast
<1>2. ASSUME NEW r, PutIn(f, r)
      PROVE  PutIn(f, r)'
  BY <1>1, <1>2 DEF PutIn
<1>3. ASSUME NEW p, LeftOut(f, p)
      PROVE  LeftOut(f, p)'
  BY <1>1, <1>3 DEF LeftOut, Visible
<1> QED
  BY <1>2, <1>3

(* The step of an edit and its own deletion and insertions.                 *)
LEMMA OwnStep ==
  ASSUME RowsInv, NEW e \in Edits, EditStep(e), Replacing(e)
  PROVE  Replacing(e)'
<1>1. /\ StageInv /\ ScopeFunctions /\ InHand(e)
      /\ OneRowEach /\ KeysFree(e) /\ rows \subseteq Row
  BY AccountThere DEF RowsInv, StageInv, WithinReach
<1>2. /\ \A r : PutIn(e, r) => PutIn(e, r)'
      /\ \A p : LeftOut(e, p) => LeftOut(e, p)'
  BY <1>1, NotesKept
<1> USE DEF ScopeFunctions, Replacing
<1>3. CASE BeginEdit(e) \/ UpdateUser(e)
  BY <1>1, <1>3 DEF BeginEdit, UpdateUser, Swept, Reinserted, Met, Deletes
<1>4. CASE StartDelete(e)
  BY <1>1, <1>4 DEF StartDelete, Swept, Reinserted, Met, Deletes, Visible
<1>5. CASE FinishDelete(e)
  <2>1. /\ UNCHANGED <<rows, request, targets, deleted>>
        /\ stage[e] = "deleting" /\ stage'[e] = "inserting" /\ todo'[e] = request[e].wants
    BY <1>1, <1>5 DEF FinishDelete
  <2>2. Swept(e)'
    BY <1>2, <2>1 DEF Swept, Deletes, Visible
  <2> QED
    BY <2>1, <2>2 DEF Reinserted, Met
<1>6. ASSUME NEW r \in Row, DeleteRow(e, r)
      PROVE  Replacing(e)'
  <2>1. /\ UNCHANGED <<rows, request, stage>> /\ stage[e] = "deleting"
        /\ deleted'[e] = deleted[e] \cup ({r} \cap rows) /\ targets'[e] = targets[e] \ {r}
    BY <1>1, <1>6 DEF DeleteRow
  <2>2. Swept(e)'
    BY <1>2, <2>1 DEF Swept, Deletes, Visible
  <2> QED
    BY <2>1, <2>2 DEF Reinserted, Met
<1>7. ASSUME NEW p \in Tenants, InsertRow(e, p)
      PROVE  Replacing(e)'
  <2>1. /\ UNCHANGED <<rows, request, stage, targets, deleted>> /\ stage[e] = "inserting"
        /\ p \in todo[e] /\ todo'[e] = todo[e] \ {p}
        /\ inserted'[e] = inserted[e] \cup {q \in {p} : \A r \in rows \ deleted[e] : r.product # q}
    BY <1>1, <1>7 DEF InsertRow
  <2>2. Swept(e)'
    BY <1>2, <2>1 DEF Swept, Deletes, Visible
  <2>3. Reinserted(e)'
    BY <1>1, <2>1 DEF Reinserted, OneRowEach, KeysFree
  <2>4. Met(e)'
    BY <1>2, <2>1 DEF Met
  <2> QED
    BY <2>2, <2>3, <2>4
<1>8. CASE Commit(e)
  BY <1>1, <1>8 DEF Commit, Swept, Reinserted, Met, Deletes
<1>9. RolledBack(e) => Replacing(e)'
  BY <1>1 DEF RolledBack, Swept, Reinserted, Met, Deletes
<1> QED
  BY <1>3, <1>4, <1>5, <1>6, <1>7, <1>8, <1>9 DEF EditStep, EditFails, DeadlockVictim

(* An edit that does not commit leaves the rows, and with them the others.  *)
LEMMA OtherStep ==
  ASSUME RowsInv, NEW e \in Edits, EditStep(e), ~Commit(e),
         NEW f \in Edits \ {e}, Replacing(f)
  PROVE  Replacing(f)'
<1>1. rows' = rows
  BY DEF EditStep, BeginEdit, UpdateUser, StartDelete, DeleteRow, FinishDelete, InsertRow,
         EditFails, DeadlockVictim, RolledBack
<1>2. Untouched(f)
  BY OneAtATime DEF RowsInv, StageInv, WithinReach
<1>3. /\ \A r : PutIn(f, r) => PutIn(f, r)'
      /\ \A p : LeftOut(f, p) => LeftOut(f, p)'
  BY NotesKept DEF RowsInv
<1>4. Swept(f)'
  BY <1>1, <1>2, <1>3 DEF Replacing, Swept, Deletes, Visible, Untouched
<1>5. Reinserted(f)' /\ Met(f)'
  BY <1>1, <1>2, <1>3 DEF Replacing, Reinserted, Met, Untouched
<1> QED
  BY <1>4, <1>5 DEF Replacing

(* What another edit commits meanwhile: a row it puts in, it wants; a row it *)
(* takes away, it sees, and it puts it back if it wants it.                 *)
LEMMA CommitOfOther ==
  ASSUME RowsInv, NEW e \in Edits, Commit(e), Replacing(e),
         NEW f \in Edits \ {e}, Replacing(f)
  PROVE  Replacing(f)'
<1>0. EditStep(e)
  BY DEF EditStep
<1>1. /\ StageInv /\ ScopeFunctions /\ InHand(e) /\ Reached(e)
      /\ OneRowEach /\ KeysFree(e) /\ KeysFree(f) /\ HandsApart(f, e) /\ rows \subseteq Row
  BY <1>0, AccountThere DEF RowsInv, StageInv, WithinReach
<1>2. Untouched(f)
  BY <1>0, <1>1, OneAtATime
<1>3. /\ \A r : PutIn(f, r) => PutIn(f, r)'
      /\ \A p : LeftOut(f, p) => LeftOut(f, p)'
  BY <1>0, <1>1, NotesKept
<1> DEFINE new == {[product |-> p, by |-> e] : p \in inserted[e]}
<1>4. /\ rows' = (rows \ deleted[e]) \cup new /\ UNCHANGED request
      /\ stage[e] = "inserting" /\ todo[e] = {}
      /\ Deletes(f) => overlap'[f] = overlap[f] \cup {e}
  BY <1>1 DEF Commit, StageInv
<1>5. \A r \in new : r.by = e /\ r.product \in inserted[e]
  OBVIOUS
<1>6. inserted[e] \subseteq request[e].wants
  BY <1>1 DEF InHand
<1>7. inserted[e] # {} \/ deleted[e] # {} => request[e].rescope
  BY <1>1 DEF InHand
<1>8. \A r \in new : r.by \in Edits /\ stage[r.by] # "committed"
  BY <1>4, <1>5
<1>9. \A p \in inserted[e] : \E r \in new : r.product = p
  <2>1. \A p \in inserted[e] : [product |-> p, by |-> e] \in new
    OBVIOUS
  <2> QED
    BY <2>1
<1> HIDE DEF new
<1>10. Swept(f)'
  <2> SUFFICES ASSUME Deletes(f)', NEW r \in rows', r.product \in Visible(request[f])'
               PROVE  (r \in targets[f] \cup deleted[f] \/ PutIn(f, r))'
    BY DEF Swept
  <2>1. Deletes(f) /\ r.product \in Visible(request[f])
    BY <1>2, <1>4 DEF Deletes, Visible, Untouched
  <2>2. CASE r \in rows
    BY <1>2, <1>3, <2>1, <2>2 DEF Replacing, Swept, Untouched
  <2>3. CASE r \in new
    BY <1>4, <1>5, <1>6, <1>7, <2>1, <2>3 DEF PutIn
  <2> QED
    BY <1>4, <2>2, <2>3
<1>11. Reinserted(f)'
  BY <1>2 DEF Replacing, Reinserted, Untouched
<1>12. Met(f)'
  <2> SUFFICES ASSUME (stage[f] = "inserting" /\ request[f].rescope)',
                      NEW p \in (request[f].wants \ (todo[f] \cup inserted[f]))'
               PROVE  (\E r \in rows' \ deleted'[f] : r.product = p) \/ LeftOut(f, p)'
    BY DEF Met
  <2>1. /\ stage[f] = "inserting" /\ request[f].rescope
        /\ p \in request[f].wants \ (todo[f] \cup inserted[f])
    BY <1>2 DEF Untouched
  <2>2. overlap'[f] = overlap[f] \cup {e}
    BY <1>4, <2>1 DEF Deletes
  <2>3. CASE LeftOut(f, p)
    BY <1>3, <2>3
  <2>4. ASSUME NEW r \in rows \ deleted[f], r.product = p
        PROVE  (\E s \in rows' \ deleted'[f] : s.product = p) \/ LeftOut(f, p)'
    <3>1. CASE r \notin deleted[e]
      BY <1>2, <1>4, <2>4, <3>1 DEF Untouched
    <3>2. CASE r \in deleted[e] /\ p \notin request[e].wants
      <4>1. request[e].rescope /\ p \in Visible(request[e])
        BY <1>1, <1>7, <2>4, <3>2 DEF Reached, Seen
      <4> QED
        BY <1>4, <2>2, <3>2, <4>1 DEF LeftOut
    <3>3. CASE r \in deleted[e] /\ p \in request[e].wants
      <4>1. p \in inserted[e]
        BY <1>4, <1>7, <2>4, <3>3 DEF Replacing, Reinserted
      <4>2. PICK s \in new : s.product = p
        BY <1>9, <4>1
      <4>3. s \notin rows
        BY <1>1, <1>8 DEF OneRowEach
      <4>4. s \in rows' \ deleted'[f]
        BY <1>1, <1>2, <1>4, <4>3 DEF KeysFree, Untouched
      <4> QED
        BY <4>2, <4>4
    <3> QED
      BY <3>1, <3>2, <3>3
  <2> QED
    BY <2>1, <2>3, <2>4 DEF Replacing, Met
<1> QED
  BY <1>10, <1>11, <1>12 DEF Replacing

ReplaceInv == RowsInv /\ \A e \in Edits : Replacing(e)

LEMMA ReplaceStep ==
  ASSUME ReplaceInv, [ScopesNext]_scopesVars
  PROVE  ReplaceInv'
<1>1. RowsInv'
  BY RowsStep DEF ReplaceInv
<1>2. CASE UNCHANGED scopesVars
  BY <1>1, <1>2 DEF scopesVars, ReplaceInv, Replacing, Swept, Reinserted, Met, PutIn, LeftOut,
                    Deletes, Visible
<1>3. CASE CreateUser
  <2>1. \A e \in Edits : stage'[e] = "idle"
    BY <1>3 DEF CreateUser, ReplaceInv, RowsInv
  <2> QED
    BY <1>1, <2>1 DEF ReplaceInv, Replacing, Swept, Reinserted, Met, Deletes
<1>4. ASSUME NEW e \in Edits, EditStep(e)
      PROVE  ReplaceInv'
  <2>1. Replacing(e)'
    BY <1>4, OwnStep DEF ReplaceInv
  <2>2. ASSUME NEW f \in Edits \ {e}
        PROVE  Replacing(f)'
    BY <1>4, OtherStep, CommitOfOther DEF ReplaceInv
  <2> QED
    BY <1>1, <2>1, <2>2 DEF ReplaceInv
<1> QED
  BY <1>2, <1>3, <1>4 DEF ScopesNext

LEMMA ReplaceAlways == ScopesSpec => []ReplaceInv
<1>1. ScopesInit => ReplaceInv
  <2> SUFFICES ASSUME ScopesInit PROVE ReplaceInv
    OBVIOUS
  <2>1. \A e \in Edits : stage[e] = "idle"
    BY DEF ScopesInit
  <2> QED
    BY <2>1, RowsInit DEF ReplaceInv, Replacing, Swept, Reinserted, Met, Deletes
<1> QED
  BY <1>1, ReplaceStep, PTL DEF ScopesSpec

(* What the commit of an edit of scopes leaves, and leaves out.             *)
ScopesCommit(e) == stage[e] = "inserting" /\ stage'[e] = "committed" /\ request[e].rescope

Replaced(e) ==
  /\ (Scoped(rows') \cap Visible(request[e])) \ request[e].wants
       \subseteq UNION {request[f].wants : f \in Between(e)}
  /\ request[e].wants \ Scoped(rows')
       \subseteq UNION {Visible(request[f]) \ request[f].wants : f \in Between(e)}

LEMMA CommitReplaces ==
  ASSUME ReplaceInv, ScopesNext, NEW e \in Edits, ScopesCommit(e)
  PROVE  Replaced(e)
<1> USE DEF ScopesCommit
<1>1. /\ ScopeFunctions /\ InHand(e) /\ Overlapped(e) /\ Replacing(e)
      /\ overlap[e] \subseteq Edits
  BY DEF ReplaceInv, RowsInv, StageInv, WithinReach
<1>2. Commit(e)
  <2>1. PICK f \in Edits : EditStep(f)
    BY DEF ScopesNext, CreateUser
  <2>2. f = e
    BY <1>1, <2>1, OneAtATime DEF Untouched
  <2>3. EditStep(e)
    BY <2>1, <2>2
  <2> QED
    BY <1>1, <2>3 DEF ScopeFunctions, EditStep, BeginEdit, UpdateUser, StartDelete, DeleteRow,
                      FinishDelete, InsertRow, EditFails, DeadlockVictim, RolledBack
<1> DEFINE new == {[product |-> p, by |-> e] : p \in inserted[e]}
<1>3. rows' = (rows \ deleted[e]) \cup new /\ todo[e] = {} /\ targets[e] = {}
  BY <1>1, <1>2 DEF Commit, InHand
<1>4. \A f \in overlap[e] : request[f].rescope => f \in Between(e)
  BY <1>1 DEF Overlapped, BothPatch, Between
<1>5. \A r \in new : r.product \in request[e].wants
  BY <1>1 DEF InHand
<1>6. \A p \in inserted[e] : \E r \in new : r.product = p
  <2>1. \A p \in inserted[e] : [product |-> p, by |-> e] \in new
    OBVIOUS
  <2> QED
    BY <2>1
<1> HIDE DEF new
<1>7. ASSUME NEW r \in rows', r.product \in Visible(request[e]), r.product \notin request[e].wants
      PROVE  \E f \in Between(e) : r.product \in request[f].wants
  <2>1. r \in rows \ deleted[e]
    BY <1>3, <1>5, <1>7
  <2>2. PutIn(e, r)
    BY <1>1, <1>3, <1>7, <2>1 DEF Replacing, Swept, Deletes
  <2> QED
    BY <1>4, <2>2 DEF PutIn
<1>8. ASSUME NEW p \in request[e].wants, \A r \in rows' : r.product # p
      PROVE  \E f \in Between(e) : p \in Visible(request[f]) \ request[f].wants
  <2>1. p \notin inserted[e]
    BY <1>3, <1>6, <1>8
  <2>2. ~\E r \in rows \ deleted[e] : r.product = p
    BY <1>3, <1>8
  <2>3. LeftOut(e, p)
    BY <1>1, <1>3, <2>1, <2>2 DEF Replacing, Met
  <2> QED
    BY <1>4, <2>3 DEF LeftOut
<1> QED
  BY <1>7, <1>8 DEF Scoped, Replaced

(* EditReplaces for any number of administrators, tenants and edits: when an *)
(* edit of scopes commits, the caller's part of the account's tenants is what *)
(* the caller wanted, but for what edits committed between its deletion and *)
(* its commit put in or left out (replaceScopes).                           *)
THEOREM EditReplacesScopes == ScopesSpec => EditReplaces
<1>1. ReplaceInv /\ [ScopesNext]_scopesVars =>
        [\A e \in Edits : ScopesCommit(e) => Replaced(e)]_scopesVars
  BY CommitReplaces
<1> QED
  BY <1>1, ReplaceAlways, PTL DEF ScopesSpec, EditReplaces, ScopesCommit, Replaced

(* A tenant has at most one row of the account, and every variable keeps its *)
(* type, however edits interleave: ON CONFLICT DO NOTHING under the key     *)
(* (user_id, product_id).                                                   *)
THEOREM StaffTypeCorrect == ScopesSpec => []StaffTypeOK
<1>1. ScopesInit => failedEdits \in 0..MaxFailedEdits
  BY StaffAssumption DEF ScopesInit
<1>2. failedEdits \in 0..MaxFailedEdits /\ [ScopesNext]_scopesVars
        => (failedEdits \in 0..MaxFailedEdits)'
  BY StaffAssumption
  DEF ScopesNext, scopesVars, CreateUser, EditStep, BeginEdit, UpdateUser, StartDelete, DeleteRow,
      FinishDelete, InsertRow, Commit, EditFails, DeadlockVictim
<1>3. RowsInv /\ failedEdits \in 0..MaxFailedEdits => StaffTypeOK
  BY DEF RowsInv, StageInv, WithinReach, ScopeFunctions, OneRowEach, StaffTypeOK
<1> QED
  BY <1>1, <1>2, <1>3, RowsAlways, PTL DEF ScopesSpec
=============================================================================
