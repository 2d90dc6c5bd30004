------------------------- MODULE IdentityKeys_proofs -------------------------
(***************************************************************************)
(* IdentityKeys for any number of keys, tokens and requests and any length of *)
(* its time limits.  What the properties rest on: a key set in the cache or    *)
(* on its way differs from the published one only in keys that have changed   *)
(* since it was sent (Behind), and a forced refetch that is no longer under    *)
(* way has failed or has been stored (ForcedOK).                              *)
(***************************************************************************)
EXTENDS IdentityKeys, SequenceTheorems, TLAPS

-----------------------------------------------------------------------------
(* A key the product uses or has used has the time of its last change.         *)
KeyTimes ==
  \A k \in Keys : /\ changedAt[k] # Never => changedAt[k] <= now
                  /\ k \in published => changedAt[k] # Never

(* A key set of time at, but for the keys that changed later.                  *)
Behind(keys, at, by) ==
  \A k \in Keys : k \in (keys \ published) \cup (published \ keys)
                    => changedAt[k] # Never /\ at <= changedAt[k] + by

StoreOK == jwks # NoKeys => jwks.at <= now /\ Behind(jwks.keys, jwks.at, FetchLimit)

FetchesOK ==
  \A f \in fetches :
    /\ f.began <= now
    /\ Behind(f.seen, f.began, 0)
    /\ f.forced => lastForced # Never /\ f.began <= lastForced
    /\ token[f.token] # Unminted

(* What became of the last forced refetch.                                    *)
ForcedOK ==
  lastForced # Never =>
    /\ lastForced <= now
    /\ \/ \E f \in fetches : f.forced /\ f.began = lastForced
       \/ failedAt # Never /\ lastForced <= failedAt
       \/ jwks # NoKeys /\ lastForced <= jwks.at

(* The key k is published, or was withdrawn not long ago.                      *)
Usable(k, at) ==
  k \notin published => changedAt[k] # Never /\ at < changedAt[k] + FetchLimit + JwksTTL

(* What is remembered under a jti, and what lets a token in.                  *)
EntryOK(j) ==
  verified[j] # NoEntry =>
    /\ verified[j].at <= now
    /\ token[verified[j].token] # Unminted
    /\ Usable(token[verified[j].token].key, verified[j].at)

AnswerOK(t) == Accepted(t) => token[t] # Unminted /\ Remembered(t)

VouchedOK == (\A j \in Jtis : EntryOK(j)) /\ (\A t \in Tokens : AnswerOK(t))

KeysInv ==
  /\ KeysTypeOK
  /\ KeyTimes
  /\ StoreOK
  /\ FetchesOK
  /\ ForcedOK
  /\ VouchedOK

LEMMA KeysInit == Init => KeysInv
<1> SUFFICES ASSUME Init PROVE KeysInv
  OBVIOUS
<1> USE KeysAssumption DEF Init, Never
<1>1. KeysTypeOK
  BY EmptySeq DEF KeysTypeOK, Times, Outcomes, NoAnswer
<1>2. KeyTimes
  BY DEF KeyTimes
<1>3. StoreOK /\ FetchesOK /\ ForcedOK
  BY DEF StoreOK, FetchesOK, ForcedOK
<1>4. VouchedOK
  BY DEF VouchedOK, EntryOK, AnswerOK, Accepted, NoAnswer
<1> QED
  BY <1>1, <1>2, <1>3, <1>4 DEF KeysInv

-----------------------------------------------------------------------------
(* The times and tokens a state holds.                                        *)
LEMMA TimesTyped ==
  ASSUME KeysTypeOK
  PROVE  /\ now \in Nat /\ now # Never /\ Never \in Nat /\ now <= Horizon
         /\ published \subseteq Keys
         /\ \A k \in Keys : changedAt[k] \in Nat
         /\ \A j \in Jtis : verified[j] # NoEntry =>
              verified[j] \in Entry /\ verified[j].at \in Nat /\ verified[j].token \in Tokens
         /\ lastForced \in Nat /\ failedAt \in Nat
         /\ \A f \in fetches : /\ f \in Fetch /\ f.token \in Tokens /\ f.began \in Nat
                               /\ f.seen \subseteq Keys /\ now - f.began <= FetchLimit
         /\ jwks # NoKeys => jwks.at \in Nat /\ jwks.keys \subseteq Keys
BY KeysAssumption DEF KeysTypeOK, Times, Never, Fetch, Entry

LEMMA TokenTyped ==
  ASSUME KeysTypeOK, NEW t \in Tokens, token[t] # Unminted
  PROVE  token[t] \in Token /\ token[t].key \in Keys /\ token[t].jti \in Jtis
BY DEF KeysTypeOK, Token

(* Behind after the step, of a key set from before it.                         *)
BehindNext(keys, at, by) ==
  \A k \in Keys : k \in (keys \ published') \cup (published' \ keys)
                    => changedAt'[k] # Never /\ at <= changedAt'[k] + by

(* A key set is behind by the keys that rotate.                               *)
LEMMA RotateBehind ==
  ASSUME KeysInv, NEW old \in Keys, NEW new \in Keys, Rotate(old, new),
         NEW keys, NEW at \in Nat, NEW by \in Nat, at <= now, Behind(keys, at, by)
  PROVE  BehindNext(keys, at, by)
<1>1. now \in Nat /\ now # Never /\ \A k \in Keys : changedAt[k] \in Nat
  BY TimesTyped DEF KeysInv
<1>2. /\ published' = (published \ {old}) \cup {new}
      /\ changedAt' = [changedAt EXCEPT ![old] = now, ![new] = now]
  BY DEF Rotate
<1>3. changedAt \in [Keys -> 0..Never]
  BY DEF KeysInv, KeysTypeOK
<1>4. /\ changedAt'[old] = now /\ changedAt'[new] = now
      /\ \A k \in Keys \ {old, new} : changedAt'[k] = changedAt[k]
  BY <1>2, <1>3
<1> SUFFICES ASSUME NEW k \in Keys, k \in (keys \ published') \cup (published' \ keys)
             PROVE  changedAt'[k] # Never /\ at <= changedAt'[k] + by
  BY DEF BehindNext
<1>5. CASE k \in {old, new}
  BY <1>1, <1>4, <1>5
<1>6. CASE k \notin {old, new}
  BY <1>2, <1>4, <1>6 DEF Behind
<1> QED
  BY <1>5, <1>6

LEMMA RotateStep ==
  ASSUME KeysInv, NEW old \in Keys, NEW new \in Keys, Rotate(old, new)
  PROVE  KeysInv'
<1> USE KeysAssumption
<1>1. /\ now \in Nat /\ now # Never /\ Never \in Nat
      /\ \A k \in Keys : changedAt[k] \in Nat
      /\ \A f \in fetches : f.began \in Nat
      /\ jwks # NoKeys => jwks.at \in Nat
  BY TimesTyped DEF KeysInv
<1>2. /\ published' = (published \ {old}) \cup {new} /\ old \in published
      /\ changedAt' = [changedAt EXCEPT ![old] = now, ![new] = now]
      /\ UNCHANGED <<now, token, jwks, lastForced, verified, fetches, answer, failedAt, forcedAt>>
  BY DEF Rotate, cacheVars
<1>3. changedAt \in [Keys -> 0..Never]
  BY DEF KeysInv, KeysTypeOK
<1>4. /\ changedAt'[old] = now /\ changedAt'[new] = now
      /\ \A k \in Keys \ {old, new} : changedAt'[k] = changedAt[k]
  BY <1>2, <1>3
<1>5. KeysTypeOK'
  <2>1. now \in 0..Never
    BY DEF KeysInv, KeysTypeOK, Times, Never
  <2>2. changedAt' \in [Keys -> 0..Never]
    BY <1>2, <1>3, <2>1
  <2> QED
    BY <1>2, <2>2 DEF KeysInv, KeysTypeOK
<1>6. KeyTimes'
  <2>1. ASSUME NEW k \in {old, new}
        PROVE  changedAt'[k] = now
    BY <1>4
  <2>2. ASSUME NEW k \in Keys \ {old, new}
        PROVE  /\ changedAt'[k] = changedAt[k] /\ (k \in published' <=> k \in published)
               /\ changedAt[k] # Never => changedAt[k] <= now
               /\ k \in published => changedAt[k] # Never
    BY <1>2, <1>4 DEF KeysInv, KeyTimes
  <2>3. now' = now
    BY <1>2
  <2> QED
    BY <1>1, <2>1, <2>2, <2>3 DEF KeyTimes
<1>7. StoreOK'
  <2>1. CASE jwks = NoKeys
    BY <1>2, <2>1 DEF StoreOK
  <2>2. CASE jwks # NoKeys
    <3>1. jwks.at \in Nat /\ jwks.at <= now /\ Behind(jwks.keys, jwks.at, FetchLimit)
      BY <1>1, <2>2 DEF KeysInv, StoreOK
    <3>2. BehindNext(jwks.keys, jwks.at, FetchLimit)
      BY <3>1, RotateBehind
    <3> QED
      BY <1>2, <3>1, <3>2 DEF StoreOK, Behind, BehindNext
  <2> QED
    BY <2>1, <2>2
<1>8. FetchesOK'
  <2> SUFFICES ASSUME NEW f \in fetches
               PROVE  /\ f.began <= now
                      /\ BehindNext(f.seen, f.began, 0)
                      /\ f.forced => lastForced # Never /\ f.began <= lastForced
                      /\ token[f.token] # Unminted
    BY <1>2 DEF FetchesOK, Behind, BehindNext
  <2>1. /\ f.began \in Nat /\ f.began <= now /\ Behind(f.seen, f.began, 0)
        /\ f.forced => lastForced # Never /\ f.began <= lastForced
        /\ token[f.token] # Unminted
    BY <1>1 DEF KeysInv, FetchesOK
  <2>2. BehindNext(f.seen, f.began, 0)
    BY <2>1, RotateBehind
  <2> QED
    BY <2>1, <2>2
<1>9. ForcedOK'
  BY <1>2 DEF KeysInv, ForcedOK
<1>10. ASSUME NEW j \in Jtis
       PROVE  EntryOK(j)'
  <2>1. CASE verified[j] = NoEntry
    BY <1>2, <2>1 DEF EntryOK
  <2>2. CASE verified[j] # NoEntry
    <3> DEFINE s == verified[j].token
               k == token[s].key
               at == verified[j].at
    <3>1. s \in Tokens /\ at \in Nat
      BY <2>2, TimesTyped DEF KeysInv
    <3>2. token[s] # Unminted /\ at <= now /\ Usable(k, at)
      BY <2>2 DEF KeysInv, VouchedOK, EntryOK
    <3>3. k \in Keys
      BY <3>1, <3>2, TokenTyped DEF KeysInv
    <3>4. verified' = verified /\ token' = token /\ now' = now
      BY <1>2
    <3> SUFFICES token[s] # Unminted /\ at <= now /\ Usable(k, at)'
      BY <3>4 DEF EntryOK
    <3> HIDE DEF k, s, at
    <3>5. k \notin published' => changedAt'[k] # Never
                                   /\ at < changedAt'[k] + FetchLimit + JwksTTL
      <4>1. CASE k \in {old, new}
        BY <1>1, <1>4, <3>1, <3>2, <4>1
      <4>2. CASE k \notin {old, new}
        BY <1>2, <1>4, <3>2, <3>3, <4>2 DEF Usable
      <4> QED
        BY <4>1, <4>2
    <3>6. k' = k /\ at' = at
      BY <3>4 DEF k, s, at
    <3> QED
      BY <3>2, <3>5, <3>6 DEF Usable
  <2> QED
    BY <2>1, <2>2
<1>11. \A t \in Tokens : AnswerOK(t)'
  BY <1>2 DEF KeysInv, VouchedOK, AnswerOK, Accepted, Remembered
<1> QED
  BY <1>5, <1>6, <1>7, <1>8, <1>9, <1>10, <1>11 DEF KeysInv, VouchedOK

LEMMA MintStep ==
  ASSUME KeysInv, NEW t \in Tokens, NEW k \in Keys, NEW life \in Lives,
         NEW j \in Jtis, Mint(t, k, life, j)
  PROVE  KeysInv'
<1> USE KeysAssumption
<1>1. /\ now \in Nat /\ now <= Horizon /\ now # Never
  BY TimesTyped DEF KeysInv
<1> DEFINE new == [iat |-> now, exp |-> now + life, key |-> k, jti |-> j]
<1>2. /\ token[t] = Unminted /\ token' = [token EXCEPT ![t] = new]
      /\ UNCHANGED <<now, published, changedAt, jwks, lastForced, verified, fetches, answer,
                     failedAt, forcedAt>>
  BY DEF Mint, cacheVars
<1>3. new \in Token /\ new # Unminted
  BY <1>1 DEF Lives, Token, Times, Unminted
<1> HIDE DEF new
<1>4. /\ token \in [Tokens -> Token \cup {Unminted}]
      /\ token'[t] = new /\ \A s \in Tokens \ {t} : token'[s] = token[s]
  BY <1>2 DEF KeysInv, KeysTypeOK
<1>5. KeysTypeOK'
  <2>1. token' \in [Tokens -> Token \cup {Unminted}]
    BY <1>2, <1>3, <1>4
  <2> QED
    BY <1>2, <2>1 DEF KeysInv, KeysTypeOK
<1>6. KeyTimes' /\ StoreOK' /\ ForcedOK'
  BY <1>2 DEF KeysInv, KeyTimes, StoreOK, Behind, ForcedOK
<1>7. FetchesOK'
  <2>1. \A f \in fetches : f.token \in Tokens /\ f.token # t
    BY <1>2, TimesTyped DEF KeysInv, FetchesOK
  <2> QED
    BY <1>2, <1>4, <2>1 DEF KeysInv, FetchesOK, Behind
<1>8. ASSUME NEW i \in Jtis
      PROVE  EntryOK(i)'
  <2>1. CASE verified[i] = NoEntry
    BY <1>2, <2>1 DEF EntryOK
  <2>2. CASE verified[i] # NoEntry
    <3>1. verified[i].token \in Tokens /\ token[verified[i].token] # Unminted
      BY <2>2, TimesTyped DEF KeysInv, VouchedOK, EntryOK
    <3>2. token'[verified[i].token] = token[verified[i].token]
      BY <1>2, <1>4, <3>1
    <3> QED
      BY <1>2, <2>2, <3>2 DEF KeysInv, VouchedOK, EntryOK, Usable
  <2> QED
    BY <2>1, <2>2
<1>9. ASSUME NEW s \in Tokens
      PROVE  AnswerOK(s)'
  <2>1. AnswerOK(s)
    BY DEF KeysInv, VouchedOK
  <2>2. CASE s = t
    BY <1>2, <2>1, <2>2 DEF AnswerOK, Accepted
  <2>3. CASE s # t
    <3>1. token'[s] = token[s]
      BY <1>4, <2>3
    <3> QED
      BY <1>2, <2>1, <3>1 DEF AnswerOK, Accepted, Remembered
  <2> QED
    BY <2>2, <2>3
<1> QED
  BY <1>5, <1>6, <1>7, <1>8, <1>9 DEF KeysInv, VouchedOK

-----------------------------------------------------------------------------
(* What answering a request does.                                             *)

LEMMA AnswerKeeps ==
  ASSUME KeysInv, UNCHANGED <<now, published, changedAt, token, verified>>,
         \A s \in Tokens : answer'[s] = "accepted" =>
           answer[s] = "accepted" \/ (token[s] # Unminted /\ Remembered(s))
  PROVE  VouchedOK'
<1>1. ASSUME NEW j \in Jtis PROVE EntryOK(j)'
  BY DEF KeysInv, VouchedOK, EntryOK, Usable
<1>2. ASSUME NEW s \in Tokens PROVE AnswerOK(s)'
  BY DEF KeysInv, VouchedOK, AnswerOK, Accepted, Remembered
<1> QED
  BY <1>1, <1>2 DEF VouchedOK

LEMMA AcceptKeeps ==
  ASSUME KeysInv, UNCHANGED <<now, published, changedAt, token>>,
         NEW t \in Tokens, token[t] # Unminted, Usable(token[t].key, now), Accept(t)
  PROVE  /\ VouchedOK'
         /\ verified' \in [Jtis -> Entry \cup {NoEntry}]
         /\ answer' \in [Tokens -> Outcomes]
<1> USE KeysAssumption
<1>1. now \in Nat /\ now # Never /\ now \in Times
  BY TimesTyped DEF KeysInv, KeysTypeOK
<1>2. verified \in [Jtis -> Entry \cup {NoEntry}] /\ answer \in [Tokens -> Outcomes]
  BY DEF KeysInv, KeysTypeOK
<1>3. CASE ShortLived(t)
  <2> DEFINE i == token[t].jti
             e == [at |-> now, token |-> t]
  <2>1. verified' = [verified EXCEPT ![i] = e] /\ answer' = [answer EXCEPT ![t] = "accepted"]
    BY <1>3 DEF Accept, Answered
  <2>2. e \in Entry /\ e # NoEntry /\ e.at = now /\ e.token = t
    BY <1>1 DEF Entry, NoEntry
  <2>3. i \in Jtis
    BY TokenTyped DEF KeysInv
  <2> HIDE DEF e, i
  <2>4. verified' \in [Jtis -> Entry \cup {NoEntry}] /\ answer' \in [Tokens -> Outcomes]
    BY <1>2, <2>1, <2>2 DEF Outcomes
  <2>5. verified'[i] = e /\ \A j \in Jtis \ {i} : verified'[j] = verified[j]
    BY <1>2, <2>1, <2>3
  <2>6. ASSUME NEW j \in Jtis PROVE EntryOK(j)'
    <3>1. CASE j = i
      BY <1>1, <2>2, <2>5, <3>1 DEF EntryOK, Usable
    <3>2. CASE j # i
      <4>1. verified'[j] = verified[j] /\ EntryOK(j)
        BY <2>5, <3>2 DEF KeysInv, VouchedOK
      <4> QED
        BY <4>1 DEF EntryOK, Usable
    <3> QED
      BY <3>1, <3>2
  <2>7. ASSUME NEW s \in Tokens, answer'[s] = "accepted"
        PROVE  token[s] # Unminted /\ Remembered(s)'
    <3>1. token[s] # Unminted /\ (s # t => Remembered(s))
      BY <1>2, <2>1, <2>7 DEF KeysInv, VouchedOK, AnswerOK, Accepted
    <3>2. token[s].jti \in Jtis
      BY <3>1, TokenTyped DEF KeysInv
    <3>3. CASE token[s].jti = i
      <4>1. verified'[token[s].jti] = e /\ token' = token /\ now' = now
        BY <2>5, <3>3
      <4>2. now - e.at <= Lifetime
        BY <1>1, <2>2
      <4> QED
        BY <2>2, <3>1, <4>1, <4>2 DEF Remembered
    <3>4. CASE token[s].jti # i
      <4>1. s # t /\ verified'[token[s].jti] = verified[token[s].jti]
        BY <2>5, <3>2, <3>4 DEF i
      <4> QED
        BY <3>1, <4>1 DEF Remembered
    <3> QED
      BY <3>1, <3>3, <3>4
  <2> QED
    BY <2>4, <2>6, <2>7 DEF VouchedOK, AnswerOK, Accepted
<1>4. CASE ~ShortLived(t)
  <2>1. verified' = verified /\ answer' = [answer EXCEPT ![t] = "invalid"]
    BY <1>4 DEF Accept, Answered
  <2>2. \A s \in Tokens : answer'[s] = "accepted" => answer[s] = "accepted"
    BY <1>2, <2>1
  <2>3. answer' \in [Tokens -> Outcomes]
    BY <1>2, <2>1 DEF Outcomes
  <2> QED
    BY <1>2, <2>1, <2>2, <2>3, AnswerKeeps
<1> QED
  BY <1>3, <1>4

(* An answer other than acceptance.                                           *)
LEMMA RejectKeeps ==
  ASSUME KeysInv, UNCHANGED <<now, published, changedAt, token, verified>>,
         NEW t \in Tokens,
         UNCHANGED answer \/ Answered(t, "invalid") \/ Answered(t, "unreachable")
  PROVE  /\ VouchedOK'
         /\ answer' \in [Tokens -> Outcomes]
<1>1. answer \in [Tokens -> Outcomes]
  BY DEF KeysInv, KeysTypeOK
<1>2. /\ \A s \in Tokens : answer'[s] = "accepted" => answer[s] = "accepted"
      /\ answer' \in [Tokens -> Outcomes]
  BY <1>1 DEF Answered, Outcomes
<1> QED
  BY <1>2, AnswerKeeps

LEMMA RememberedStep ==
  ASSUME KeysInv, NEW t \in Tokens, VerifyRemembered(t)
  PROVE  KeysInv'
<1>1. /\ UNCHANGED <<now, published, changedAt, token, jwks, lastForced, verified, fetches,
                     failedAt, forcedAt>>
      /\ token[t] # Unminted /\ Remembered(t) /\ answer' = [answer EXCEPT ![t] = "accepted"]
  BY DEF VerifyRemembered, Answered, cacheVars
<1>2. /\ answer' \in [Tokens -> Outcomes]
      /\ \A s \in Tokens \ {t} : answer'[s] = answer[s]
  BY <1>1 DEF KeysInv, KeysTypeOK, Outcomes
<1>3. VouchedOK'
  BY <1>1, <1>2, AnswerKeeps
<1>4. KeysTypeOK'
  BY <1>1, <1>2 DEF KeysInv, KeysTypeOK
<1> QED
  BY <1>1, <1>3, <1>4 DEF KeysInv, KeyTimes, StoreOK, FetchesOK, ForcedOK, Behind

-----------------------------------------------------------------------------
(* Requests that wait.                                                        *)

FetchesTyped == fetches \subseteq Fetch /\ \A f \in fetches : now - f.began <= FetchLimit

LEMMA RequestTyped ==
  ASSUME KeysInv, NEW t \in Tokens, NEW forced \in BOOLEAN
  PROVE  /\ Request(t, forced) \in Fetch
         /\ Request(t, forced).token = t /\ Request(t, forced).forced = forced
         /\ Request(t, forced).began = now /\ Request(t, forced).seen = published
BY TimesTyped, KeysAssumption DEF KeysInv, KeysTypeOK, Request, Fetch, Times

(* A sequence one longer.                                                     *)
LEMMA Appended ==
  ASSUME NEW S, NEW q \in Seq(S), NEW x \in S
  PROVE  /\ Append(q, x) \in Seq(S)
         /\ Len(q) \in Nat /\ DOMAIN q = 1..Len(q)
         /\ \A i \in 1..Len(q) : q[i] \in S
         /\ DOMAIN Append(q, x) = 1..(Len(q) + 1) /\ Append(q, x)[Len(q) + 1] = x
         /\ \A i \in 1..Len(q) : Append(q, x)[i] = q[i]
BY AppendProperties, LenProperties, ElementOfSeq

LEMMA ForcedTyped ==
  ASSUME KeysInv, UNCHANGED forcedAt \/ forcedAt' = Append(forcedAt, now)
  PROVE  forcedAt' \in Seq(Times)
BY Appended DEF KeysInv, KeysTypeOK

LEMMA FetchesStay ==
  ASSUME KeysInv, fetches' \subseteq fetches,
         UNCHANGED <<now, published, changedAt, token, lastForced>>
  PROVE  FetchesOK' /\ FetchesTyped'
BY DEF KeysInv, KeysTypeOK, FetchesOK, FetchesTyped, Behind

LEMMA FetchAdded ==
  ASSUME KeysInv, UNCHANGED <<now, published, changedAt, token>>,
         NEW t \in Tokens, token[t] # Unminted, NEW forced \in BOOLEAN,
         fetches' \subseteq fetches \cup {Request(t, forced)},
         lastForced' = IF forced THEN now ELSE lastForced
  PROVE  FetchesOK' /\ FetchesTyped'
<1> USE KeysAssumption
<1>1. /\ now \in Nat /\ now # Never /\ lastForced \in Nat
      /\ \A f \in fetches : f \in Fetch /\ f.began \in Nat /\ now - f.began <= FetchLimit
  BY TimesTyped DEF KeysInv
<1> DEFINE g == Request(t, forced)
<1>2. /\ g \in Fetch /\ g.token = t /\ g.forced = forced /\ g.began = now /\ g.seen = published
  BY RequestTyped
<1> HIDE DEF g
<1>3. ASSUME NEW f \in fetches'
      PROVE  /\ f \in Fetch /\ now - f.began <= FetchLimit /\ f.began <= now
             /\ Behind(f.seen, f.began, 0)
             /\ f.forced => lastForced' # Never /\ f.began <= lastForced'
             /\ token[f.token] # Unminted
  <2>1. CASE f = g
    BY <1>1, <1>2, <2>1 DEF Behind
  <2>2. CASE f # g
    <3>1. f \in fetches
      BY <2>2 DEF g
    <3> QED
      BY <1>1, <3>1 DEF KeysInv, FetchesOK
  <2> QED
    BY <2>1, <2>2
<1> QED
  BY <1>3 DEF FetchesOK, FetchesTyped, Behind

(* The request of t retries with a refetch.                  *)
LEMMA RetryForced ==
  ASSUME KeysInv, UNCHANGED <<now, published, changedAt, token>>,
         NEW t \in Tokens, RefetchAllowed(t), Retry(t), Request(t, TRUE) \in fetches'
  PROVE  /\ ForcedOK' /\ lastForced' \in 0..Never /\ lastForced' = now
         /\ forcedAt' \in Seq(Times)
<1> USE KeysAssumption
<1>1. now \in Nat /\ now # Never /\ now <= Horizon /\ Never \in Nat
  BY TimesTyped DEF KeysInv
<1>2. lastForced' = now /\ forcedAt' \in Seq(Times)
  BY ForcedTyped DEF Retry
<1>3. Request(t, TRUE).forced /\ Request(t, TRUE).began = now
  BY RequestTyped
<1>4. lastForced' \in 0..Never
  BY <1>1, <1>2 DEF Never
<1>5. \E f \in fetches' : f.forced /\ f.began = lastForced'
  BY <1>2, <1>3
<1>6. lastForced' <= now'
  BY <1>1, <1>2
<1> QED
  BY <1>2, <1>4, <1>5, <1>6 DEF ForcedOK

-----------------------------------------------------------------------------
LEMMA FetchingStep ==
  ASSUME KeysInv, NEW t \in Tokens, VerifyFetching(t)
  PROVE  KeysInv'
<1>1. /\ UNCHANGED <<now, published, changedAt, token, jwks, lastForced, verified, answer,
                     failedAt, forcedAt>>
      /\ token[t] # Unminted /\ fetches' = fetches \cup {Request(t, FALSE)}
  BY DEF VerifyFetching, Fetching, cacheVars, Request
<1>2. FetchesOK' /\ FetchesTyped'
  BY <1>1, FetchAdded
<1>3. KeysTypeOK'
  BY <1>1, <1>2 DEF KeysInv, KeysTypeOK, FetchesTyped
<1>4. ForcedOK'
  BY <1>1 DEF KeysInv, ForcedOK
<1> QED
  BY <1>1, <1>2, <1>3, <1>4 DEF KeysInv, KeyTimes, StoreOK, Behind, VouchedOK,
                                    EntryOK, AnswerOK, Accepted, Remembered, Usable

LEMMA CachedStep ==
  ASSUME KeysInv, NEW t \in Tokens, VerifyCached(t)
  PROVE  KeysInv'
<1> USE KeysAssumption
<1>1. /\ UNCHANGED <<now, published, changedAt, token, jwks, failedAt>>
      /\ token[t] # Unminted /\ FreshKeys(t)
  BY DEF VerifyCached
<1>2. /\ now \in Nat /\ \A k \in Keys : changedAt[k] \in Nat
      /\ jwks # NoKeys /\ jwks.at \in Nat /\ jwks.at <= now /\ now - jwks.at < JwksTTL
      /\ Behind(jwks.keys, jwks.at, FetchLimit)
  BY <1>1, TimesTyped DEF KeysInv, StoreOK, FreshKeys
<1>3. token[t].key \in Keys
  BY <1>1, TokenTyped DEF KeysInv
<1>4. KeyTimes' /\ StoreOK'
  BY <1>1 DEF KeysInv, KeyTimes, StoreOK, Behind
<1>5. CASE Verifies(t, jwks.keys)
  <2>1. Accept(t) /\ UNCHANGED <<lastForced, forcedAt, fetches>>
    BY <1>5 DEF VerifyCached
  <2>2. token[t].key \in jwks.keys
    BY <1>5 DEF Verifies
  <2>3. Usable(token[t].key, now)
    BY <1>2, <1>3, <2>2 DEF Usable, Behind
  <2>4. /\ VouchedOK'
        /\ verified' \in [Jtis -> Entry \cup {NoEntry}] /\ answer' \in [Tokens -> Outcomes]
    BY <1>1, <2>1, <2>3, AcceptKeeps
  <2>5. FetchesOK' /\ FetchesTyped'
    BY <1>1, <2>1, FetchesStay
  <2>6. ForcedOK'
    BY <1>1, <2>1 DEF KeysInv, ForcedOK
  <2>7. KeysTypeOK'
    BY <1>1, <2>1, <2>4 DEF KeysInv, KeysTypeOK
  <2> QED
    BY <1>4, <2>4, <2>5, <2>6, <2>7 DEF KeysInv
<1>6. CASE ~Verifies(t, jwks.keys) /\ RefetchAllowed(t)
  <2>1. /\ Retry(t) /\ lastForced' = now /\ UNCHANGED <<answer, verified>>
        /\ fetches' = fetches \cup {Request(t, TRUE)}
    BY <1>6 DEF VerifyCached, Retry, Fetching, Request
  <2>2. FetchesOK' /\ FetchesTyped'
    BY <1>1, <2>1, FetchAdded
  <2>3. ForcedOK' /\ lastForced' \in 0..Never /\ forcedAt' \in Seq(Times)
    BY <1>1, <1>6, <2>1, RetryForced
  <2>4. VouchedOK'
    BY <1>1, <2>1, RejectKeeps
  <2>5. KeysTypeOK'
    BY <1>1, <2>1, <2>2, <2>3 DEF KeysInv, KeysTypeOK, FetchesTyped
  <2> QED
    BY <1>4, <2>2, <2>3, <2>4, <2>5 DEF KeysInv
<1>7. CASE ~Verifies(t, jwks.keys) /\ ~RefetchAllowed(t)
  <2>1. Answered(t, "invalid") /\ UNCHANGED <<lastForced, forcedAt, fetches, verified>>
    BY <1>7 DEF VerifyCached, Retry, Refused
  <2>2. FetchesOK' /\ FetchesTyped'
    BY <1>1, <2>1, FetchesStay
  <2>3. VouchedOK' /\ answer' \in [Tokens -> Outcomes]
    BY <1>1, <2>1, RejectKeeps
  <2>4. ForcedOK'
    BY <1>1, <2>1 DEF KeysInv, ForcedOK
  <2>5. KeysTypeOK'
    BY <1>1, <2>1, <2>3 DEF KeysInv, KeysTypeOK
  <2> QED
    BY <1>4, <2>2, <2>3, <2>4, <2>5 DEF KeysInv
<1> QED
  BY <1>5, <1>6, <1>7

(* The key set a fetch brings.                                                *)
LEMMA BroughtBehind ==
  ASSUME KeysInv, NEW f \in fetches, NEW keys, keys \in {f.seen, published}
  PROVE  Behind(keys, now, FetchLimit)
<1> USE KeysAssumption
<1>1. /\ now \in Nat /\ f.began \in Nat /\ now - f.began <= FetchLimit /\ f.began <= now
      /\ \A k \in Keys : changedAt[k] \in Nat
  BY TimesTyped DEF KeysInv, FetchesOK
<1>2. Behind(f.seen, f.began, 0)
  BY DEF KeysInv, FetchesOK
<1>3. CASE keys = f.seen
  BY <1>1, <1>2, <1>3 DEF Behind
<1>4. CASE keys = published
  BY <1>4 DEF Behind
<1> QED
  BY <1>3, <1>4

LEMMA DoneStep ==
  ASSUME KeysInv, NEW f \in fetches, NEW keys \in SUBSET Keys, FetchDone(f, keys)
  PROVE  KeysInv'
<1> USE KeysAssumption
<1> DEFINE t == f.token
<1>1. /\ UNCHANGED <<now, published, changedAt, token, failedAt>>
      /\ keys \in {f.seen, published} /\ jwks' = [at |-> now, keys |-> keys]
  BY DEF FetchDone
<1>2. /\ now \in Nat /\ now \in Times /\ now # Never /\ f \in Fetch /\ t \in Tokens
      /\ token[t] # Unminted /\ \A k \in Keys : changedAt[k] \in Nat
  BY TimesTyped DEF KeysInv, KeysTypeOK, FetchesOK
<1>3. token[t].key \in Keys
  BY <1>2, TokenTyped DEF KeysInv
<1>4. Behind(keys, now, FetchLimit)
  BY <1>1, BroughtBehind
<1>5. /\ jwks'.at = now /\ jwks'.keys = keys /\ jwks' # NoKeys
      /\ jwks' \in [at : Times, keys : SUBSET Keys]
  BY <1>1, <1>2 DEF NoKeys
<1>6. KeyTimes' /\ StoreOK'
  BY <1>1, <1>2, <1>4, <1>5 DEF KeysInv, KeyTimes, StoreOK, Behind
<1>7. lastForced' = lastForced => ForcedOK'
  BY <1>1, <1>5 DEF KeysInv, ForcedOK
<1> HIDE DEF t
<1>8. CASE Verifies(t, keys)
  <2>1. Accept(t) /\ fetches' = fetches \ {f} /\ UNCHANGED <<lastForced, forcedAt>>
    BY <1>8 DEF FetchDone, t
  <2>2. token[t].key \in keys
    BY <1>8 DEF Verifies
  <2>3. Usable(token[t].key, now)
    BY <1>2, <1>3, <1>4, <2>2 DEF Usable, Behind
  <2>4. /\ VouchedOK'
        /\ verified' \in [Jtis -> Entry \cup {NoEntry}] /\ answer' \in [Tokens -> Outcomes]
    BY <1>1, <1>2, <2>1, <2>3, AcceptKeeps
  <2>5. FetchesOK' /\ FetchesTyped'
    BY <1>1, <2>1, FetchesStay
  <2>6. KeysTypeOK'
    BY <1>1, <1>5, <2>1, <2>4, <2>5 DEF KeysInv, KeysTypeOK, FetchesTyped
  <2> QED
    BY <1>6, <1>7, <2>1, <2>4, <2>5, <2>6 DEF KeysInv
<1>9. CASE ~Verifies(t, keys) /\ ~f.forced /\ RefetchAllowed(t)
  <2>1. /\ Retry(t) /\ lastForced' = now /\ UNCHANGED <<answer, verified>>
        /\ fetches' = (fetches \ {f}) \cup {Request(t, TRUE)}
    BY <1>9 DEF FetchDone, Retry, Request, t
  <2>2. FetchesOK' /\ FetchesTyped'
    BY <1>1, <1>2, <2>1, FetchAdded
  <2>3. ForcedOK' /\ lastForced' \in 0..Never /\ forcedAt' \in Seq(Times)
    BY <1>1, <1>2, <1>9, <2>1, RetryForced
  <2>4. VouchedOK'
    BY <1>1, <1>2, <2>1, RejectKeeps
  <2>5. KeysTypeOK'
    BY <1>1, <1>5, <2>1, <2>2, <2>3 DEF KeysInv, KeysTypeOK, FetchesTyped
  <2> QED
    BY <1>6, <2>2, <2>3, <2>4, <2>5 DEF KeysInv
<1>10. CASE ~Verifies(t, keys) /\ (f.forced \/ ~RefetchAllowed(t))
  <2>1. /\ Answered(t, "invalid") /\ UNCHANGED <<lastForced, forcedAt, verified>>
        /\ fetches' \subseteq fetches
    BY <1>10 DEF FetchDone, Retry, Refused, t
  <2>2. FetchesOK' /\ FetchesTyped'
    BY <1>1, <2>1, FetchesStay
  <2>3. VouchedOK' /\ answer' \in [Tokens -> Outcomes]
    BY <1>1, <1>2, <2>1, RejectKeeps
  <2>4. KeysTypeOK'
    BY <1>1, <1>5, <2>1, <2>2, <2>3 DEF KeysInv, KeysTypeOK, FetchesTyped
  <2> QED
    BY <1>6, <1>7, <2>1, <2>2, <2>3, <2>4 DEF KeysInv
<1> QED
  BY <1>8, <1>9, <1>10

LEMMA FailsStep ==
  ASSUME KeysInv, NEW f \in fetches, FetchFails(f)
  PROVE  KeysInv'
<1> USE KeysAssumption
<1>1. /\ UNCHANGED <<now, published, changedAt, token, jwks, lastForced, verified, forcedAt>>
      /\ fetches' = fetches \ {f} /\ failedAt' = IF f.forced THEN now ELSE failedAt
      /\ Answered(f.token, "invalid") \/ Answered(f.token, "unreachable")
  BY DEF FetchFails, cacheVars
<1>2. /\ now \in Nat /\ now # Never /\ now <= Horizon /\ Never \in Nat /\ lastForced \in Nat
      /\ failedAt \in 0..Never /\ f.token \in Tokens
  BY TimesTyped DEF KeysInv, KeysTypeOK
<1>3. FetchesOK' /\ FetchesTyped'
  BY <1>1, FetchesStay
<1>4. VouchedOK' /\ answer' \in [Tokens -> Outcomes]
  BY <1>1, <1>2, RejectKeeps
<1>5. failedAt' \in 0..Never
  BY <1>1, <1>2 DEF Never
<1>6. KeysTypeOK'
  BY <1>1, <1>3, <1>4, <1>5 DEF KeysInv, KeysTypeOK, FetchesTyped
<1>7. ForcedOK'
  <2>1. CASE f.forced
    BY <1>1, <1>2, <2>1 DEF KeysInv, ForcedOK
  <2>2. CASE ~f.forced
    BY <1>1, <2>2 DEF KeysInv, ForcedOK
  <2> QED
    BY <2>1, <2>2
<1> QED
  BY <1>1, <1>3, <1>4, <1>6, <1>7 DEF KeysInv, KeyTimes, StoreOK, Behind

LEMMA TickStep ==
  ASSUME KeysInv, Tick
  PROVE  KeysInv'
<1> USE KeysAssumption
<1>1. /\ UNCHANGED <<published, changedAt, token, jwks, fetches, lastForced, verified, failedAt,
                     forcedAt>>
      /\ now < Horizon /\ now' = now + 1 /\ answer' = NoAnswer
      /\ \A f \in fetches : now - f.began < FetchLimit
  BY DEF Tick, cacheVars, InTime
<1>2. /\ now \in Nat /\ \A k \in Keys : changedAt[k] \in Nat
      /\ \A j \in Jtis : verified[j] # NoEntry => verified[j].at \in Nat
      /\ lastForced \in Nat
      /\ \A f \in fetches : f.began \in Nat
      /\ jwks # NoKeys => jwks.at \in Nat
  BY TimesTyped DEF KeysInv
<1>3. KeysTypeOK'
  <2>1. now' \in Times /\ answer' \in [Tokens -> Outcomes]
    BY <1>1, <1>2 DEF Times, NoAnswer, Outcomes
  <2>2. \A f \in fetches : now' - f.began <= FetchLimit
    BY <1>1, <1>2
  <2> QED
    BY <1>1, <2>1, <2>2 DEF KeysInv, KeysTypeOK
<1>4. KeyTimes'
  BY <1>1, <1>2 DEF KeysInv, KeyTimes
<1>5. StoreOK'
  BY <1>1, <1>2 DEF KeysInv, StoreOK, Behind
<1>6. FetchesOK'
  BY <1>1, <1>2 DEF KeysInv, FetchesOK, Behind
<1>7. ForcedOK'
  BY <1>1, <1>2 DEF KeysInv, ForcedOK
<1>8. ASSUME NEW j \in Jtis PROVE EntryOK(j)'
  BY <1>1, <1>2 DEF KeysInv, VouchedOK, EntryOK, Usable
<1>9. ASSUME NEW t \in Tokens PROVE AnswerOK(t)'
  BY <1>1 DEF NoAnswer, AnswerOK, Accepted
<1> QED
  BY <1>3, <1>4, <1>5, <1>6, <1>7, <1>8, <1>9 DEF KeysInv, VouchedOK

LEMMA KeysStep == KeysInv /\ [Next]_vars => KeysInv'
<1> SUFFICES ASSUME KeysInv, [Next]_vars PROVE KeysInv'
  OBVIOUS
<1>1. ASSUME NEW old \in Keys, NEW new \in Keys, Rotate(old, new) PROVE KeysInv'
  BY <1>1, RotateStep
<1>2. ASSUME NEW t \in Tokens, NEW k \in Keys, NEW life \in Lives, NEW j \in Jtis,
             Mint(t, k, life, j)
      PROVE  KeysInv'
  BY <1>2, MintStep
<1>3. ASSUME NEW t \in Tokens, VerifyRemembered(t) PROVE KeysInv'
  BY <1>3, RememberedStep
<1>4. ASSUME NEW t \in Tokens, VerifyCached(t) PROVE KeysInv'
  BY <1>4, CachedStep
<1>5. ASSUME NEW t \in Tokens, VerifyFetching(t) PROVE KeysInv'
  BY <1>5, FetchingStep
<1>6. ASSUME NEW f \in fetches, NEW keys \in SUBSET Keys, FetchDone(f, keys) PROVE KeysInv'
  BY <1>6, DoneStep
<1>7. ASSUME NEW f \in fetches, FetchFails(f) PROVE KeysInv'
  BY <1>7, FailsStep
<1>8. CASE Tick
  BY <1>8, TickStep
<1>9. CASE UNCHANGED vars
  BY <1>9 DEF vars, cacheVars, KeysInv, KeysTypeOK, KeyTimes, StoreOK, FetchesOK, ForcedOK, Behind,
              VouchedOK, EntryOK, AnswerOK, Accepted, Remembered, Usable
<1> QED
  BY <1>1, <1>2, <1>3, <1>4, <1>5, <1>6, <1>7, <1>8, <1>9 DEF Next, ProductStep, VerifyStep

LEMMA KeysAlways == Spec => []KeysInv
<1>1. Init => KeysInv
  BY KeysInit
<1>2. KeysInv /\ [Next]_vars => KeysInv'
  BY KeysStep
<1> QED
  BY <1>1, <1>2, PTL DEF Spec

(* Every variable keeps its type, for any number of keys and tokens.           *)
THEOREM KeysTypeCorrect == Spec => []KeysTypeOK
<1>1. KeysInv => KeysTypeOK
  BY DEF KeysInv
<1> QED
  BY <1>1, KeysAlways, PTL

-----------------------------------------------------------------------------
(* Whoever is let in goes as the user of a token that was verified, and a key   *)
(* that the product has withdrawn vouches for nobody longer than one fetch, one *)
(* key-set lifetime and one verified-token lifetime later (FETCH_TIMEOUT_MS,   *)
(* JWKS_TTL_MS and MAX_TTL_SECONDS).                                         *)
THEOREM WithdrawnKeyIsForgotten == Spec => []WithdrawnKeyDies
<1>1. ASSUME KeysInv, NEW t \in Tokens, Accepted(t), Withdrawn(token[Voucher(t)].key)
      PROVE  now < changedAt[token[Voucher(t)].key] + FetchLimit + JwksTTL + Lifetime
  <2> DEFINE e == verified[token[t].jti]
             k == token[e.token].key
  <2>1. token[t] # Unminted /\ e # NoEntry /\ now - e.at <= Lifetime
    BY <1>1 DEF KeysInv, VouchedOK, AnswerOK, Remembered
  <2>2. token[t].jti \in Jtis
    BY <1>1, <2>1, TokenTyped DEF KeysInv
  <2>3. e.at <= now /\ token[e.token] # Unminted /\ Usable(k, e.at)
    BY <1>1, <2>1, <2>2 DEF KeysInv, VouchedOK, EntryOK
  <2>4. e.at \in Nat /\ e.token \in Tokens /\ now \in Nat
    BY <1>1, <2>1, <2>2, TimesTyped DEF KeysInv
  <2>5. changedAt[k] \in Nat
    BY <1>1, <2>3, <2>4, TimesTyped, TokenTyped DEF KeysInv
  <2>6. k = token[Voucher(t)].key /\ k \notin published
    BY <1>1 DEF Voucher, Withdrawn
  <2> HIDE DEF e, k
  <2>7. e.at < changedAt[k] + FetchLimit + JwksTTL
    BY <2>3, <2>6 DEF Usable
  <2>8. now < changedAt[k] + FetchLimit + JwksTTL + Lifetime
    BY <2>1, <2>4, <2>5, <2>7, KeysAssumption
  <2> QED
    BY <2>6, <2>8
<1>2. KeysInv => WithdrawnKeyDies
  BY <1>1 DEF WithdrawnKeyDies
<1> QED
  BY <1>2, KeysAlways, PTL

-----------------------------------------------------------------------------
(* A step begins a forced fetch when the last is a cooldown ago, or none.      *)
LEMMA ForcedNext ==
  ASSUME KeysInv, [Next]_vars
  PROVE  \/ UNCHANGED <<lastForced, forcedAt>>
         \/ /\ lastForced = Never \/ now - lastForced >= Cooldown
            /\ lastForced' = now /\ forcedAt' = Append(forcedAt, now)
<1> DEFINE Goal == \/ UNCHANGED <<lastForced, forcedAt>>
                   \/ /\ lastForced = Never \/ now - lastForced >= Cooldown
                      /\ lastForced' = now /\ forcedAt' = Append(forcedAt, now)
<1>1. CASE ProductStep \/ Tick \/ UNCHANGED vars
  BY <1>1 DEF ProductStep, Rotate, Mint, Tick, vars, cacheVars
<1>2. ASSUME NEW t \in Tokens, VerifyRemembered(t) \/ VerifyFetching(t) PROVE Goal
  BY <1>2 DEF VerifyRemembered, VerifyFetching, cacheVars
<1>3. ASSUME NEW t, Retry(t) PROVE Goal
  BY <1>3 DEF Retry, RefetchAllowed, Refused
<1>4. ASSUME NEW t \in Tokens, VerifyCached(t) PROVE Goal
  BY <1>3, <1>4 DEF VerifyCached
<1>5. ASSUME NEW f \in fetches, NEW keys \in SUBSET Keys, FetchDone(f, keys) PROVE Goal
  <2>1. Retry(f.token) \/ UNCHANGED <<lastForced, forcedAt>>
    BY <1>5 DEF FetchDone
  <2> QED
    BY <1>3, <2>1
<1>6. ASSUME NEW f \in fetches, FetchFails(f) PROVE Goal
  BY <1>6 DEF FetchFails, cacheVars
<1> QED
  BY <1>1, <1>2, <1>4, <1>5, <1>6 DEF Next, VerifyStep

(* The forced fetches begun so far are a cooldown apart, and none is later than *)
(* the mark that the next one is measured from.                              *)
SpacedInv ==
  /\ RefetchesSpaced
  /\ \A i \in DOMAIN forcedAt : lastForced # Never /\ forcedAt[i] <= lastForced

LEMMA SpacedStep == KeysInv /\ SpacedInv /\ [Next]_vars => SpacedInv'
<1> SUFFICES ASSUME KeysInv, SpacedInv, [Next]_vars PROVE SpacedInv'
  OBVIOUS
<1>1. CASE UNCHANGED <<lastForced, forcedAt>>
  BY <1>1 DEF SpacedInv, RefetchesSpaced
<1>2. CASE /\ lastForced = Never \/ now - lastForced >= Cooldown
           /\ lastForced' = now /\ forcedAt' = Append(forcedAt, now)
  <2> DEFINE n == Len(forcedAt)
  <2>1. /\ now \in Nat /\ now # Never /\ lastForced \in Nat
        /\ now \in Times /\ forcedAt \in Seq(Times)
    BY TimesTyped DEF KeysInv, KeysTypeOK
  <2>2. n \in Nat /\ DOMAIN forcedAt = 1..n
    BY <2>1, Appended
  <2>3. /\ DOMAIN forcedAt' = 1..(n + 1) /\ forcedAt'[n + 1] = now
        /\ \A i \in 1..n : forcedAt'[i] = forcedAt[i]
    BY <1>2, <2>1, Appended
  <2>4. \A i \in 1..n : forcedAt[i] \in Times
    BY <2>1, Appended
  <2> HIDE DEF n
  <2>5. ASSUME NEW i \in 1..n
        PROVE  forcedAt[i] + Cooldown <= now
    <3>1. lastForced # Never /\ forcedAt[i] <= lastForced
      BY <2>2 DEF SpacedInv
    <3> QED
      BY <1>2, <2>1, <2>4, <3>1, KeysAssumption DEF Times
  <2>6. \A i \in 1..(n + 1) : i \in 1..n \/ i = n + 1
    BY <2>2
  <2>7. ASSUME NEW i \in 1..(n + 1), NEW j \in 1..(n + 1), i < j
        PROVE  forcedAt'[i] + Cooldown <= forcedAt'[j]
    <3>1. i \in 1..n
      BY <2>2, <2>7
    <3>2. CASE j = n + 1
      BY <2>3, <2>5, <3>1, <3>2
    <3>3. CASE j \in 1..n
      BY <2>2, <2>3, <2>7, <3>1, <3>3 DEF SpacedInv, RefetchesSpaced
    <3> QED
      BY <2>6, <3>2, <3>3
  <2>8. ASSUME NEW i \in 1..(n + 1)
        PROVE  lastForced' # Never /\ forcedAt'[i] <= lastForced'
    <3>1. CASE i = n + 1
      BY <1>2, <2>1, <2>3, <3>1
    <3>2. CASE i \in 1..n
      <4>1. forcedAt'[i] = forcedAt[i] /\ forcedAt[i] \in Nat /\ forcedAt[i] + Cooldown <= now
        BY <2>3, <2>4, <2>5, <3>2 DEF Times
      <4> QED
        BY <1>2, <2>1, <4>1, KeysAssumption
    <3> QED
      BY <2>6, <3>1, <3>2
  <2> QED
    BY <2>3, <2>7, <2>8 DEF SpacedInv, RefetchesSpaced
<1> QED
  BY <1>1, <1>2, ForcedNext

(* The product's key server gets one forced refetch after the other, never two  *)
(* within a cooldown (JWKS_REFETCH_COOLDOWN_MS), in a behaviour of any length, *)
(* however many requests fail to verify and whatever earlier refetches came to. *)
THEOREM RefetchesAreSpaced == Spec => []RefetchesSpaced
<1>1. Init => SpacedInv
  BY DEF Init, SpacedInv, RefetchesSpaced
<1>2. SpacedInv => RefetchesSpaced
  BY DEF SpacedInv
<1> QED
  BY <1>1, <1>2, SpacedStep, KeysAlways, PTL DEF Spec

-----------------------------------------------------------------------------
(* The causes for which a genuine token of t may be turned away.               *)
Caused(t) ==
  \/ now < changedAt[token[t].key] + FetchLimit + Cooldown
  \/ \E f \in fetches \cap fetches' : f.forced
  \/ failedAt' # Never /\ now < failedAt' + Cooldown

TurnedAway(t) == answer[t] # "invalid" /\ answer'[t] = "invalid"

LEMMA AnsweredOnly ==
  ASSUME KeysInv, NEW t \in Tokens, NEW s \in Tokens, NEW what, Answered(s, what), TurnedAway(t)
  PROVE  t = s /\ what = "invalid"
BY DEF KeysInv, KeysTypeOK, Answered, TurnedAway

LEMMA AcceptedIsGenuine ==
  ASSUME KeysInv, NEW t \in Tokens, NEW s \in Tokens, Accept(s), TurnedAway(t)
  PROVE  ~Genuine(t)
<1>1. CASE ShortLived(s)
  <2>1. Answered(s, "accepted")
    BY <1>1 DEF Accept
  <2> QED
    BY <2>1, AnsweredOnly
<1>2. CASE ~ShortLived(s)
  <2>1. Answered(s, "invalid")
    BY <1>2 DEF Accept
  <2> QED
    BY <1>2, <2>1, AnsweredOnly DEF Genuine
<1> QED
  BY <1>1, <1>2

(* The request whose refetch the cooldown forbids.                            *)
LEMMA CachedCaused ==
  ASSUME KeysInv, NEW t \in Tokens, NEW s \in Tokens, VerifyCached(s), TurnedAway(t), Genuine(t)
  PROVE  Caused(t)
<1> USE KeysAssumption
<1>1. token[s] # Unminted /\ FreshKeys(s) /\ failedAt' = failedAt
  BY DEF VerifyCached
<1>2. ~Verifies(s, jwks.keys) /\ Retry(s)
  BY AcceptedIsGenuine DEF VerifyCached
<1>3. ~RefetchAllowed(s)
  BY <1>2 DEF Retry, TurnedAway
<1>4. t = s
  BY <1>2, <1>3, AnsweredOnly DEF Retry, Refused
<1>5. fetches' = fetches
  BY <1>2, <1>3 DEF VerifyCached
<1>6. token[t].key \in published \ jwks.keys /\ token[t].key \in Keys
  BY <1>1, <1>2, <1>4, TokenTyped DEF Genuine, Verifies, KeysInv
<1>7. /\ jwks # NoKeys /\ jwks.at \in Nat /\ changedAt[token[t].key] \in Nat
      /\ jwks.at <= changedAt[token[t].key] + FetchLimit
  BY <1>1, <1>6, TimesTyped DEF KeysInv, StoreOK, Behind, FreshKeys
<1>8. /\ now \in Nat /\ lastForced \in Nat /\ failedAt \in Nat
      /\ lastForced # Never /\ lastForced <= now /\ ~(now - lastForced >= Cooldown)
  BY <1>3, TimesTyped DEF KeysInv, ForcedOK, RefetchAllowed
<1>9. now < lastForced + Cooldown
  BY <1>8
<1>10. CASE \E f \in fetches : f.forced /\ f.began = lastForced
  BY <1>5, <1>10 DEF Caused
<1>11. CASE failedAt # Never /\ lastForced <= failedAt
  BY <1>1, <1>8, <1>9, <1>11 DEF Caused
<1>12. CASE lastForced <= jwks.at
  BY <1>7, <1>8, <1>9, <1>12 DEF Caused
<1> QED
  BY <1>8, <1>10, <1>11, <1>12 DEF KeysInv, ForcedOK

(* The request whose fetch brought a key set without the key.                 *)
LEMMA DoneCaused ==
  ASSUME KeysInv, NEW t \in Tokens, NEW f \in fetches, NEW keys \in SUBSET Keys,
         FetchDone(f, keys), TurnedAway(t), Genuine(t)
  PROVE  Caused(t)
<1> USE KeysAssumption
<1>1. /\ f.token \in Tokens /\ token[f.token] # Unminted /\ keys \in {f.seen, published}
      /\ f.began \in Nat /\ now \in Nat /\ f.began <= now /\ now - f.began <= FetchLimit
  BY TimesTyped DEF KeysInv, FetchesOK, FetchDone
<1>2. ~Verifies(f.token, keys) /\ (Answered(f.token, "invalid") \/ Retry(f.token))
  BY <1>1, AcceptedIsGenuine DEF FetchDone
<1>3. Answered(f.token, "invalid")
  BY <1>2 DEF Retry, Refused, TurnedAway
<1>4. t = f.token
  BY <1>1, <1>3, AnsweredOnly
<1>5. token[t].key \in published \ keys /\ token[t].key \in Keys
  BY <1>1, <1>2, <1>4, TokenTyped DEF Genuine, Verifies, KeysInv
<1>6. keys = f.seen
  BY <1>1, <1>5
<1>7. Behind(f.seen, f.began, 0)
  BY DEF KeysInv, FetchesOK
<1>8. f.began <= changedAt[token[t].key] + 0 /\ changedAt[token[t].key] \in Nat
  BY <1>5, <1>6, <1>7, TimesTyped DEF Behind, KeysInv
<1> QED
  BY <1>1, <1>8 DEF Caused

LEMMA FailsCaused ==
  ASSUME KeysInv, NEW t \in Tokens, NEW f \in fetches, FetchFails(f), TurnedAway(t)
  PROVE  Caused(t)
<1>1. f.token \in Tokens /\ now \in Nat /\ now # Never
  BY TimesTyped DEF KeysInv
<1>2. Answered(f.token, IF f.forced THEN "invalid" ELSE "unreachable")
  BY DEF FetchFails
<1>3. f.forced
  BY <1>1, <1>2, AnsweredOnly
<1>4. failedAt' = now
  BY <1>3 DEF FetchFails
<1> QED
  BY <1>1, <1>4, KeysAssumption DEF Caused

(* A genuine token is turned away only in the wake of a rotation, while the    *)
(* key set is being fetched for another request, or after a fetch that failed. *)
THEOREM TurnedAwayForCause == Spec => GenuineTurnedAwayForCause
<1>1. ASSUME KeysInv, [Next]_vars, NEW t \in Tokens, TurnedAway(t), Genuine(t)
      PROVE  Caused(t)
  <2>1. CASE ProductStep \/ Tick \/ UNCHANGED vars
    <3>1. answer' = answer \/ answer' = NoAnswer
      BY <2>1 DEF ProductStep, Rotate, Mint, Tick, vars
    <3> QED
      BY <1>1, <3>1 DEF TurnedAway, NoAnswer
  <2>2. ASSUME NEW s \in Tokens, VerifyRemembered(s) PROVE FALSE
    BY <1>1, <2>2, AnsweredOnly DEF VerifyRemembered
  <2>3. ASSUME NEW s \in Tokens, VerifyCached(s) PROVE Caused(t)
    BY <1>1, <2>3, CachedCaused
  <2>4. ASSUME NEW s \in Tokens, VerifyFetching(s) PROVE FALSE
    BY <1>1, <2>4 DEF VerifyFetching, TurnedAway
  <2>5. ASSUME NEW f \in fetches, NEW keys \in SUBSET Keys, FetchDone(f, keys) PROVE Caused(t)
    BY <1>1, <2>5, DoneCaused
  <2>6. ASSUME NEW f \in fetches, FetchFails(f) PROVE Caused(t)
    BY <1>1, <2>6, FailsCaused
  <2> QED
    BY <1>1, <2>1, <2>2, <2>3, <2>4, <2>5, <2>6 DEF Next, VerifyStep
<1>2. KeysInv /\ [Next]_vars =>
        [\A t \in Tokens :
           answer[t] # "invalid" /\ answer'[t] = "invalid" /\ Genuine(t) =>
             \/ now < changedAt[token[t].key] + FetchLimit + Cooldown
             \/ \E f \in fetches \cap fetches' : f.forced
             \/ failedAt' # Never /\ now < failedAt' + Cooldown]_vars
  BY <1>1 DEF TurnedAway, Caused
<1> QED
  BY <1>2, KeysAlways, PTL DEF Spec, GenuineTurnedAwayForCause
=============================================================================
