---------------------------- MODULE IdentityKeys ----------------------------
(***************************************************************************)
(* How one gateway process verifies the identity tokens of one integrating    *)
(* product: the product rotates its signing keys, the gateway keeps a copy of *)
(* the published key set, refetches it when a token does not verify, and keeps *)
(* the tokens it has verified.                                               *)
(*                                                                           *)
(* Fetching is asynchronous: while one request waits for the product's key    *)
(* set, others go by the caches as they are.  A verified token is remembered   *)
(* under the jti it names, whatever token names it next.  Products with an      *)
(* inline key set have nothing to refetch and are left out, a restart only      *)
(* empties the caches, and every token names a jti.                          *)
(***************************************************************************)
EXTENDS Naturals, Sequences, FiniteSets

CONSTANTS
  Keys,         \* signing keys the product uses over time
  Tokens,       \* identity tokens; each is minted at most once
  Jtis,         \* the ids they name; nothing keeps two tokens from naming one
  JwksTTL,      \* JWKS_TTL_MS
  Cooldown,     \* JWKS_REFETCH_COOLDOWN_MS
  Lifetime,     \* MAX_TTL_SECONDS
  Tolerance,    \* clockTolerance
  FetchLimit,   \* AbortSignal.timeout of a fetch
  MaxFetches,   \* bound on the fetches under way at a time
  Horizon       \* bound on the clock

ASSUME KeysAssumption ==
  /\ {Lifetime, Tolerance, FetchLimit, MaxFetches, Horizon} \subseteq Nat
  /\ {JwksTTL, Cooldown} \subseteq Nat \ {0}

VARIABLES
  now,
  published,   \* the key set behind jwks_url
  changedAt,   \* when a key was last published or withdrawn (auxiliary)
  token,       \* what each token carries
  jwks,        \* jwksCache: the key set and when it was stored
  fetches,     \* fetches under way, and the request that waits for each
  lastForced,  \* lastForcedFetch
  verified,    \* verifiedTokens: by jti, the token verified last, and when
  answer,      \* the last answer each token got at this time (auxiliary)
  failedAt,    \* when a forced fetch failed last (auxiliary)
  forcedAt     \* when forced fetches were begun, one after the other (auxiliary)

cacheVars == <<jwks, lastForced, verified>>
vars      == <<now, published, changedAt, token, cacheVars, fetches, answer, failedAt,
               forcedAt>>

-----------------------------------------------------------------------------
Times == 0..Horizon

Never == Horizon + 1

NoKeys == [at |-> Never, keys |-> {}]

Unminted == [iat |-> Never]

Token == [iat : Times, exp : 0..(Horizon + Lifetime + Tolerance + 1), key : Keys, jti : Jtis]

Entry == [at : Times, token : Tokens]

NoEntry == [at |-> Never]

Fetch == [token : Tokens, forced : BOOLEAN, began : Times, seen : SUBSET Keys]

Outcomes == {"none", "accepted", "invalid", "unreachable"}

NoAnswer == [t \in Tokens |-> "none"]

(* Every variable holds a value of its type; a key set is only ever stored    *)
(* within the timeout of the fetch that brought it.                          *)
KeysTypeOK ==
  /\ now \in Times
  /\ published \subseteq Keys
  /\ changedAt \in [Keys -> 0..Never]
  /\ token \in [Tokens -> Token \cup {Unminted}]
  /\ jwks \in [at : Times, keys : SUBSET Keys] \cup {NoKeys}
  /\ fetches \subseteq Fetch
  /\ \A f \in fetches : now - f.began <= FetchLimit
  /\ lastForced \in 0..Never
  /\ verified \in [Jtis -> Entry \cup {NoEntry}]
  /\ answer \in [Tokens -> Outcomes]
  /\ failedAt \in 0..Never
  /\ forcedAt \in Seq(Times)

Init ==
  /\ now = 0
  /\ \E k \in Keys : published = {k}
  /\ changedAt = [k \in Keys |-> IF k \in published THEN 0 ELSE Never]
  /\ token = [t \in Tokens |-> Unminted]
  /\ jwks = NoKeys
  /\ fetches = {}
  /\ lastForced = Never
  /\ verified = [j \in Jtis |-> NoEntry]
  /\ answer = NoAnswer
  /\ failedAt = Never
  /\ forcedAt = <<>>

-----------------------------------------------------------------------------
(* The product.                                                              *)

(* The product replaces its signing key, once for each key it ever has.      *)
Rotate(old, new) ==
  /\ old \in published /\ new \notin published
  /\ changedAt[new] = Never
  /\ published' = (published \ {old}) \cup {new}
  /\ changedAt' = [changedAt EXCEPT ![old] = now, ![new] = now]
  /\ UNCHANGED <<now, token, cacheVars, fetches, answer, failedAt, forcedAt>>

(* A token is signed with a key of the product, one it has withdrawn too.     *)
Mint(t, k, life, j) ==
  /\ token[t] = Unminted
  /\ changedAt[k] # Never
  /\ token' = [token EXCEPT ![t] = [iat |-> now, exp |-> now + life, key |-> k, jti |-> j]]
  /\ UNCHANGED <<now, published, changedAt, cacheVars, fetches, answer, failedAt, forcedAt>>

-----------------------------------------------------------------------------
(* verifyIdentity, for one request that carries t.                           *)

Answered(t, what) == answer' = [answer EXCEPT ![t] = what]

(* cacheGet: the entry of the jti that the token names, before anything of it  *)
(* is verified.                                                              *)
Remembered(t) ==
  verified[token[t].jti] # NoEntry /\ now - verified[token[t].jti].at <= Lifetime

(* A variant of FreshKeys that goes by any key set.                          *)
AnyKeys(t) == jwks # NoKeys

FreshKeys(t) == jwks # NoKeys /\ now - jwks.at < JwksTTL

(* jwtVerify with a key set, and the limit on the lifetime that follows it.   *)
Verifies(t, keys) ==
  /\ token[t].key \in keys
  /\ now < token[t].exp + Tolerance

ShortLived(t) == token[t].exp - token[t].iat <= Lifetime + Tolerance

Accept(t) ==
  IF ShortLived(t)
  THEN /\ verified' = [verified EXCEPT ![token[t].jti] = [at |-> now, token |-> t]]
       /\ Answered(t, "accepted")
  ELSE Answered(t, "invalid") /\ UNCHANGED verified

Request(t, forced) == [token |-> t, forced |-> forced, began |-> now, seen |-> published]

Fetching(t, forced) ==
  /\ Cardinality(fetches) < MaxFetches
  /\ fetches' = fetches \cup {Request(t, forced)}

(* A variant of RefetchAllowed without the floor between two fetches.        *)
RefetchAnyTime(t) == TRUE

RefetchAllowed(t) == lastForced = Never \/ now - lastForced >= Cooldown

(* A variant of Refused that takes a blocked refetch for a refetch.          *)
RefusedAndCounted(t) ==
  Answered(t, "invalid") /\ lastForced' = now /\ UNCHANGED forcedAt

Refused(t) == Answered(t, "invalid") /\ UNCHANGED <<lastForced, forcedAt>>

(* The token does not verify: retryAfterRotation, whose mark is set before    *)
(* the fetch is made.                                                        *)
Retry(t) ==
  IF RefetchAllowed(t)
  THEN lastForced' = now /\ forcedAt' = Append(forcedAt, now) /\ UNCHANGED answer
  ELSE Refused(t)

(* A token seen before.                                                      *)
VerifyRemembered(t) ==
  /\ token[t] # Unminted
  /\ Remembered(t)
  /\ Answered(t, "accepted")
  /\ UNCHANGED <<now, published, changedAt, token, cacheVars, fetches, failedAt, forcedAt>>

(* Verification with the cached key set.                                     *)
VerifyCached(t) ==
  /\ token[t] # Unminted
  /\ ~Remembered(t) /\ FreshKeys(t)
  /\ IF Verifies(t, jwks.keys)
     THEN Accept(t) /\ UNCHANGED <<lastForced, forcedAt, fetches>>
     ELSE /\ Retry(t)
          /\ IF RefetchAllowed(t) THEN Fetching(t, TRUE) ELSE UNCHANGED fetches
          /\ UNCHANGED verified
  /\ UNCHANGED <<now, published, changedAt, token, jwks, failedAt>>

(* resolverFor without a fresh key set.                                      *)
VerifyFetching(t) ==
  /\ token[t] # Unminted
  /\ ~Remembered(t) /\ ~FreshKeys(t)
  /\ Fetching(t, FALSE)
  /\ UNCHANGED <<now, published, changedAt, token, cacheVars, answer, failedAt, forcedAt>>

(* fetchJwks stores what the product had published when it answered, at the   *)
(* time the answer is in; the request verifies with exactly that.            *)
FetchDone(f, keys) ==
  LET t == f.token IN
    /\ keys \in {f.seen, published}
    /\ jwks' = [at |-> now, keys |-> keys]
    /\ IF Verifies(t, keys)
       THEN Accept(t) /\ fetches' = fetches \ {f} /\ UNCHANGED <<lastForced, forcedAt>>
       ELSE /\ IF f.forced THEN Answered(t, "invalid") /\ UNCHANGED <<lastForced, forcedAt>>
               ELSE Retry(t)
            /\ fetches' = (fetches \ {f}) \cup
                 IF ~f.forced /\ RefetchAllowed(t) THEN {Request(t, TRUE)} ELSE {}
            /\ UNCHANGED verified
    /\ UNCHANGED <<now, published, changedAt, token, failedAt>>

(* The product does not answer, or not within the timeout.                   *)
FetchFails(f) ==
  /\ fetches' = fetches \ {f}
  /\ Answered(f.token, IF f.forced THEN "invalid" ELSE "unreachable")
  /\ failedAt' = IF f.forced THEN now ELSE failedAt
  /\ UNCHANGED <<now, published, changedAt, token, cacheVars, forcedAt>>

(* A fetch is aborted in the end.                                            *)
InTime(f) == now - f.began < FetchLimit

Tick ==
  /\ now < Horizon
  /\ \A f \in fetches : InTime(f)
  /\ now' = now + 1
  /\ answer' = NoAnswer
  /\ UNCHANGED <<published, changedAt, token, cacheVars, fetches, failedAt, forcedAt>>

-----------------------------------------------------------------------------
(* The longest lifetime that is let through, and one that is not.            *)
Lives == {Lifetime + Tolerance, Lifetime + Tolerance + 1}

ProductStep ==
  \/ \E old, new \in Keys : Rotate(old, new)
  \/ \E t \in Tokens, k \in Keys, life \in Lives, j \in Jtis : Mint(t, k, life, j)

VerifyStep ==
  \/ \E t \in Tokens : VerifyRemembered(t) \/ VerifyCached(t) \/ VerifyFetching(t)
  \/ \E f \in fetches, keys \in SUBSET Keys : FetchDone(f, keys)
  \/ \E f \in fetches : FetchFails(f)

Next == ProductStep \/ VerifyStep \/ Tick

Spec == Init /\ [][Next]_vars

-----------------------------------------------------------------------------
(* Properties.                                                               *)

Accepted(t) == answer[t] = "accepted"

Withdrawn(k) == k \notin published

(* The token that was verified under the jti which t names: its user is who    *)
(* the bearer of t is taken for.                                             *)
Voucher(t) == verified[token[t].jti].token

(* Whoever is let in goes as the user of a token that was verified, and a key   *)
(* that the product has withdrawn vouches for nobody longer than one fetch, one *)
(* key-set lifetime and one verified-token lifetime later.                   *)
WithdrawnKeyDies ==
  \A t \in Tokens :
    Accepted(t) /\ Withdrawn(token[Voucher(t)].key) =>
      now < changedAt[token[Voucher(t)].key] + FetchLimit + JwksTTL + Lifetime

Genuine(t) == Verifies(t, published) /\ ShortLived(t)

(* A genuine token is turned away only in the wake of a rotation, while the    *)
(* key set is being fetched for another request, or after a fetch that failed  *)
(* (identity.ts:83 "closing a key rotation within half a minute").           *)
GenuineTurnedAwayForCause ==
  [][\A t \in Tokens :
       answer[t] # "invalid" /\ answer'[t] = "invalid" /\ Genuine(t) =>
         \/ now < changedAt[token[t].key] + FetchLimit + Cooldown
         \/ \E f \in fetches \cap fetches' : f.forced
         \/ failedAt' # Never /\ now < failedAt' + Cooldown]_vars

(* The product's key server is sent one forced refetch after the other, never   *)
(* two within a cooldown, however many tokens fail to verify, whatever the      *)
(* earlier ones came to and however long they took (identity.ts:82 "One         *)
(* refetch per URL per 30s").                                                *)
RefetchesSpaced ==
  \A i, j \in DOMAIN forcedAt : i < j => forcedAt[i] + Cooldown <= forcedAt[j]
=============================================================================
