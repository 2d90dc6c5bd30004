--------------------------- MODULE GatewayRequests ---------------------------
(***************************************************************************)
(* The way of a request through the gateway: its credential is checked, a      *)
(* signed one against the replay cache of the process, then its caller's rate  *)
(* is counted, in Redis or in the process, then it is passed to core-service.  *)
(* core-service checks the worker's signed requests in the same way, with the  *)
(* signature first and the nonce after it.                                    *)
(*                                                                           *)
(* Time runs in ticks, PerSecond of them to a second: nonces lapse by the      *)
(* millisecond, timestamps are compared in whole seconds.                     *)
(***************************************************************************)
EXTENDS Integers, Sequences, FiniteSets

CONSTANTS
  Gateways,      \* gateway processes
  Core,          \* the one process of core-service
  Slots,         \* requests a deployment handles at a time
  Messages,      \* signed requests; each carries a nonce of its own
  Paths,         \* the ways unsigned requests come in
  Operations,    \* what callers ask for
  PerSecond,
  FreshFor,      \* TIMESTAMP_WINDOW_SECONDS
  NonceTTL,      \* NONCE_TTL_MS and 600_000, in ticks
  Ahead,         \* how far the clock of a signer may run ahead, in seconds
  Limit,         \* BucketLimit.limit
  Window,        \* BucketLimit.windowSeconds, in ticks
  CommandLimit,  \* environment: the longest a Redis command takes
  MaxDeliveries, \* bound on how often the bytes of a request arrive
  MaxCalls,      \* bound on unsigned requests
  MaxFaults,     \* bound on failing Redis commands and restarts
  Horizon        \* bound on the clock

ASSUME RequestsAssumption ==
  /\ Core \notin Gateways
  /\ IsFiniteSet(Slots)
  /\ Paths \subseteq {"publishable", "session", "signin"}
  /\ {FreshFor, NonceTTL, Ahead, Limit, Window, CommandLimit, MaxDeliveries,
      MaxCalls, MaxFaults, Horizon} \subseteq Nat
  /\ PerSecond \in Nat \ {0}
  /\ FreshFor > 0
  /\ NonceTTL >= 2 * FreshFor * PerSecond

VARIABLES
  now,
  sent,       \* X-IRIS-Timestamp of a signed request, and for whom it is
  arrivals,   \* how often the bytes of a request have arrived
  nonces,     \* seenNonces: when each remembered nonce lapses
  accepted,   \* when a process has let a signed request in (auxiliary)
  replayed,   \* requests a process has refused as a replay (auxiliary)
  slot,       \* the requests in the rate limiter and beyond
  counter,    \* the counters in Redis
  orphaned,   \* counters whose EXPIRE was lost (auxiliary)
  healthy,    \* processes whose redisHealthy is true
  memory,     \* memory: the counters of a process
  counted,    \* when requests reached the limiter, by key (auxiliary)
  calls, faults

signVars  == <<sent, arrivals, nonces, accepted, replayed>>
limitVars == <<slot, counter, orphaned, healthy, memory, counted>>
vars      == <<now, signVars, limitVars, calls, faults>>

-----------------------------------------------------------------------------
Sites == Gateways \cup {Core}

Never == Horizon + NonceTTL + Window + 1

Times == 0..Never

(* PUBLISHABLE_KEY_ALLOWED: all but what a key that any page shows must not do. *)
PublishableOperations == {"ask", "create_ticket", "read", "write"}

BucketFor(op) == IF op \in PublishableOperations THEN op ELSE "write"

(* The rate keys of an unsigned request: one per raiser, per support user and  *)
(* per address of a sign-in.                                                 *)
RateKeys(op) ==
  {<<BucketFor(op), "raiser">> : path \in Paths \cap {"publishable"}}
    \cup {<<"write", "staff">> : path \in Paths \cap {"session"}}
    \cup {<<"login", "address">> : path \in Paths \cap {"signin"}}

ProductKey(op) == <<BucketFor(op), "product">>

Keys == UNION {RateKeys(op) \cup {ProductKey(op)} : op \in Operations}

Counter == [count : Nat, lapses : Times]

NoCounter == [count |-> 0, lapses |-> Never]

Busy == [stage : {"counting", "expiring", "reading", "forwarding", "refused"}, site : Gateways,
         key : Keys, count : Nat, since : Times]

Idle == [stage |-> "idle"]

Unsent == [to |-> "nobody"]

(* Every variable holds a value of its type.                                 *)
RequestsTypeOK ==
  /\ now \in 0..Horizon
  /\ sent \in [Messages -> [stamp : (-Ahead)..(Horizon \div PerSecond + Ahead),
                            to : {"gateway", "core"}] \cup {Unsent}]
  /\ arrivals \in [Messages -> 0..MaxDeliveries]
  /\ nonces \in [Sites -> [Messages -> Times]]
  /\ accepted \in [Sites -> [Messages -> Seq(0..Horizon)]]
  /\ replayed \in [Sites -> SUBSET Messages]
  /\ slot \in [Slots -> Busy \cup {Idle}]
  /\ counter \in [Keys -> Counter]
  /\ orphaned \subseteq Keys
  /\ healthy \subseteq Gateways
  /\ memory \in [Gateways -> [Keys -> Counter]]
  /\ counted \in [Keys -> Seq(0..Horizon)]
  /\ calls \in 0..MaxCalls
  /\ faults \in 0..MaxFaults

NoNonces == [m \in Messages |-> Never]

NoCounters == [k \in Keys |-> NoCounter]

Init ==
  /\ now = 0
  /\ sent = [m \in Messages |-> Unsent]
  /\ arrivals = [m \in Messages |-> 0]
  /\ nonces = [s \in Sites |-> NoNonces]
  /\ accepted = [s \in Sites |-> [m \in Messages |-> <<>>]]
  /\ replayed = [s \in Sites |-> {}]
  /\ slot = [w \in Slots |-> Idle]
  /\ counter = NoCounters
  /\ orphaned = {}
  /\ healthy = Gateways
  /\ memory = [g \in Gateways |-> NoCounters]
  /\ counted = [k \in Keys |-> <<>>]
  /\ calls = 0
  /\ faults = 0

Fault == faults < MaxFaults /\ faults' = faults + 1

-----------------------------------------------------------------------------
(* Signed requests.                                                          *)

Seconds(t) == t \div PerSecond

(* signRequest, by a clock that runs up to Ahead seconds fast.               *)
Sign(m, skew, to) ==
  /\ sent[m] = Unsent
  /\ sent' = [sent EXCEPT ![m] = [stamp |-> Seconds(now) + skew, to |-> to]]
  /\ UNCHANGED <<now, arrivals, nonces, accepted, replayed, limitVars, calls, faults>>

(* isTimestampFresh                                                          *)
Fresh(m) ==
  /\ Seconds(now) - sent[m].stamp <= FreshFor
  /\ sent[m].stamp - Seconds(now) <= FreshFor

Known(s, m) == nonces[s][m] # Never /\ nonces[s][m] >= now

(* A variant of Lapse that keeps a nonce for one window, not two.            *)
LapseEarly(t) == t + FreshFor * PerSecond

Lapse(t) == t + NonceTTL

Remembering(s, m) ==
  nonces' = [nonces EXCEPT ![s] = [o \in Messages |->
    IF o = m THEN Lapse(now) ELSE IF Known(s, o) THEN nonces[s][o] ELSE Never]]

(* A variant of NonceFirst that has core-service remember the nonce first.   *)
NonceFirstEverywhere(s) == TRUE

(* authenticate() of the gateway remembers the nonce before it verifies,      *)
(* registerServiceAuth of core-service after it.                             *)
NonceFirst(s) == s # Core

Verified(m, intact) == intact /\ Fresh(m)

(* The bytes arrive, once more perhaps, and perhaps not as they were sent.    *)
Arrives(s, m) ==
  /\ sent[m].to = IF s = Core THEN "core" ELSE "gateway"
  /\ arrivals[m] < MaxDeliveries
  /\ arrivals' = [arrivals EXCEPT ![m] = @ + 1]

RefuseReplay(s, m, intact) ==
  /\ Arrives(s, m)
  /\ Known(s, m)
  /\ NonceFirst(s) \/ Verified(m, intact)
  /\ replayed' = [replayed EXCEPT ![s] = @ \cup {m}]
  /\ UNCHANGED <<now, sent, nonces, accepted, limitVars, calls, faults>>

RefuseSignature(s, m, intact) ==
  /\ Arrives(s, m)
  /\ ~Verified(m, intact)
  /\ IF NonceFirst(s)
     THEN ~Known(s, m) /\ Remembering(s, m)
     ELSE UNCHANGED nonces
  /\ UNCHANGED <<now, sent, accepted, replayed, limitVars, calls, faults>>

Occupied(w, g, key) ==
  /\ slot[w] = Idle
  /\ slot' = [slot EXCEPT ![w] = [stage |-> "counting", site |-> g, key |-> key,
                                  count |-> 0, since |-> now]]
  /\ counted' = [counted EXCEPT ![key] = Append(@, now)]

LetIn(s, m, intact) ==
  /\ Arrives(s, m)
  /\ Verified(m, intact)
  /\ ~Known(s, m)
  /\ Remembering(s, m)
  /\ accepted' = [accepted EXCEPT ![s][m] = Append(@, now)]
  /\ UNCHANGED <<now, sent, replayed>>

(* A signed request of the worker is handled by core-service itself.         *)
AcceptAtCore(m, intact) ==
  /\ LetIn(Core, m, intact)
  /\ UNCHANGED <<limitVars, calls, faults>>

(* One of a product goes on to the rate limiter under the product's key.     *)
AcceptAtGateway(w, g, m, op, intact) ==
  /\ g \in Gateways
  /\ LetIn(g, m, intact)
  /\ Occupied(w, g, ProductKey(op))
  /\ UNCHANGED <<counter, orphaned, healthy, memory, calls, faults>>

-----------------------------------------------------------------------------
(* Unsigned requests: the widget under a publishable key, support staff under  *)
(* a session, and their sign-in.                                             *)

(* assertPublishableKeyScope turns down what is not on its list.             *)
InScope(op, key) == key[2] = "raiser" => op \in PublishableOperations

Call(w, g, op) ==
  /\ calls < MaxCalls
  /\ calls' = calls + 1
  /\ \E key \in RateKeys(op) : InScope(op, key) /\ Occupied(w, g, key)
  /\ UNCHANGED <<now, signVars, counter, orphaned, healthy, memory, faults>>

-----------------------------------------------------------------------------
(* consume() and what follows it.                                            *)

Live(c) == c.count > 0 /\ now < c.lapses

Counted(c) == IF Live(c) THEN c.count ELSE 0

(* A variant of Within that turns away the last request of the limit.        *)
WithinStrictly(count) == count < Limit

Within(count) == count <= Limit

Judged(w, count) ==
  slot' = [slot EXCEPT ![w].stage = IF Within(count) THEN "forwarding" ELSE "refused",
                       ![w].count = 0, ![w].since = 0]

Counts(w) == slot[w].stage \in {"counting", "expiring", "reading"}

UsesRedis(w) == slot[w].site \in healthy

(* The request that counts 1 sets the expiry.                                *)
Opens(n) == n = 1

(* redis.incr: a counter that has lapsed is a new one, without expiry.       *)
Incr(w) ==
  LET k == slot[w].key
      n == Counted(counter[k]) + 1
  IN /\ slot[w].stage = "counting" /\ UsesRedis(w)
     /\ counter' = [counter EXCEPT ![k] =
          [count |-> n, lapses |-> IF Live(@) THEN @.lapses ELSE Never]]
     /\ orphaned' = IF Live(counter[k]) THEN orphaned ELSE orphaned \ {k}
     /\ slot' = [slot EXCEPT ![w].count = n, ![w].since = now,
                             ![w].stage = IF Opens(n) THEN "expiring" ELSE "reading"]
     /\ UNCHANGED <<now, signVars, healthy, memory, counted, calls, faults>>

(* EXPIRE gives the counter of k a window from now, if it is still there.      *)
Closes(k) ==
  counter' = [counter EXCEPT ![k].lapses = IF Live(counter[k]) THEN now + Window ELSE @]

(* redis.expire, by the request that has counted 1.                          *)
Expire(w) ==
  /\ slot[w].stage = "expiring"
  /\ Closes(slot[w].key)
  /\ slot' = [slot EXCEPT ![w].stage = "reading", ![w].since = now]
  /\ UNCHANGED <<now, signVars, orphaned, healthy, memory, counted, calls, faults>>

(* redis.ttl, for the headers, and the verdict.                              *)
Read(w) ==
  /\ slot[w].stage = "reading"
  /\ Judged(w, slot[w].count)
  /\ UNCHANGED <<now, signVars, counter, orphaned, healthy, memory, counted, calls, faults>>

(* memoryConsume                                                             *)
InMemory(w) ==
  LET k == slot[w].key
      g == slot[w].site
      c == memory[g][k]
  IN /\ Judged(w, Counted(c) + 1)
     /\ memory' = [memory EXCEPT ![g][k] =
          [count |-> Counted(c) + 1, lapses |-> IF Live(c) THEN c.lapses ELSE now + Window]]

(* A command fails, after it has taken effect perhaps: the process counts by   *)
(* itself from now on, this request included.                                *)
CommandFails(w) ==
  LET k == slot[w].key IN
    /\ Counts(w) /\ (slot[w].stage = "counting" => UsesRedis(w))
    /\ Fault
    /\ \/ /\ UNCHANGED counter
          /\ orphaned' = IF slot[w].stage = "expiring" THEN orphaned \cup {k} ELSE orphaned
       \/ /\ slot[w].stage = "counting"
          /\ counter' = [counter EXCEPT ![k] = [count |-> Counted(@) + 1,
                           lapses |-> IF Live(@) THEN @.lapses ELSE Never]]
          /\ orphaned' = IF Live(counter[k]) THEN orphaned ELSE orphaned \cup {k}
       \/ /\ slot[w].stage = "expiring"
          /\ Closes(k)
          /\ UNCHANGED orphaned
    /\ healthy' = healthy \ {slot[w].site}
    /\ InMemory(w)
    /\ UNCHANGED <<now, signVars, counted, calls>>

CountInMemory(w) ==
  /\ slot[w].stage = "counting" /\ ~UsesRedis(w)
  /\ InMemory(w)
  /\ UNCHANGED <<now, signVars, counter, orphaned, healthy, counted, calls, faults>>

(* The connection fails between commands, and retryStrategy gives it up.      *)
ConnectionLost(g) ==
  /\ g \in healthy
  /\ Fault
  /\ healthy' = healthy \ {g}
  /\ UNCHANGED <<now, signVars, slot, counter, orphaned, memory, counted, calls>>

(* core-service answers, or the proxy gives up after 30 seconds; a caller     *)
(* over the limit is answered without it.                                    *)
Reply(w) ==
  /\ slot[w].stage \in {"forwarding", "refused"}
  /\ slot' = [slot EXCEPT ![w] = Idle]
  /\ UNCHANGED <<now, signVars, counter, orphaned, healthy, memory, counted,
                 calls, faults>>

(* A process forgets its nonces and its counters, and drops its requests.     *)
GatewayRestarts(g) ==
  /\ Fault
  /\ nonces' = [nonces EXCEPT ![g] = NoNonces]
  /\ accepted' = [accepted EXCEPT ![g] = [m \in Messages |-> <<>>]]
  /\ replayed' = [replayed EXCEPT ![g] = {}]
  /\ orphaned' = orphaned \cup {slot[w].key : w \in {v \in Slots :
                   slot[v].stage = "expiring" /\ slot[v].site = g}}
  /\ slot' = [w \in Slots |->
                IF slot[w] # Idle /\ slot[w].site = g THEN Idle ELSE slot[w]]
  /\ healthy' = healthy \cup {g}
  /\ memory' = [memory EXCEPT ![g] = NoCounters]
  /\ UNCHANGED <<now, sent, arrivals, counter, counted, calls>>

Tick ==
  /\ now < Horizon
  /\ \A w \in Slots : Counts(w) => now - slot[w].since < CommandLimit
  /\ now' = now + 1
  /\ UNCHANGED <<signVars, limitVars, calls, faults>>

-----------------------------------------------------------------------------
SignedStep ==
  \/ \E m \in Messages, skew \in (-Ahead)..Ahead, to \in {"gateway", "core"} :
       Sign(m, skew, to)
  \/ \E s \in Sites, m \in Messages, intact \in BOOLEAN :
       RefuseReplay(s, m, intact) \/ RefuseSignature(s, m, intact)
  \/ \E m \in Messages, intact \in BOOLEAN : AcceptAtCore(m, intact)
  \/ \E w \in Slots, g \in Gateways, m \in Messages, op \in Operations :
       AcceptAtGateway(w, g, m, op, TRUE)

LimiterStep ==
  \/ \E w \in Slots, g \in Gateways, op \in Operations : Call(w, g, op)
  \/ \E w \in Slots : \/ Incr(w) \/ Expire(w) \/ Read(w) \/ CommandFails(w)
                      \/ CountInMemory(w) \/ Reply(w)
  \/ \E g \in Gateways : ConnectionLost(g) \/ GatewayRestarts(g)

Next == SignedStep \/ LimiterStep \/ Tick

Spec == Init /\ [][Next]_vars

-----------------------------------------------------------------------------
(* Properties.                                                               *)

(* Let in twice: the timestamp was a full window ahead of the clock of the     *)
(* process, and is a full window behind it now.                              *)
AtBothEdges(stamp, times) ==
  /\ Len(times) = 2
  /\ stamp - Seconds(times[1]) = FreshFor
  /\ Seconds(times[2]) - stamp = FreshFor

(* As long as a process lives, it lets the bytes of a signed request in once,  *)
(* however often they arrive and however wrong the signer's clock is; but for  *)
(* a timestamp at the far edge of the window, which both checks still admit    *)
(* ("<= 300"), and which is fresh for up to a second after its nonce has been   *)
(* forgotten: that one comes in twice, and never three times.                *)
AcceptedOnceUnlessAtEdges ==
  \A s \in Sites, m \in Messages :
    Len(accepted[s][m]) <= 1 \/ AtBothEdges(sent[m].stamp, accepted[s][m])

(* core-service refuses a request as a replay only if it has let it in before: *)
(* no damaged copy uses up the nonce of the worker (service-auth.ts:146 "only  *)
(* AFTER the signature verifies").                                            *)
ReplayedMeansAccepted == \A m \in replayed[Core] : accepted[Core][m] # <<>>

CountedSince(k, from) == Cardinality({i \in DOMAIN counted[k] : counted[k][i] >= from})

(* How long a request may still count: its counter lapses Window after the    *)
(* EXPIRE, and counting, expiring and reading take a command each.            *)
Memory == Window + 3 * CommandLimit

(* Whether it counts in Redis or by itself, a process turns a caller away only *)
(* when more than Limit requests of his came lately, or when Redis was left    *)
(* with a counter that does not lapse.                                       *)
RefusedForCause ==
  [][\A w \in Slots :
       slot[w].stage # "refused" /\ slot'[w].stage = "refused" =>
         \/ CountedSince(slot[w].key, now - Memory) > Limit
         \/ slot[w].key \in orphaned]_vars
=============================================================================
