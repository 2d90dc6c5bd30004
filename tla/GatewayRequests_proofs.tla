------------------------ MODULE GatewayRequests_proofs ------------------------
(***************************************************************************)
(* GatewayRequests for any number of processes, requests, redeliveries and      *)
(* faults.                                                                   *)
(***************************************************************************)
EXTENDS GatewayRequests, FiniteSetTheorems, SequenceTheorems, TLAPS

-----------------------------------------------------------------------------
(* Seconds.                                                                  *)

LEMMA Quotient ==
  ASSUME NEW a \in Nat, NEW p \in Nat \ {0}
  PROVE  /\ a \div p \in Nat
         /\ p * (a \div p) <= a
         /\ a < p * (a \div p) + p
  BY SMT

LEMMA SecondsGrow ==
  ASSUME NEW a \in Nat, NEW b \in Nat, a <= b
  PROVE  Seconds(a) \in Nat /\ Seconds(a) <= Seconds(b)
  BY RequestsAssumption, SMT DEF Seconds

LEMMA WholeSeconds ==
  ASSUME NEW a \in Nat, NEW b \in Nat, NEW c \in Nat, NEW p \in Nat \ {0},
         p * a + 2 * c * p < p * b + p
  PROVE  b >= a + 2 * c
<1> SUFFICES ASSUME b + 1 <= a + 2 * c PROVE FALSE
  OBVIOUS
<1> DEFINE gap == a + 2 * c - (b + 1)
<1>1. gap \in Nat /\ a + 2 * c = b + 1 + gap
  OBVIOUS
<1>2. p * gap \in Nat
  BY <1>1
<1>3. p * (a + 2 * c) = p * (b + 1 + gap)
  BY <1>1
<1>4. p * a + 2 * c * p = p * b + p + p * gap
  <2> HIDE DEF gap
  <2> QED
    BY <1>1, <1>3, Z3
<1> QED
  BY <1>2, <1>4

LEMMA SecondsAfter ==
  ASSUME NEW t \in Nat
  PROVE  Seconds(t + NonceTTL) >= Seconds(t) + 2 * FreshFor
<1>1. /\ PerSecond \in Nat \ {0} /\ FreshFor \in Nat /\ NonceTTL \in Nat
      /\ NonceTTL >= 2 * FreshFor * PerSecond /\ t + NonceTTL \in Nat
  BY RequestsAssumption
<1> DEFINE a == t \div PerSecond
           b == (t + NonceTTL) \div PerSecond
<1>2. /\ a \in Nat /\ PerSecond * a <= t
      /\ b \in Nat /\ t + NonceTTL < PerSecond * b + PerSecond
  BY <1>1, Quotient
<1>3. PerSecond * a \in Nat /\ PerSecond * b \in Nat /\ 2 * FreshFor * PerSecond \in Nat
  BY <1>1, <1>2
<1> HIDE DEF a, b
<1>4. PerSecond * a + 2 * FreshFor * PerSecond < PerSecond * b + PerSecond
  BY <1>1, <1>2, <1>3
<1>5. b >= a + 2 * FreshFor
  BY <1>1, <1>2, <1>4, WholeSeconds
<1> QED
  BY <1>5 DEF a, b, Seconds

LEMMA RequestNumbers ==
  /\ FreshFor \in Nat /\ NonceTTL \in Nat /\ Ahead \in Nat /\ Limit \in Nat /\ Window \in Nat
  /\ CommandLimit \in Nat /\ MaxDeliveries \in Nat /\ MaxCalls \in Nat /\ MaxFaults \in Nat
  /\ Horizon \in Nat /\ PerSecond \in Nat \ {0} /\ FreshFor > 0
  /\ Never = Horizon + NonceTTL + Window + 1 /\ Times = 0..Never
  /\ Core \notin Gateways /\ Sites = Gateways \cup {Core}
BY RequestsAssumption DEF Never, Times, Sites

-----------------------------------------------------------------------------
(* Types.                                                                    *)

Stamped == [stamp : (-Ahead)..(Horizon \div PerSecond + Ahead), to : {"gateway", "core"}]

SignTypes ==
  /\ now \in 0..Horizon
  /\ sent \in [Messages -> Stamped \cup {Unsent}]
  /\ arrivals \in [Messages -> 0..MaxDeliveries]
  /\ nonces \in [Sites -> [Messages -> Times]]
  /\ accepted \in [Sites -> [Messages -> Seq(0..Horizon)]]
  /\ replayed \in [Sites -> SUBSET Messages]

LimitTypes ==
  /\ slot \in [Slots -> Busy \cup {Idle}]
  /\ counter \in [Keys -> Counter]
  /\ orphaned \subseteq Keys
  /\ healthy \subseteq Gateways
  /\ memory \in [Gateways -> [Keys -> Counter]]
  /\ counted \in [Keys -> Seq(0..Horizon)]

BoundTypes == calls \in 0..MaxCalls /\ faults \in 0..MaxFaults

Typed == SignTypes /\ LimitTypes /\ BoundTypes

LEMMA TypedIsTypeOK == Typed => RequestsTypeOK
BY DEF Typed, SignTypes, LimitTypes, BoundTypes, RequestsTypeOK, Stamped

LEMMA TypedInit == Init => Typed
<1> SUFFICES ASSUME Init PROVE Typed
  OBVIOUS
<1> USE RequestNumbers
<1>1. Never \in Times
  OBVIOUS
<1>2. SignTypes
  BY <1>1 DEF Init, SignTypes, NoNonces
<1>3. LimitTypes
  BY <1>1 DEF Init, LimitTypes, NoCounters, NoCounter, Counter
<1> QED
  BY <1>2, <1>3 DEF Init, Typed, BoundTypes

LEMMA KeysOf ==
  ASSUME NEW op \in Operations
  PROVE  RateKeys(op) \subseteq Keys /\ ProductKey(op) \in Keys
BY DEF Keys

(* A request enters a free slot.                                             *)
LEMMA OccupiedTyped ==
  ASSUME Typed, NEW w \in Slots, NEW g \in Gateways, NEW key \in Keys, Occupied(w, g, key)
  PROVE  slot' \in [Slots -> Busy \cup {Idle}] /\ counted' \in [Keys -> Seq(0..Horizon)]
<1>1. now \in 0..Horizon /\ now \in Times
  BY RequestNumbers DEF Typed, SignTypes
<1>2. [stage |-> "counting", site |-> g, key |-> key, count |-> 0, since |-> now] \in Busy
  BY <1>1 DEF Busy
<1>3. slot' \in [Slots -> Busy \cup {Idle}]
  BY <1>2 DEF Occupied, Typed, LimitTypes
<1>4. Append(counted[key], now) \in Seq(0..Horizon)
  BY <1>1 DEF Typed, LimitTypes
<1>5. counted' = [counted EXCEPT ![key] = Append(counted[key], now)]
  BY DEF Occupied
<1>6. counted' \in [Keys -> Seq(0..Horizon)]
  BY <1>4, <1>5 DEF Typed, LimitTypes
<1> QED
  BY <1>3, <1>6

LEMMA RememberingTyped ==
  ASSUME SignTypes, NEW s \in Sites, NEW m \in Messages, Remembering(s, m)
  PROVE  nonces' \in [Sites -> [Messages -> Times]]
<1>1. Lapse(now) \in Times /\ Never \in Times
  BY RequestNumbers DEF SignTypes, Lapse
<1>2. [o \in Messages |-> IF o = m THEN Lapse(now) ELSE IF Known(s, o) THEN nonces[s][o] ELSE Never]
        \in [Messages -> Times]
  BY <1>1 DEF SignTypes
<1> QED
  BY <1>2 DEF Remembering, SignTypes

LEMMA ArrivesTyped ==
  ASSUME SignTypes, NEW s \in Sites, NEW m \in Messages, Arrives(s, m)
  PROVE  arrivals' \in [Messages -> 0..MaxDeliveries]
BY RequestNumbers DEF SignTypes, Arrives

LEMMA LetInTyped ==
  ASSUME SignTypes, NEW s \in Sites, NEW m \in Messages, NEW intact \in BOOLEAN, LetIn(s, m, intact)
  PROVE  SignTypes'
<1>1. accepted' \in [Sites -> [Messages -> Seq(0..Horizon)]]
  <2>1. Append(accepted[s][m], now) \in Seq(0..Horizon)
    BY DEF SignTypes
  <2>2. [accepted[s] EXCEPT ![m] = Append(accepted[s][m], now)] \in [Messages -> Seq(0..Horizon)]
    BY <2>1 DEF SignTypes
  <2>3. accepted' = [accepted EXCEPT ![s] = [accepted[s] EXCEPT ![m] = Append(accepted[s][m], now)]]
    BY DEF LetIn
  <2> QED
    BY <2>2, <2>3 DEF SignTypes
<1> QED
  BY <1>1, ArrivesTyped, RememberingTyped DEF LetIn, SignTypes

LEMMA SignedTyped ==
  ASSUME Typed, SignedStep
  PROVE  Typed'
<1> USE RequestNumbers
<1>1. ASSUME NEW m \in Messages, NEW skew \in (-Ahead)..Ahead, NEW to \in {"gateway", "core"},
             Sign(m, skew, to)
      PROVE  Typed'
  <2>0. now \in Nat /\ Horizon \in Nat /\ now <= Horizon
    BY DEF Typed, SignTypes
  <2>1. Seconds(now) \in Nat /\ Seconds(now) <= Seconds(Horizon)
    BY <2>0, SecondsGrow
  <2>2. Seconds(now) + skew \in (-Ahead)..(Horizon \div PerSecond + Ahead)
    <3>1. Seconds(Horizon) = Horizon \div PerSecond /\ Seconds(Horizon) \in Nat
      BY SecondsGrow DEF Seconds
    <3> QED
      BY <2>1, <3>1
  <2>3. [stamp |-> Seconds(now) + skew, to |-> to] \in Stamped
    BY <2>2 DEF Stamped
  <2>4. sent' \in [Messages -> Stamped \cup {Unsent}]
    BY <1>1, <2>3 DEF Sign, Typed, SignTypes
  <2> QED
    BY <1>1, <2>4 DEF Sign, Typed, SignTypes, LimitTypes, BoundTypes, limitVars
<1>2. ASSUME NEW s \in Sites, NEW m \in Messages, NEW intact \in BOOLEAN, RefuseReplay(s, m, intact)
      PROVE  Typed'
  <2>1. arrivals' \in [Messages -> 0..MaxDeliveries]
    BY <1>2, ArrivesTyped DEF RefuseReplay, Typed
  <2> QED
    BY <1>2, <2>1 DEF RefuseReplay, Typed, SignTypes, LimitTypes, BoundTypes, limitVars
<1>3. ASSUME NEW s \in Sites, NEW m \in Messages, NEW intact \in BOOLEAN,
             RefuseSignature(s, m, intact)
      PROVE  Typed'
  <2>1. arrivals' \in [Messages -> 0..MaxDeliveries]
    BY <1>3, ArrivesTyped DEF RefuseSignature, Typed
  <2>2. nonces' \in [Sites -> [Messages -> Times]]
    BY <1>3, RememberingTyped DEF RefuseSignature, Typed, SignTypes
  <2> QED
    BY <1>3, <2>1, <2>2 DEF RefuseSignature, Typed, SignTypes, LimitTypes, BoundTypes, limitVars
<1>4. ASSUME NEW m \in Messages, NEW intact \in BOOLEAN, AcceptAtCore(m, intact)
      PROVE  Typed'
  <2>1. SignTypes'
    BY <1>4, LetInTyped DEF AcceptAtCore, Typed
  <2> QED
    BY <1>4, <2>1 DEF AcceptAtCore, Typed, LimitTypes, BoundTypes, limitVars
<1>5. ASSUME NEW w \in Slots, NEW g \in Gateways, NEW m \in Messages, NEW op \in Operations,
             AcceptAtGateway(w, g, m, op, TRUE)
      PROVE  Typed'
  <2>1. SignTypes'
    BY <1>5, LetInTyped DEF AcceptAtGateway, Typed
  <2>2. slot' \in [Slots -> Busy \cup {Idle}] /\ counted' \in [Keys -> Seq(0..Horizon)]
    BY <1>5, KeysOf, OccupiedTyped DEF AcceptAtGateway
  <2> QED
    BY <1>5, <2>1, <2>2 DEF AcceptAtGateway, Typed, LimitTypes, BoundTypes
<1> QED
  BY <1>1, <1>2, <1>3, <1>4, <1>5 DEF SignedStep

(* A slot, a counter and a process's counters after the limiter's steps.       *)
LEMMA BusySlot ==
  ASSUME LimitTypes, NEW w \in Slots, slot[w] # Idle
  PROVE  slot[w] \in Busy /\ slot[w].key \in Keys /\ slot[w].site \in Gateways
BY DEF LimitTypes, Busy

LEMMA NotIdle ==
  ASSUME NEW w \in Slots, slot[w].stage # "idle"
  PROVE  slot[w] # Idle
BY DEF Idle

LEMMA JudgedTyped ==
  ASSUME LimitTypes, NEW w \in Slots, slot[w] # Idle, NEW count, Judged(w, count)
  PROVE  slot' \in [Slots -> Busy \cup {Idle}]
<1>1. 0 \in Times
  BY RequestNumbers
<1>2. (IF Within(count) THEN "forwarding" ELSE "refused") \in
        {"counting", "expiring", "reading", "forwarding", "refused"}
  OBVIOUS
<1>3. [slot[w] EXCEPT !.stage = IF Within(count) THEN "forwarding" ELSE "refused",
                      !.count = 0, !.since = 0] \in Busy
  BY <1>1, <1>2, BusySlot DEF Busy
<1>4. slot' = [slot EXCEPT ![w] = [slot[w] EXCEPT
         !.stage = IF Within(count) THEN "forwarding" ELSE "refused", !.count = 0, !.since = 0]]
  BY DEF Judged
<1> QED
  BY <1>3, <1>4 DEF LimitTypes

LEMMA CountedNat ==
  ASSUME NEW c \in Counter
  PROVE  Counted(c) \in Nat
BY DEF Counter, Counted

LEMMA IncrCounter ==
  ASSUME NEW c \in Counter
  PROVE  [count |-> Counted(c) + 1, lapses |-> IF Live(c) THEN c.lapses ELSE Never] \in Counter
<1>1. Never \in Times
  BY RequestNumbers
<1> QED
  BY <1>1, CountedNat DEF Counter

LEMMA InMemoryTyped ==
  ASSUME SignTypes, LimitTypes, NEW w \in Slots, slot[w] # Idle, InMemory(w)
  PROVE  /\ slot' \in [Slots -> Busy \cup {Idle}]
         /\ memory' \in [Gateways -> [Keys -> Counter]]
<1> DEFINE k == slot[w].key
           g == slot[w].site
           c == memory[g][k]
           n == [count |-> Counted(c) + 1, lapses |-> IF Live(c) THEN c.lapses ELSE now + Window]
<1>1. k \in Keys /\ g \in Gateways
  BY BusySlot
<1>2. c \in Counter
  BY <1>1 DEF LimitTypes
<1>3. now + Window \in Times
  BY RequestNumbers DEF SignTypes
<1>4. n \in Counter
  BY <1>2, <1>3, CountedNat DEF Counter
<1>5. memory' = [memory EXCEPT ![g] = [memory[g] EXCEPT ![k] = n]]
  BY DEF InMemory
<1>6. [memory[g] EXCEPT ![k] = n] \in [Keys -> Counter]
  BY <1>1, <1>4 DEF LimitTypes
<1>7. memory' \in [Gateways -> [Keys -> Counter]]
  BY <1>5, <1>6 DEF LimitTypes
<1>8. Judged(w, Counted(c) + 1)
  BY DEF InMemory
<1> QED
  BY <1>7, <1>8, JudgedTyped

LEMMA LimiterTyped ==
  ASSUME Typed, LimiterStep
  PROVE  Typed'
<1> USE RequestNumbers
<1>0. now \in 0..Horizon /\ now \in Times
  BY DEF Typed, SignTypes
<1>1. ASSUME NEW w \in Slots, NEW g \in Gateways, NEW op \in Operations, Call(w, g, op)
      PROVE  Typed'
  <2>1. slot' \in [Slots -> Busy \cup {Idle}] /\ counted' \in [Keys -> Seq(0..Horizon)]
    BY <1>1, KeysOf, OccupiedTyped DEF Call
  <2>2. calls' \in 0..MaxCalls
    BY <1>1 DEF Call, Typed, BoundTypes
  <2> QED
    BY <1>1, <2>1, <2>2 DEF Call, Typed, SignTypes, LimitTypes, BoundTypes, signVars
<1>2. ASSUME NEW w \in Slots, Incr(w)
      PROVE  Typed'
  <2> DEFINE k == slot[w].key
             n == Counted(counter[k]) + 1
             stage == IF Opens(n) THEN "expiring" ELSE "reading"
  <2>1. slot[w] \in Busy /\ k \in Keys
    BY <1>2, NotIdle, BusySlot DEF Incr, Typed
  <2>2. counter[k] \in Counter /\ n \in Nat
    BY <2>1, CountedNat DEF Typed, LimitTypes
  <2>3. counter' = [counter EXCEPT ![k] = [count |-> n,
                      lapses |-> IF Live(counter[k]) THEN counter[k].lapses ELSE Never]]
    BY <1>2 DEF Incr
  <2>4. counter' \in [Keys -> Counter]
    BY <2>2, <2>3, IncrCounter DEF Typed, LimitTypes
  <2>5. slot' = [slot EXCEPT ![w] = [slot[w] EXCEPT !.count = n, !.since = now, !.stage = stage]]
    BY <1>2 DEF Incr
  <2>6. stage \in {"expiring", "reading"}
    OBVIOUS
  <2> HIDE DEF stage, n
  <2>7. [slot[w] EXCEPT !.count = n, !.since = now, !.stage = stage] \in Busy
    BY <1>0, <2>1, <2>2, <2>6 DEF Busy
  <2>8. slot' \in [Slots -> Busy \cup {Idle}]
    BY <2>5, <2>7 DEF Typed, LimitTypes
  <2>9. orphaned' \subseteq Keys
    BY <1>2 DEF Incr, Typed, LimitTypes
  <2> QED
    BY <1>2, <2>4, <2>8, <2>9 DEF Incr, Typed, SignTypes, LimitTypes, BoundTypes, signVars
<1>3. ASSUME NEW w \in Slots, Expire(w)
      PROVE  Typed'
  <2> DEFINE k == slot[w].key
  <2>1. slot[w] \in Busy /\ k \in Keys
    BY <1>3, NotIdle, BusySlot DEF Expire, Typed
  <2>2. now + Window \in Times /\ counter[k] \in Counter
    BY <1>0, <2>1 DEF Typed, LimitTypes
  <2>3. counter' = [counter EXCEPT ![k] = [counter[k] EXCEPT !.lapses =
                      IF Live(counter[k]) THEN now + Window ELSE counter[k].lapses]]
    BY <1>3 DEF Expire, Closes
  <2>4. [counter[k] EXCEPT !.lapses =
           IF Live(counter[k]) THEN now + Window ELSE counter[k].lapses] \in Counter
    BY <2>2 DEF Counter
  <2>5. counter' \in [Keys -> Counter]
    BY <2>3, <2>4 DEF Typed, LimitTypes
  <2>6. slot' = [slot EXCEPT ![w] = [slot[w] EXCEPT !.stage = "reading", !.since = now]]
    BY <1>3 DEF Expire
  <2>7. [slot[w] EXCEPT !.stage = "reading", !.since = now] \in Busy
    BY <1>0, <2>1 DEF Busy
  <2>8. slot' \in [Slots -> Busy \cup {Idle}]
    BY <2>6, <2>7 DEF Typed, LimitTypes
  <2> QED
    BY <1>3, <2>5, <2>8 DEF Expire, Typed, SignTypes, LimitTypes, BoundTypes, signVars
<1>4. ASSUME NEW w \in Slots, Read(w)
      PROVE  Typed'
  <2>1. slot' \in [Slots -> Busy \cup {Idle}]
    BY <1>4, NotIdle, JudgedTyped DEF Read, Typed
  <2> QED
    BY <1>4, <2>1 DEF Read, Typed, SignTypes, LimitTypes, BoundTypes, signVars
<1>5. ASSUME NEW w \in Slots, CommandFails(w)
      PROVE  Typed'
  <2>1. slot[w] # Idle /\ slot[w].key \in Keys
    BY <1>5, NotIdle, BusySlot DEF CommandFails, Counts, Typed
  <2>2. slot' \in [Slots -> Busy \cup {Idle}] /\ memory' \in [Gateways -> [Keys -> Counter]]
    BY <1>5, <2>1, InMemoryTyped DEF CommandFails, Typed
  <2>3. counter' \in [Keys -> Counter] /\ orphaned' \subseteq Keys
    <3>1. counter[slot[w].key] \in Counter
      BY <2>1 DEF Typed, LimitTypes
    <3>2. CASE UNCHANGED counter
      BY <1>5, <2>1, <3>2 DEF CommandFails, Typed, LimitTypes
    <3>3. CASE counter' = [counter EXCEPT ![slot[w].key] = [count |-> Counted(@) + 1,
                             lapses |-> IF Live(@) THEN @.lapses ELSE Never]]
      <4>1. counter' \in [Keys -> Counter]
        BY <2>1, <3>1, <3>3, IncrCounter DEF Typed, LimitTypes
      <4>2. orphaned \subseteq Keys
        BY DEF Typed, LimitTypes
      <4>3. \/ orphaned' = orphaned
            \/ orphaned' = orphaned \cup {slot[w].key}
        BY <1>5 DEF CommandFails
      <4> QED
        BY <2>1, <4>1, <4>2, <4>3
    <3>4. CASE Closes(slot[w].key) /\ UNCHANGED orphaned
      <4>1. now + Window \in Times
        BY <1>0
      <4>2. [counter[slot[w].key] EXCEPT !.lapses =
               IF Live(counter[slot[w].key]) THEN now + Window ELSE counter[slot[w].key].lapses]
              \in Counter
        BY <3>1, <4>1 DEF Counter
      <4>3. counter' = [counter EXCEPT ![slot[w].key] = [counter[slot[w].key] EXCEPT !.lapses =
               IF Live(counter[slot[w].key]) THEN now + Window ELSE counter[slot[w].key].lapses]]
        BY <3>4 DEF Closes
      <4> QED
        BY <3>4, <4>2, <4>3 DEF Typed, LimitTypes
    <3>5. \/ UNCHANGED counter
          \/ counter' = [counter EXCEPT ![slot[w].key] = [count |-> Counted(@) + 1,
                             lapses |-> IF Live(@) THEN @.lapses ELSE Never]]
          \/ Closes(slot[w].key) /\ UNCHANGED orphaned
      BY <1>5, ZenonT(30) DEF CommandFails
    <3> QED
      BY <3>2, <3>3, <3>4, <3>5
  <2>4. faults' \in 0..MaxFaults
    <3>1. Fault
      BY <1>5, Zenon DEF CommandFails
    <3>2. faults < MaxFaults /\ faults' = faults + 1 /\ faults \in 0..MaxFaults
      BY <3>1 DEF Fault, Typed, BoundTypes
    <3> QED
      BY <3>2, RequestNumbers
  <2> QED
    BY <1>5, <2>2, <2>3, <2>4
    DEF CommandFails, Typed, SignTypes, LimitTypes, BoundTypes, signVars
<1>6. ASSUME NEW w \in Slots, CountInMemory(w)
      PROVE  Typed'
  <2>1. slot' \in [Slots -> Busy \cup {Idle}] /\ memory' \in [Gateways -> [Keys -> Counter]]
    BY <1>6, NotIdle, InMemoryTyped DEF CountInMemory, Typed
  <2> QED
    BY <1>6, <2>1 DEF CountInMemory, Typed, SignTypes, LimitTypes, BoundTypes, signVars
<1>7. ASSUME NEW w \in Slots, Reply(w)
      PROVE  Typed'
  BY <1>7 DEF Reply, Typed, SignTypes, LimitTypes, BoundTypes, signVars
<1>8. ASSUME NEW g \in Gateways, ConnectionLost(g)
      PROVE  Typed'
  BY <1>8 DEF ConnectionLost, Fault, Typed, SignTypes, LimitTypes, BoundTypes, signVars
<1>9. ASSUME NEW g \in Gateways, GatewayRestarts(g)
      PROVE  Typed'
  <2>1. Never \in Times
    OBVIOUS
  <2>2. NoNonces \in [Messages -> Times] /\ NoCounters \in [Keys -> Counter]
    BY <2>1 DEF NoNonces, NoCounters, NoCounter, Counter
  <2>3. SignTypes'
    BY <1>9, <2>2 DEF GatewayRestarts, Typed, SignTypes
  <2>4. orphaned' \subseteq Keys
    <3>1. \A v \in Slots : slot[v].stage = "expiring" => slot[v].key \in Keys
      BY NotIdle, BusySlot DEF Typed
    <3> QED
      BY <1>9, <3>1 DEF GatewayRestarts, Typed, LimitTypes
  <2>5. slot' \in [Slots -> Busy \cup {Idle}]
    BY <1>9 DEF GatewayRestarts, Typed, LimitTypes
  <2>6. healthy' \subseteq Gateways /\ memory' \in [Gateways -> [Keys -> Counter]]
    BY <1>9, <2>2 DEF GatewayRestarts, Typed, LimitTypes
  <2>7. BoundTypes'
    BY <1>9 DEF GatewayRestarts, Fault, Typed, BoundTypes
  <2> QED
    BY <1>9, <2>3, <2>4, <2>5, <2>6, <2>7 DEF GatewayRestarts, Typed, LimitTypes
<1> QED
  BY <1>1, <1>2, <1>3, <1>4, <1>5, <1>6, <1>7, <1>8, <1>9 DEF LimiterStep

LEMMA TypedStep ==
  ASSUME Typed, [Next]_vars
  PROVE  Typed'
<1>1. CASE Tick
  <2>1. now' \in 0..Horizon
    BY <1>1, RequestNumbers DEF Tick, Typed, SignTypes
  <2> QED
    BY <1>1, <2>1 DEF Tick, Typed, SignTypes, LimitTypes, BoundTypes, signVars, limitVars
<1>2. CASE UNCHANGED vars
  BY <1>2 DEF vars, Typed, SignTypes, LimitTypes, BoundTypes, signVars, limitVars
<1> QED
  BY <1>1, <1>2, SignedTyped, LimiterTyped DEF Next

-----------------------------------------------------------------------------
(* Nonces.                                                                   *)

(* The times at which a process let a request in, against its timestamp.      *)
Ordered(times, message) ==
  /\ Len(times) <= 2
  /\ times # <<>> => message # Unsent /\ message.stamp - Seconds(times[1]) <= FreshFor
  /\ Len(times) = 2 => AtBothEdges(message.stamp, times)

(* A nonce is still in the map, or its time has passed.                      *)
Outlasts(s, m, t) ==
  \/ nonces[s][m] # Never /\ nonces[s][m] >= t + NonceTTL
  \/ now > t + NonceTTL

Latest(times) == times[Len(times)]

Covered(s, m) ==
  accepted[s][m] # <<>> =>
    Latest(accepted[s][m]) <= now /\ Outlasts(s, m, Latest(accepted[s][m]))

NonceInv ==
  /\ \A s \in Sites, m \in Messages : Ordered(accepted[s][m], sent[m]) /\ Covered(s, m)
  /\ \A m \in Messages : nonces[Core][m] # Never => accepted[Core][m] # <<>>
  /\ ReplayedMeansAccepted

LEMMA NoTimes ==
  ASSUME NEW message
  PROVE  Ordered(<<>>, message)
BY DEF Ordered

LEMMA UpToTwo ==
  ASSUME NEW n \in Nat, n <= 2
  PROVE  (n <= 1 \/ n = 2) /\ (n > 0 /\ n # 2 => n = 1)
OBVIOUS

LEMMA TimesOf ==
  ASSUME NEW S, NEW times \in Seq(S), NEW t \in S
  PROVE  /\ Len(times) \in Nat /\ (times # <<>> => Len(times) > 0)
         /\ times # <<>> => times[1] \in S /\ times[Len(times)] \in S
         /\ Append(times, t) # <<>> /\ Len(Append(times, t)) = Len(times) + 1
         /\ Append(times, t)[Len(times) + 1] = t
         /\ times # <<>> => Append(times, t)[1] = times[1]
<1>1. Len(times) \in Nat /\ (times # <<>> => Len(times) > 0)
  BY EmptySeq, LenProperties
<1>2. times # <<>> => times[1] \in S /\ times[Len(times)] \in S
  BY <1>1, ElementOfSeq
<1>3. /\ Append(times, t) # <<>> /\ Len(Append(times, t)) = Len(times) + 1
      /\ Append(times, t)[Len(times) + 1] = t
  BY <1>1, AppendProperties
<1>4. times # <<>> => Append(times, t)[1] = times[1]
  BY <1>1, AppendProperties
<1> QED
  BY <1>1, <1>2, <1>3, <1>4

LEMMA LatestTime ==
  ASSUME NEW times \in Seq(0..Horizon), times # <<>>
  PROVE  /\ Latest(times) \in 0..Horizon /\ Len(times) \in Nat /\ Len(times) > 0
         /\ times[1] \in 0..Horizon
<1>1. 0 \in 0..Horizon
  BY RequestNumbers
<1> QED
  BY <1>1, TimesOf DEF Latest

(* Seconds as variables of their own: the arithmetic of the two edges.         *)
LEMMA Edges ==
  ASSUME NEW first \in Nat, NEW later \in Nat, NEW lapse \in Nat, NEW stamp \in Int,
         later >= lapse, lapse >= first + 2 * FreshFor,
         stamp - first <= FreshFor, later - stamp <= FreshFor
  PROVE  stamp - first = FreshFor /\ later - stamp = FreshFor /\ later > first
BY RequestNumbers

(* Let in once more, the latest nonce having lapsed.                         *)
LEMMA LetInOrdered ==
  ASSUME NEW times \in Seq(0..Horizon), NEW message \in Stamped, NEW t \in 0..Horizon,
         Ordered(times, message),
         Seconds(t) - message.stamp <= FreshFor, message.stamp - Seconds(t) <= FreshFor,
         times # <<>> => t > Latest(times) + NonceTTL
  PROVE  Ordered(Append(times, t), message)
<1>0. t \in Nat /\ t <= t /\ FreshFor \in Nat /\ NonceTTL \in Nat /\ FreshFor > 0
  BY RequestNumbers
<1>1. /\ t \in Nat /\ Seconds(t) \in Nat /\ message # Unsent /\ FreshFor \in Nat
      /\ NonceTTL \in Nat
  <2>1. Seconds(t) \in Nat
    BY <1>0, SecondsGrow
  <2>2. message # Unsent
    BY DEF Stamped, Unsent
  <2> QED
    BY <1>0, <2>1, <2>2
<1>2. message.stamp \in Int
  BY RequestNumbers, SMT DEF Stamped
<1>3. CASE times = <<>>
  <2>1. Append(times, t) = <<t>>
    BY <1>3
  <2>2. Len(Append(times, t)) = 1 /\ Append(times, t)[1] = t
    BY <2>1
  <2> QED
    BY <1>1, <2>2 DEF Ordered
<1>4. CASE times # <<>>
  <2> DEFINE last == Latest(times)
  <2>1. last \in Nat /\ Len(times) \in Nat /\ Len(times) > 0 /\ times[1] \in Nat /\ t > last + NonceTTL
    BY <1>4, LatestTime, RequestNumbers
  <2>2. Seconds(last) \in Nat /\ Seconds(times[1]) \in Nat
    BY <2>1, SecondsGrow
  <2>3. /\ Seconds(last + NonceTTL) \in Nat /\ Seconds(t) >= Seconds(last + NonceTTL)
        /\ Seconds(last + NonceTTL) >= Seconds(last) + 2 * FreshFor
    <3>1. last + NonceTTL \in Nat /\ last + NonceTTL <= t
      BY <1>1, <2>1
    <3> QED
      BY <1>1, <2>1, <3>1, SecondsGrow, SecondsAfter
  <2>4. Len(times) # 2
    <3>1. SUFFICES ASSUME Len(times) = 2 PROVE FALSE
      OBVIOUS
    <3>2. Seconds(last) - message.stamp = FreshFor
      BY <3>1 DEF Ordered, AtBothEdges, Latest
    <3> DEFINE a == Seconds(last)
               b == Seconds(t)
               c == Seconds(last + NonceTTL)
               d == message.stamp
    <3>3. /\ a \in Nat /\ b \in Nat /\ c \in Nat /\ d \in Int /\ a - d = FreshFor
          /\ b - d <= FreshFor /\ b >= c /\ c >= a + 2 * FreshFor /\ FreshFor > 0
      BY <1>1, <1>2, <2>2, <2>3, <3>2, RequestNumbers
    <3> HIDE DEF a, b, c, d
    <3> QED
      BY <1>1, <3>3
  <2>5. Len(times) = 1
    <3>1. Len(times) \in Nat /\ Len(times) > 0 /\ Len(times) <= 2
      BY <2>1 DEF Ordered
    <3> QED
      BY <2>4, <3>1, UpToTwo
  <2>6. last = times[1] /\ message.stamp - Seconds(times[1]) <= FreshFor
    BY <1>4, <2>5 DEF Ordered, Latest
  <2>7. message.stamp - Seconds(times[1]) = FreshFor /\ Seconds(t) - message.stamp = FreshFor
    <3>1. Seconds(last) \in Nat /\ message.stamp - Seconds(last) <= FreshFor
      BY <2>2, <2>6
    <3>2. message.stamp - Seconds(last) = FreshFor /\ Seconds(t) - message.stamp = FreshFor
      BY <1>1, <1>2, <2>3, <3>1, Edges
    <3> QED
      BY <2>6, <3>2
  <2>8. /\ Len(Append(times, t)) = 2 /\ Append(times, t)[1] = times[1]
        /\ Append(times, t)[2] = t /\ Append(times, t) # <<>>
    <3> HIDE DEF last
    <3> QED
      BY <1>4, <2>5, TimesOf
  <2> QED
    BY <1>1, <2>6, <2>7, <2>8 DEF Ordered, AtBothEdges
<1> QED
  BY <1>3, <1>4

(* Purging the nonces that have lapsed keeps what was let in covered.          *)
LEMMA RememberingCovers ==
  ASSUME SignTypes, NEW s \in Sites, NEW m \in Messages, Remembering(s, m), now' = now,
         NEW site \in Sites, NEW o \in Messages, NEW t \in 0..Horizon, t <= now,
         Outlasts(site, o, t)
  PROVE  Outlasts(site, o, t)'
<1>1. /\ now \in 0..Horizon /\ nonces[site][o] \in Nat /\ NonceTTL \in Nat /\ Never \in Nat
      /\ Horizon \in Nat
  BY RequestNumbers DEF SignTypes
<1>2. CASE site # s
  <2>1. nonces'[site] = nonces[site]
    BY <1>2 DEF Remembering, SignTypes
  <2> QED
    BY <2>1 DEF Outlasts
<1>3. CASE site = s /\ o = m
  <2>1. nonces'[s][m] = now + NonceTTL /\ now + NonceTTL # Never
    BY RequestNumbers DEF Remembering, Lapse, SignTypes
  <2>2. now + NonceTTL >= t + NonceTTL
    BY <1>1
  <2> QED
    BY <1>3, <2>1, <2>2 DEF Outlasts
<1>4. CASE site = s /\ o # m
  <2>1. nonces'[s][o] = IF Known(s, o) THEN nonces[s][o] ELSE Never
    BY <1>4 DEF Remembering, SignTypes
  <2>2. CASE Known(s, o)
    BY <1>4, <2>1, <2>2 DEF Outlasts
  <2>3. CASE ~Known(s, o)
    <3>1. now > t + NonceTTL
      BY <1>1, <1>4, <2>3 DEF Known, Outlasts
    <3> QED
      BY <3>1 DEF Outlasts
  <2> QED
    BY <2>2, <2>3
<1> QED
  BY <1>2, <1>3, <1>4

LEMMA CoveredKept ==
  ASSUME SignTypes, NEW s \in Sites, NEW m \in Messages, Remembering(s, m), now' = now,
         NEW site \in Sites, NEW o \in Messages, accepted'[site][o] = accepted[site][o],
         Covered(site, o)
  PROVE  Covered(site, o)'
<1>1. CASE accepted[site][o] = <<>>
  BY <1>1 DEF Covered
<1>2. CASE accepted[site][o] # <<>>
  <2> DEFINE t == Latest(accepted[site][o])
  <2>1. t \in 0..Horizon /\ t <= now /\ Outlasts(site, o, t)
    BY <1>2, LatestTime DEF Covered, SignTypes
  <2>2. Latest(accepted[site][o])' = t
    BY DEF Latest
  <2> HIDE DEF t
  <2>3. Outlasts(site, o, t) => Outlasts(site, o, t)'
    <3>1. \A u \in 0..Horizon : u <= now /\ Outlasts(site, o, u) =>
             \/ nonces'[site][o] # Never /\ nonces'[site][o] >= u + NonceTTL
             \/ now' > u + NonceTTL
      BY RememberingCovers DEF Outlasts
    <3> QED
      BY <2>1, <2>2, <3>1 DEF Outlasts, t, Latest
  <2> QED
    BY <2>1, <2>2, <2>3 DEF Covered, t, Latest
<1> QED
  BY <1>1, <1>2

LEMMA NonceInit == Init => NonceInv
<1> SUFFICES ASSUME Init PROVE NonceInv
  OBVIOUS
<1>1. Core \in Sites
  BY DEF Sites
<1> QED
  BY <1>1 DEF Init, NonceInv, NoNonces, ReplayedMeansAccepted, Ordered, Covered

LEMMA LetInKeeps ==
  ASSUME Typed, NonceInv, NEW s \in Sites, NEW m \in Messages, NEW intact \in BOOLEAN,
         LetIn(s, m, intact)
  PROVE  NonceInv'
<1> USE DEF Typed
<1> DEFINE times == accepted[s][m]
<1>0. Core \in Sites
  BY DEF Sites
<1>1. /\ ~Known(s, m) /\ Remembering(s, m) /\ UNCHANGED <<now, sent, replayed>> /\ Fresh(m)
      /\ accepted' = [accepted EXCEPT ![s] = [accepted[s] EXCEPT ![m] = Append(times, now)]]
      /\ sent[m] # Unsent
  BY DEF LetIn, Verified, Arrives, Unsent
<1>2. /\ now \in 0..Horizon /\ times \in Seq(0..Horizon) /\ sent[m] \in Stamped
      /\ nonces[s][m] \in Nat /\ NonceTTL \in Nat /\ Horizon \in Nat /\ Never \in Nat
  BY <1>1, RequestNumbers DEF SignTypes
<1>3. /\ accepted'[s][m] = Append(times, now)
      /\ \A t \in Sites, o \in Messages : <<t, o>> # <<s, m>> => accepted'[t][o] = accepted[t][o]
  BY <1>1 DEF SignTypes
<1>4. times # <<>> => now > Latest(times) + NonceTTL
  <2> SUFFICES ASSUME times # <<>> PROVE now > Latest(times) + NonceTTL
    OBVIOUS
  <2>1. Latest(times) \in Nat /\ Outlasts(s, m, Latest(times))
    BY <1>2, LatestTime DEF NonceInv, Covered
  <2> HIDE DEF times
  <2> QED
    BY <1>1, <1>2, <2>1 DEF Known, Outlasts
<1>5. Ordered(Append(times, now), sent[m])
  <2>1. Ordered(times, sent[m])
    BY DEF NonceInv
  <2> HIDE DEF times
  <2> QED
    BY <1>1, <1>2, <1>4, <2>1, LetInOrdered DEF Fresh
<1>6. Covered(s, m)'
  <2>1. Latest(accepted'[s][m]) = now
    BY <1>2, <1>3 DEF Latest
  <2>2. nonces'[s][m] = now + NonceTTL /\ now + NonceTTL # Never
    BY <1>1, RequestNumbers DEF Remembering, Lapse, SignTypes
  <2>3. now' = now /\ now <= now /\ now + NonceTTL >= now + NonceTTL
    BY <1>1, <1>2
  <2> QED
    BY <2>1, <2>2, <2>3 DEF Covered, Outlasts
<1>7. ASSUME NEW t \in Sites, NEW o \in Messages
      PROVE  Ordered(accepted'[t][o], sent'[o]) /\ Covered(t, o)'
  <2>1. CASE <<t, o>> = <<s, m>>
    BY <1>1, <1>3, <1>5, <1>6, <2>1
  <2>2. CASE <<t, o>> # <<s, m>>
    BY <1>1, <1>3, <2>2, CoveredKept DEF NonceInv
  <2> QED
    BY <2>1, <2>2
<1>8. ASSUME NEW o \in Messages, nonces'[Core][o] # Never
      PROVE  accepted'[Core][o] # <<>>
  <2>1. CASE s = Core /\ o = m
    BY <1>2, <1>3, <2>1
  <2>2. CASE ~(s = Core /\ o = m)
    <3>1. nonces[Core][o] # Never
      BY <1>0, <1>1, <1>8, <2>2 DEF Remembering, SignTypes, Known
    <3> QED
      BY <1>0, <1>3, <2>2, <3>1 DEF NonceInv
  <2> QED
    BY <2>1, <2>2
<1>9. ReplayedMeansAccepted'
  <2> SUFFICES ASSUME NEW o \in replayed[Core] PROVE accepted'[Core][o] # <<>>
    BY <1>1 DEF ReplayedMeansAccepted
  <2>1. o \in Messages /\ accepted[Core][o] # <<>>
    BY <1>0 DEF NonceInv, ReplayedMeansAccepted, SignTypes
  <2> QED
    BY <1>0, <1>2, <1>3, <2>1
<1> QED
  BY <1>7, <1>8, <1>9 DEF NonceInv

LEMMA NonceStep ==
  ASSUME Typed, NonceInv, [Next]_vars
  PROVE  NonceInv'
<1> USE DEF Typed
<1>0. Core \in Sites
  BY DEF Sites
<1>1. CASE UNCHANGED <<now, sent, nonces, accepted, replayed>>
  BY <1>1 DEF NonceInv, Covered, Outlasts, ReplayedMeansAccepted
<1>2. ASSUME NEW m \in Messages, NEW skew \in (-Ahead)..Ahead, NEW to \in {"gateway", "core"},
             Sign(m, skew, to)
      PROVE  NonceInv'
  <2>1. /\ sent[m] = Unsent /\ UNCHANGED <<now, nonces, accepted, replayed>>
        /\ sent'[m].stamp = Seconds(now) + skew
        /\ \A o \in Messages \ {m} : sent'[o] = sent[o]
    BY <1>2 DEF Sign, SignTypes
  <2>2. \A s \in Sites : accepted[s][m] = <<>>
    BY <2>1 DEF NonceInv, Ordered
  <2>3. ASSUME NEW s \in Sites, NEW o \in Messages
        PROVE  Ordered(accepted'[s][o], sent'[o]) /\ Covered(s, o)'
    <3>1. CASE o = m
      BY <2>1, <2>2, <3>1, NoTimes DEF Covered
    <3>2. CASE o # m
      BY <2>1, <3>2 DEF NonceInv, Covered, Outlasts
    <3> QED
      BY <3>1, <3>2
  <2> QED
    BY <2>1, <2>3 DEF NonceInv, ReplayedMeansAccepted
<1>3. ASSUME NEW s \in Sites, NEW m \in Messages, NEW intact \in BOOLEAN, RefuseReplay(s, m, intact)
      PROVE  NonceInv'
  <2>1. /\ Known(s, m) /\ UNCHANGED <<now, sent, nonces, accepted>>
        /\ replayed'[Core] \subseteq replayed[Core] \cup {o \in {m} : s = Core}
    BY <1>0, <1>3 DEF RefuseReplay, SignTypes
  <2>2. s = Core => accepted[Core][m] # <<>>
    BY <2>1 DEF Known, NonceInv
  <2>3. ReplayedMeansAccepted'
    BY <2>1, <2>2 DEF NonceInv, ReplayedMeansAccepted
  <2> QED
    BY <2>1, <2>3 DEF NonceInv, Covered, Outlasts
<1>4. ASSUME NEW s \in Sites, NEW m \in Messages, NEW intact \in BOOLEAN,
             RefuseSignature(s, m, intact)
      PROVE  NonceInv'
  <2>1. UNCHANGED <<now, sent, accepted, replayed>>
    BY <1>4 DEF RefuseSignature
  <2>2. CASE NonceFirst(s)
    <3>1. ~Known(s, m) /\ Remembering(s, m) /\ s # Core
      BY <1>4, <2>2 DEF RefuseSignature, NonceFirst
    <3>2. \A t \in Sites, o \in Messages : Covered(t, o) => Covered(t, o)'
      BY <2>1, <3>1, CoveredKept
    <3>3. nonces'[Core] = nonces[Core]
      BY <1>0, <3>1 DEF Remembering, SignTypes
    <3> QED
      BY <2>1, <3>2, <3>3 DEF NonceInv, ReplayedMeansAccepted
  <2>3. CASE ~NonceFirst(s)
    BY <1>1, <1>4, <2>1, <2>3 DEF RefuseSignature
  <2> QED
    BY <2>2, <2>3
<1>5. ASSUME NEW m \in Messages, NEW intact \in BOOLEAN, AcceptAtCore(m, intact)
      PROVE  NonceInv'
  BY <1>0, <1>5, LetInKeeps DEF AcceptAtCore
<1>6. ASSUME NEW w \in Slots, NEW g \in Gateways, NEW m \in Messages, NEW op \in Operations,
             AcceptAtGateway(w, g, m, op, TRUE)
      PROVE  NonceInv'
  <2>1. g \in Sites /\ TRUE \in BOOLEAN
    BY DEF Sites
  <2>2. LetIn(g, m, TRUE)
    BY <1>6 DEF AcceptAtGateway
  <2> QED
    BY <2>1, <2>2, LetInKeeps
<1>7. ASSUME NEW g \in Gateways, GatewayRestarts(g)
      PROVE  NonceInv'
  <2>1. g # Core /\ g \in Sites
    BY RequestNumbers
  <2>2. /\ UNCHANGED <<now, sent>>
        /\ nonces'[Core] = nonces[Core] /\ accepted'[Core] = accepted[Core]
        /\ replayed'[Core] = replayed[Core]
        /\ \A m \in Messages : accepted'[g][m] = <<>>
        /\ \A s \in Sites \ {g} : nonces'[s] = nonces[s] /\ accepted'[s] = accepted[s]
    BY <1>0, <1>7, <2>1 DEF GatewayRestarts, SignTypes
  <2>3. ASSUME NEW s \in Sites, NEW m \in Messages
        PROVE  Ordered(accepted'[s][m], sent'[m]) /\ Covered(s, m)'
    <3>1. CASE s = g
      BY <2>2, <3>1, NoTimes DEF Covered
    <3>2. CASE s # g
      BY <2>2, <3>2 DEF NonceInv, Covered, Outlasts
    <3> QED
      BY <3>1, <3>2
  <2> QED
    BY <2>2, <2>3 DEF NonceInv, ReplayedMeansAccepted
<1>8. CASE Tick
  <2>1. now' = now + 1 /\ UNCHANGED <<sent, nonces, accepted, replayed>>
    BY <1>8 DEF Tick, signVars
  <2>2. ASSUME NEW s \in Sites, NEW m \in Messages
        PROVE  Covered(s, m)'
    <3> SUFFICES ASSUME accepted[s][m] # <<>>
                 PROVE  Latest(accepted[s][m]) <= now' /\ Outlasts(s, m, Latest(accepted[s][m]))'
      BY <2>1 DEF Covered, Latest, Outlasts
    <3>1. /\ Latest(accepted[s][m]) \in Nat /\ now \in Nat /\ NonceTTL \in Nat
          /\ Latest(accepted[s][m]) <= now /\ Outlasts(s, m, Latest(accepted[s][m]))
      BY LatestTime, RequestNumbers DEF SignTypes, NonceInv, Covered
    <3> QED
      BY <2>1, <3>1 DEF Outlasts, Latest
  <2> QED
    BY <2>1, <2>2 DEF NonceInv, ReplayedMeansAccepted
<1> QED
  BY <1>1, <1>2, <1>3, <1>4, <1>5, <1>6, <1>7, <1>8
  DEF Next, vars, SignedStep, LimiterStep, signVars, Call, Incr, Expire, Read, CommandFails,
      CountInMemory, Reply, ConnectionLost

-----------------------------------------------------------------------------
(* Counters.                                                                 *)

Expiring(k) == \E w \in Slots : slot[w].stage = "expiring" /\ slot[w].key = k

Lapses(k) ==
  counter[k].count > 0 /\ counter[k].lapses = Never => k \in orphaned \/ Expiring(k)

(* A step that leaves the counter of k, takes nothing from the orphans, and     *)
(* orphans k itself if it takes an EXPIRE of k off its way.                   *)
LEMMA LapsesKept ==
  ASSUME NEW k \in Keys, Lapses(k), counter'[k] = counter[k], k \in orphaned => k \in orphaned',
         Expiring(k) => Expiring(k)' \/ k \in orphaned'
  PROVE  Lapses(k)'
BY DEF Lapses

(* redis.incr: a counter that is new has its EXPIRE to come, one that lives    *)
(* keeps what it had.                                                        *)
LEMMA NeverLives ==
  ASSUME Typed, NEW k \in Keys, counter[k].count > 0, counter[k].lapses = Never
  PROVE  Live(counter[k])
BY RequestNumbers DEF Typed, SignTypes, Live

LEMMA OtherSlots ==
  ASSUME Typed, NEW w \in Slots, NEW k \in Keys,
         \A v \in Slots \ {w} : slot'[v] = slot[v],
         slot[w].stage = "expiring" => slot[w].key # k \/ k \in orphaned'
  PROVE  Expiring(k) => Expiring(k)' \/ k \in orphaned'
BY DEF Expiring

LEMMA JudgedSlot ==
  ASSUME LimitTypes, NEW w \in Slots, NEW count, Judged(w, count)
  PROVE  \A v \in Slots \ {w} : slot'[v] = slot[v]
BY DEF Judged, LimitTypes

(* redis.expire: the counter it is for has an expiry.                         *)
LEMMA ClosesLapses ==
  ASSUME Typed, NEW k \in Keys, Lapses(k), NEW w \in Slots, slot[w].key \in Keys,
         Closes(slot[w].key), orphaned' = orphaned, \A v \in Slots \ {w} : slot'[v] = slot[v]
  PROVE  Lapses(k)'
<1> DEFINE j == slot[w].key
<1>1. counter' = [counter EXCEPT ![j] = [counter[j] EXCEPT !.lapses =
                    IF Live(counter[j]) THEN now + Window ELSE counter[j].lapses]]
  BY DEF Closes
<1>2. CASE k # j
  <2>1. counter'[k] = counter[k]
    BY <1>1, <1>2 DEF Typed, LimitTypes
  <2> QED
    BY <1>2, <2>1, OtherSlots, LapsesKept
<1>3. CASE k = j
  <2>1. counter[k] \in Counter /\ now + Window # Never
    BY RequestNumbers DEF Typed, SignTypes, LimitTypes
  <2>2. counter'[k].count = counter[k].count
        /\ counter'[k].lapses = IF Live(counter[k]) THEN now + Window ELSE counter[k].lapses
    BY <1>1, <1>3, <2>1 DEF Typed, LimitTypes, Counter
  <2>3. ~(counter'[k].count > 0 /\ counter'[k].lapses = Never)
    BY <2>1, <2>2, NeverLives
  <2> QED
    BY <2>3 DEF Lapses
<1> QED
  BY <1>2, <1>3

(* A counter without expiry is one whose EXPIRE is on its way, or was lost.   *)
CounterLapses ==
  \A k \in Keys : counter[k].count > 0 /\ counter[k].lapses = Never =>
    k \in orphaned \/ \E w \in Slots : slot[w].stage = "expiring" /\ slot[w].key = k

LEMMA LapsesStep ==
  ASSUME Typed, CounterLapses, [Next]_vars, NEW k \in Keys
  PROVE  Lapses(k)'
<1>0. Lapses(k)
  BY DEF CounterLapses, Lapses, Expiring
<1>1. CASE UNCHANGED <<counter, orphaned, slot>>
  BY <1>0, <1>1 DEF Lapses, Expiring
<1>2. ASSUME NEW w \in Slots, NEW g \in Gateways, NEW key \in Keys, Occupied(w, g, key),
             UNCHANGED <<counter, orphaned>>
      PROVE  Lapses(k)'
  <2>1. slot[w].stage # "expiring" /\ \A v \in Slots \ {w} : slot'[v] = slot[v]
    BY <1>2 DEF Occupied, Idle, Typed, LimitTypes
  <2> QED
    BY <1>0, <1>2, <2>1, OtherSlots, LapsesKept
<1>3. ASSUME NEW w \in Slots, Incr(w)
      PROVE  Lapses(k)'
  <2> DEFINE j == slot[w].key
             n == Counted(counter[j]) + 1
  <2>1. slot[w] \in Busy /\ j \in Keys /\ slot[w].stage = "counting"
    BY <1>3, NotIdle, BusySlot DEF Incr, Typed
  <2>2. counter' = [counter EXCEPT ![j] = [count |-> n,
                      lapses |-> IF Live(counter[j]) THEN counter[j].lapses ELSE Never]]
    BY <1>3 DEF Incr
  <2>3. slot' = [slot EXCEPT ![w] = [slot[w] EXCEPT !.count = n, !.since = now,
                                       !.stage = IF Opens(n) THEN "expiring" ELSE "reading"]]
    BY <1>3 DEF Incr
  <2>4. \A v \in Slots \ {w} : slot'[v] = slot[v]
    BY <2>3 DEF Typed, LimitTypes
  <2>5. orphaned' = IF Live(counter[j]) THEN orphaned ELSE orphaned \ {j}
    BY <1>3 DEF Incr
  <2>6. CASE k # j
    <3>1. counter'[k] = counter[k]
      BY <2>1, <2>2, <2>6 DEF Typed, LimitTypes
    <3>2. k \in orphaned => k \in orphaned'
      BY <2>5, <2>6
    <3> QED
      BY <1>0, <2>1, <2>4, <3>1, <3>2, OtherSlots, LapsesKept
  <2>7. CASE k = j /\ Live(counter[j])
    <3>1. counter'[k].lapses = counter[k].lapses
      BY <2>1, <2>2, <2>7 DEF Typed, LimitTypes
    <3>2. counter[k].count > 0 /\ orphaned' = orphaned
      BY <2>5, <2>7 DEF Live
    <3>3. Expiring(k) => Expiring(k)' \/ k \in orphaned'
      BY <2>1, <2>4, OtherSlots
    <3> QED
      BY <1>0, <3>1, <3>2, <3>3 DEF Lapses
  <2>8. CASE k = j /\ ~Live(counter[j])
    <3>1. n = 1
      BY <2>8 DEF Counted
    <3>2. slot'[w].stage = "expiring" /\ slot'[w].key = j
      BY <2>1, <2>3, <3>1 DEF Opens, Busy, Typed, LimitTypes
    <3> QED
      BY <2>8, <3>2 DEF Lapses, Expiring
  <2> QED
    BY <2>6, <2>7, <2>8
<1>4. ASSUME NEW w \in Slots, Expire(w)
      PROVE  Lapses(k)'
  <2>1. /\ slot[w].key \in Keys /\ Closes(slot[w].key) /\ orphaned' = orphaned
        /\ \A v \in Slots \ {w} : slot'[v] = slot[v]
    BY <1>4, NotIdle, BusySlot DEF Expire, Typed, LimitTypes
  <2> QED
    BY <1>0, <2>1, ClosesLapses
<1>5. ASSUME NEW w \in Slots, Read(w) \/ CountInMemory(w)
      PROVE  Lapses(k)'
  <2>1. /\ slot[w].stage # "expiring" /\ UNCHANGED <<counter, orphaned>>
        /\ \A v \in Slots \ {w} : slot'[v] = slot[v]
    BY <1>5, JudgedSlot DEF Read, CountInMemory, InMemory, Typed
  <2> QED
    BY <1>0, <2>1, OtherSlots, LapsesKept
<1>6. ASSUME NEW w \in Slots, CommandFails(w)
      PROVE  Lapses(k)'
  <2> DEFINE j == slot[w].key
  <2>1. slot[w] # Idle /\ j \in Keys
    BY <1>6, NotIdle, BusySlot DEF CommandFails, Counts, Typed
  <2>2. \A v \in Slots \ {w} : slot'[v] = slot[v]
    BY <1>6, JudgedSlot DEF CommandFails, InMemory, Typed
  <2>3. CASE /\ UNCHANGED counter
             /\ orphaned' = IF slot[w].stage = "expiring" THEN orphaned \cup {j} ELSE orphaned
    BY <1>0, <2>1, <2>2, <2>3, OtherSlots, LapsesKept
  <2>4. CASE /\ slot[w].stage = "counting"
             /\ counter' = [counter EXCEPT ![j] = [count |-> Counted(@) + 1,
                              lapses |-> IF Live(@) THEN @.lapses ELSE Never]]
             /\ orphaned' = IF Live(counter[j]) THEN orphaned ELSE orphaned \cup {j}
    <3>1. Expiring(k) => Expiring(k)' \/ k \in orphaned'
      BY <2>2, <2>4, OtherSlots
    <3>2. CASE k # j
      <4>1. counter'[k] = counter[k]
        BY <2>1, <2>4, <3>2 DEF Typed, LimitTypes
      <4> QED
        BY <1>0, <2>4, <3>1, <4>1, LapsesKept
    <3>3. CASE k = j /\ Live(counter[j])
      <4>1. counter'[k].lapses = counter[k].lapses /\ counter[k].count > 0
        BY <2>1, <2>4, <3>3 DEF Typed, LimitTypes, Live
      <4> QED
        BY <1>0, <2>4, <3>1, <3>3, <4>1 DEF Lapses
    <3>4. CASE k = j /\ ~Live(counter[j])
      BY <2>4, <3>4 DEF Lapses
    <3> QED
      BY <3>2, <3>3, <3>4
  <2>5. CASE Closes(j) /\ UNCHANGED orphaned
    BY <1>0, <2>1, <2>2, <2>5, ClosesLapses
  <2> QED
    BY <1>6, <2>3, <2>4, <2>5 DEF CommandFails
<1>7. ASSUME NEW w \in Slots, Reply(w)
      PROVE  Lapses(k)'
  <2>1. /\ slot[w].stage # "expiring" /\ UNCHANGED <<counter, orphaned>>
        /\ \A v \in Slots \ {w} : slot'[v] = slot[v]
    BY <1>7 DEF Reply, Typed, LimitTypes
  <2> QED
    BY <1>0, <2>1, OtherSlots, LapsesKept
<1>8. ASSUME NEW g \in Gateways, GatewayRestarts(g)
      PROVE  Lapses(k)'
  <2>1. counter' = counter /\ orphaned \subseteq orphaned'
    BY <1>8 DEF GatewayRestarts
  <2>2. ASSUME NEW w \in Slots, slot[w].stage = "expiring", slot[w].key = k
        PROVE  Expiring(k)' \/ k \in orphaned'
    <3>1. CASE slot[w].site = g
      BY <1>8, <2>2, <3>1 DEF GatewayRestarts
    <3>2. CASE slot[w].site # g
      <4>1. slot'[w] = slot[w]
        BY <1>8, <3>2 DEF GatewayRestarts
      <4> QED
        BY <2>2, <4>1 DEF Expiring
    <3> QED
      BY <3>1, <3>2
  <2> QED
    BY <1>0, <2>1, <2>2, LapsesKept DEF Expiring
<1> QED
  BY <1>1, <1>2, <1>3, <1>4, <1>5, <1>6, <1>7, <1>8, KeysOf
  DEF Next, vars, SignedStep, LimiterStep, limitVars, Sign, RefuseReplay, RefuseSignature,
      AcceptAtCore, AcceptAtGateway, Call, ConnectionLost, Tick

-----------------------------------------------------------------------------
LEMMA RequestsAlways == Spec => [](Typed /\ NonceInv /\ CounterLapses)
<1>1. Init => CounterLapses
  BY DEF Init, NoCounters, NoCounter, CounterLapses
<1>2. Typed /\ CounterLapses /\ [Next]_vars => CounterLapses'
  <2> SUFFICES ASSUME Typed, CounterLapses, [Next]_vars PROVE CounterLapses'
    OBVIOUS
  <2>1. \A k \in Keys : Lapses(k)'
    BY LapsesStep
  <2> QED
    BY <2>1 DEF Lapses, Expiring, CounterLapses
<1> QED
  BY <1>1, <1>2, TypedInit, TypedStep, NonceInit, NonceStep, PTL DEF Spec

(* Every variable of the gateways' requests keeps its type.                   *)
THEOREM RequestsTypeCorrect == Spec => []RequestsTypeOK
BY TypedIsTypeOK, RequestsAlways, PTL

(* AcceptedOnceUnlessAtEdges for any number of processes, requests,           *)
(* redeliveries and restarts, and clocks however wrong: NONCE_TTL_MS of twice   *)
(* the window leaves no moment at which a nonce is forgotten and its timestamp  *)
(* still fresh, but the last second of a timestamp that came a full window      *)
(* ahead (authenticate(), registerServiceAuth).                               *)
THEOREM NoReplay == Spec => []AcceptedOnceUnlessAtEdges
<1>1. Typed /\ NonceInv => AcceptedOnceUnlessAtEdges
  <2> SUFFICES ASSUME Typed, NonceInv, NEW s \in Sites, NEW m \in Messages
               PROVE  Len(accepted[s][m]) <= 1 \/ AtBothEdges(sent[m].stamp, accepted[s][m])
    BY DEF AcceptedOnceUnlessAtEdges
  <2>1. accepted[s][m] \in Seq(0..Horizon) /\ Ordered(accepted[s][m], sent[m])
    BY DEF Typed, SignTypes, NonceInv
  <2> DEFINE times == accepted[s][m]
  <2>2. Len(times) \in Nat /\ Len(times) <= 2
    BY <2>1 DEF Ordered
  <2>3. Len(times) = 2 => AtBothEdges(sent[m].stamp, times)
    BY <2>1 DEF Ordered
  <2> HIDE DEF times
  <2>4. Len(times) <= 1 \/ Len(times) = 2
    BY <2>2, UpToTwo
  <2> QED
    BY <2>3, <2>4 DEF times
<1> QED
  BY <1>1, RequestsAlways, PTL

(* ReplayedMeansAccepted likewise: core-service remembers no nonce before it   *)
(* has verified the signature.                                               *)
THEOREM NoFalseReplay == Spec => []ReplayedMeansAccepted
<1>1. NonceInv => ReplayedMeansAccepted
  BY DEF NonceInv
<1> QED
  BY <1>1, RequestsAlways, PTL

(* CounterLapses for any number of requests and failing commands: only a lost  *)
(* EXPIRE leaves a counter that never lapses (consume()).                     *)
THEOREM CountersLapse == Spec => []CounterLapses
BY RequestsAlways, PTL

-----------------------------------------------------------------------------
(* Requests that came since, and requests still to be counted.                 *)

Arrival(r) ==
  IF r.stage = "counting" THEN r.since
  ELSE IF r.stage = "expiring" THEN r.since - CommandLimit
  ELSE r.since - 2 * CommandLimit

Arrived(w) == Arrival(slot[w])

Pending(k) == {w \in Slots : Counts(w) /\ slot[w].key = k}

PendingSince(k, t) == {w \in Pending(k) : Arrived(w) >= t}

Counting(k) == {w \in Slots : slot[w].stage = "counting" /\ slot[w].key = k}

Came(c, t) == {i \in DOMAIN c : c[i] >= t}

Since(c, t) == Cardinality(Came(c, t))

LEMMA SomeSlots ==
  ASSUME NEW S, NEW T, S \subseteq T, T \subseteq Slots
  PROVE  /\ Cardinality(S) \in Nat /\ Cardinality(T) \in Nat
         /\ Cardinality(S) <= Cardinality(T)
         /\ \A w \in T \ S : Cardinality(S) + 1 <= Cardinality(T)
<1>1. IsFiniteSet(Slots)
  BY RequestsAssumption
<1>2. IsFiniteSet(T) /\ IsFiniteSet(S)
  BY <1>1, FS_Subset
<1>3. Cardinality(S) \in Nat /\ Cardinality(T) \in Nat
  BY <1>2, FS_CardinalityType
<1>4. Cardinality(S) <= Cardinality(T)
  BY <1>2, FS_Subset
<1>5. ASSUME NEW w \in T \ S
      PROVE  Cardinality(S) + 1 <= Cardinality(T)
  <2>1. Cardinality(S \cup {w}) = Cardinality(S) + 1
    BY <1>2, <1>5, FS_AddElement
  <2>2. S \cup {w} \subseteq T
    BY <1>5
  <2> QED
    BY <1>2, <2>1, <2>2, FS_Subset
<1> QED
  BY <1>3, <1>4, <1>5

LEMMA CameNumbers ==
  ASSUME NEW c \in Seq(0..Horizon), NEW t \in Int
  PROVE  /\ IsFiniteSet(Came(c, t)) /\ Since(c, t) \in Nat
         /\ \A s \in Int : s <= t => Since(c, t) <= Since(c, s)
<1>1. /\ DOMAIN c = 1..Len(c) /\ Len(c) \in Nat /\ Horizon \in Nat
      /\ \A i \in DOMAIN c : c[i] \in Int
  BY RequestNumbers
<1>2. IsFiniteSet(DOMAIN c)
  BY <1>1, FS_Interval
<1>3. \A s \in Int : IsFiniteSet(Came(c, s))
  BY <1>2, FS_Subset DEF Came
<1>4. \A s \in Int : s <= t => Came(c, t) \subseteq Came(c, s)
  BY <1>1 DEF Came
<1> QED
  BY <1>3, <1>4, FS_CardinalityType, FS_Subset DEF Since

LEMMA KeysCame ==
  ASSUME LimitTypes, NEW k \in Keys, NEW t \in Int
  PROVE  /\ Since(counted[k], t) \in Nat
         /\ \A s \in Int : s <= t => Since(counted[k], t) <= Since(counted[k], s)
BY CameNumbers DEF LimitTypes

(* A request that arrives now is one more for every time up to now.            *)
LEMMA OneMoreCame ==
  ASSUME Typed, NEW w \in Slots, NEW g \in Gateways, NEW key \in Keys, Occupied(w, g, key),
         NEW t \in Int
  PROVE  /\ t <= now => Since(counted'[key], t) = Since(counted[key], t) + 1
         /\ t > now => Since(counted'[key], t) = Since(counted[key], t)
         /\ \A k \in Keys \ {key} : counted'[k] = counted[k]
<1> DEFINE s == counted[key]
           n == Len(s)
<1>1. s \in Seq(0..Horizon) /\ n \in Nat /\ now \in Int
  BY RequestNumbers DEF Typed, SignTypes, LimitTypes
<1>2. counted'[key] = Append(s, now) /\ \A k \in Keys \ {key} : counted'[k] = counted[k]
  BY DEF Occupied, Typed, LimitTypes
<1>3. /\ DOMAIN Append(s, now) = (1..n) \cup {n + 1}
      /\ DOMAIN s = 1..n
      /\ \A i \in 1..n : Append(s, now)[i] = s[i]
      /\ Append(s, now)[n + 1] = now
  BY <1>1
<1>4. IsFiniteSet(Came(s, t)) /\ Since(s, t) \in Nat /\ n + 1 \notin Came(s, t)
  <2>1. IsFiniteSet(Came(s, t)) /\ Since(s, t) \in Nat
    BY <1>1, CameNumbers
  <2> QED
    BY <1>1, <1>3, <2>1 DEF Came
<1>5. CASE t <= now
  <2>1. Came(Append(s, now), t) = Came(s, t) \cup {n + 1}
    BY <1>1, <1>3, <1>5 DEF Came
  <2>2. Since(Append(s, now), t) = Since(s, t) + 1
    BY <1>4, <2>1, FS_AddElement DEF Since
  <2> QED
    BY <1>1, <1>2, <1>5, <2>2
<1>6. CASE t > now
  <2>1. Came(Append(s, now), t) = Came(s, t)
    BY <1>1, <1>3, <1>6 DEF Came
  <2> QED
    BY <1>1, <1>2, <1>6, <2>1 DEF Since
<1> QED
  BY <1>1, <1>2, <1>5, <1>6

-----------------------------------------------------------------------------
(* No caller is refused without cause: what is counted, and what is still to   *)
(* be counted, came since the counter was opened, or shortly before.            *)

(* Every command is given CommandLimit.                                      *)
Paced ==
  \A w \in Slots : Counts(w) => slot[w].since <= now /\ now <= slot[w].since + CommandLimit

Awaited(k) ==
  \A t \in Int : Cardinality(PendingSince(k, t)) <= Since(counted[k], t)

MemoryFair(g, k) ==
  memory[g][k].count > 0 =>
    /\ memory[g][k].lapses <= now + Window
    /\ memory[g][k].count + Cardinality(Pending(k)) <=
         Since(counted[k], memory[g][k].lapses - Window - 3 * CommandLimit)

(* A counter whose EXPIRE was lost.                                          *)
OrphanFair(k) ==
  k \in orphaned => counter[k].count > 0 /\ counter[k].lapses = Never

(* A counter whose EXPIRE is on its way, from one slot.                       *)
OpenFair(k) ==
  \A w \in Slots : slot[w].stage = "expiring" /\ slot[w].key = k =>
    /\ counter[k].count > 0 /\ counter[k].lapses = Never /\ k \notin orphaned
    /\ slot[w].count = 1
    /\ \A v \in Slots : slot[v].stage = "expiring" /\ slot[v].key = k => v = w
    /\ counter[k].count + Cardinality(Counting(k)) <=
         Since(counted[k], slot[w].since - CommandLimit)

(* A counter with its expiry set.                                            *)
ClosedFair(k) ==
  counter[k].count > 0 /\ counter[k].lapses # Never =>
    /\ counter[k].lapses <= now + Window
    /\ counter[k].count + Cardinality(Counting(k)) <=
         Since(counted[k], counter[k].lapses - Window - 2 * CommandLimit)

RedisFair(k) == OrphanFair(k) /\ OpenFair(k) /\ ClosedFair(k)

(* A request that has its count and waits for redis.ttl.                      *)
ReadFair(w) ==
  slot[w].stage = "reading" =>
    \/ slot[w].key \in orphaned
    \/ slot[w].count <= Since(counted[slot[w].key], slot[w].since - Window - 2 * CommandLimit)

CountInv ==
  /\ Paced
  /\ \A k \in Keys : Awaited(k) /\ RedisFair(k)
  /\ \A g \in Gateways, k \in Keys : MemoryFair(g, k)
  /\ \A w \in Slots : ReadFair(w)

(* A step that lets no request in brings none nearer to being counted.         *)
Shrinks ==
  \A v \in Slots : Counts(v)' =>
    /\ Counts(v) /\ slot'[v].key = slot[v].key /\ Arrived(v)' <= Arrived(v)
    /\ slot'[v].stage = "counting" => slot[v].stage = "counting"

More == \A k \in Keys, t \in Int : Since(counted'[k], t) >= Since(counted[k], t)

LEMMA RecordNumbers ==
  ASSUME NEW r \in Busy
  PROVE  /\ r.since \in Int /\ r.count \in Nat /\ r.key \in Keys /\ r.site \in Gateways
         /\ Arrival(r) \in Int
<1>1. Times \subseteq Int /\ CommandLimit \in Nat
  BY RequestNumbers
<1>2. r.since \in Int /\ r.count \in Nat /\ r.key \in Keys /\ r.site \in Gateways
  BY <1>1 DEF Busy
<1> QED
  BY <1>1, <1>2 DEF Arrival

LEMMA KeysMore ==
  ASSUME LimitTypes, LimitTypes', More, NEW k \in Keys, NEW t \in Int
  PROVE  /\ Since(counted[k], t) \in Nat /\ Since(counted'[k], t) \in Nat
         /\ Since(counted'[k], t) >= Since(counted[k], t)
<1>1. counted[k] \in Seq(0..Horizon) /\ counted'[k] \in Seq(0..Horizon)
  BY DEF LimitTypes
<1> QED
  BY <1>1, CameNumbers DEF More

LEMMA SlotNumbers ==
  ASSUME LimitTypes, NEW w \in Slots, Counts(w)
  PROVE  /\ slot[w] # Idle /\ slot[w] \in Busy
         /\ slot[w].since \in Int /\ slot[w].count \in Nat
         /\ slot[w].key \in Keys /\ slot[w].site \in Gateways
         /\ Arrived(w) \in Int
<1>1. slot[w] # Idle
  BY NotIdle DEF Counts
<1>2. slot[w] \in Busy
  BY <1>1, BusySlot
<1> QED
  BY <1>1, <1>2, RecordNumbers DEF Arrived

LEMMA FewerPending ==
  ASSUME LimitTypes, LimitTypes', Shrinks, NEW k \in Keys
  PROVE  /\ Pending(k)' \subseteq Pending(k) /\ Counting(k)' \subseteq Counting(k)
         /\ \A t \in Int : PendingSince(k, t)' \subseteq PendingSince(k, t)
<1>1. \A v \in Slots : Counts(v) => Arrived(v) \in Int
  BY SlotNumbers
<1>2. ASSUME NEW v \in Slots, Counts(v)'
      PROVE  Arrived(v)' \in Int
  <2>1. slot'[v] \in Busy
    BY <1>2 DEF LimitTypes, Counts, Idle
  <2> QED
    BY <2>1, RecordNumbers DEF Arrived
<1>3. Pending(k)' \subseteq Pending(k)
  BY DEF Pending, Shrinks
<1>4. Counting(k)' \subseteq Counting(k)
  BY DEF Counting, Shrinks, Counts
<1>5. ASSUME NEW t \in Int
      PROVE  PendingSince(k, t)' \subseteq PendingSince(k, t)
  <2>1. SUFFICES ASSUME NEW v \in Pending(k)', Arrived(v)' >= t
                 PROVE  v \in Pending(k) /\ Arrived(v) >= t
    BY DEF PendingSince
  <2>2. v \in Slots /\ Counts(v)' /\ v \in Pending(k)
    BY <1>3, <2>1 DEF Pending
  <2>3. Counts(v) /\ Arrived(v)' <= Arrived(v)
    BY <2>2 DEF Shrinks
  <2> QED
    BY <1>1, <1>2, <2>1, <2>2, <2>3
<1> QED
  BY <1>3, <1>4, <1>5

LEMMA AwaitedKept ==
  ASSUME LimitTypes, LimitTypes', Shrinks, More, NEW k \in Keys, Awaited(k)
  PROVE  Awaited(k)'
<1> SUFFICES ASSUME NEW t \in Int
             PROVE  Cardinality(PendingSince(k, t)') <= Since(counted'[k], t)
  BY DEF Awaited
<1>1. PendingSince(k, t)' \subseteq PendingSince(k, t) /\ PendingSince(k, t) \subseteq Slots
  BY FewerPending DEF PendingSince, Pending
<1>2. /\ Cardinality(PendingSince(k, t)') \in Nat /\ Cardinality(PendingSince(k, t)) \in Nat
      /\ Cardinality(PendingSince(k, t)') <= Cardinality(PendingSince(k, t))
  BY <1>1, SomeSlots
<1>3. /\ Since(counted[k], t) \in Nat /\ Since(counted'[k], t) \in Nat
      /\ Since(counted'[k], t) >= Since(counted[k], t)
  BY KeysMore
<1> QED
  BY <1>2, <1>3 DEF Awaited

LEMMA PendingNumbers ==
  ASSUME LimitTypes, LimitTypes', Shrinks, NEW k \in Keys
  PROVE  /\ Cardinality(Pending(k)) \in Nat /\ Cardinality(Pending(k)') \in Nat
         /\ Cardinality(Pending(k)') <= Cardinality(Pending(k))
         /\ Cardinality(Counting(k)) \in Nat /\ Cardinality(Counting(k)') \in Nat
         /\ Cardinality(Counting(k)') <= Cardinality(Counting(k))
<1>1. /\ Pending(k)' \subseteq Pending(k) /\ Pending(k) \subseteq Slots
      /\ Counting(k)' \subseteq Counting(k) /\ Counting(k) \subseteq Slots
  BY FewerPending DEF Pending, Counting
<1> QED
  BY <1>1, SomeSlots

(* A request that has been counted waits no more.                              *)
LEMMA OneCounted ==
  ASSUME LimitTypes, LimitTypes', Shrinks, NEW w \in Slots, NEW k \in Keys, slot[w].key = k
  PROVE  /\ slot[w].stage = "counting" /\ slot'[w].stage # "counting" =>
              Cardinality(Counting(k)') + 1 <= Cardinality(Counting(k))
         /\ Counts(w) /\ ~Counts(w)' =>
              Cardinality(Pending(k)') + 1 <= Cardinality(Pending(k))
<1>1. /\ Pending(k)' \subseteq Pending(k) /\ Pending(k) \subseteq Slots
      /\ Counting(k)' \subseteq Counting(k) /\ Counting(k) \subseteq Slots
  BY FewerPending DEF Pending, Counting
<1>2. ASSUME slot[w].stage = "counting", slot'[w].stage # "counting"
      PROVE  Cardinality(Counting(k)') + 1 <= Cardinality(Counting(k))
  <2>1. w \in Counting(k) \ Counting(k)'
    BY <1>2 DEF Counting
  <2> QED
    BY <1>1, <2>1, SomeSlots
<1>3. ASSUME Counts(w), ~Counts(w)'
      PROVE  Cardinality(Pending(k)') + 1 <= Cardinality(Pending(k))
  <2>1. w \in Pending(k) \ Pending(k)'
    BY <1>3 DEF Pending
  <2> QED
    BY <1>1, <2>1, SomeSlots
<1> QED
  BY <1>2, <1>3

LEMMA MemoryKept ==
  ASSUME Typed, Typed', Shrinks, More, NEW g \in Gateways, NEW k \in Keys, MemoryFair(g, k),
         memory'[g][k] = memory[g][k], now <= now'
  PROVE  MemoryFair(g, k)'
<1> DEFINE c == memory[g][k]
           t == c.lapses - Window - 3 * CommandLimit
<1>1. SUFFICES ASSUME c.count > 0
               PROVE  /\ c.lapses <= now' + Window
                      /\ c.count + Cardinality(Pending(k)') <= Since(counted'[k], t)
  BY RequestNumbers DEF MemoryFair
<1>2. c.lapses \in Int /\ c.count \in Nat /\ now \in Int /\ now' \in Int
  BY RequestNumbers DEF Typed, SignTypes, LimitTypes, Counter
<1>3. t \in Int
  BY <1>2, RequestNumbers
<1>4. Since(counted[k], t) \in Nat /\ Since(counted'[k], t) \in Nat
      /\ Since(counted'[k], t) >= Since(counted[k], t)
  BY <1>3, KeysMore DEF Typed
<1>6. c.lapses <= now + Window /\ c.count + Cardinality(Pending(k)) <= Since(counted[k], t)
  BY <1>1 DEF MemoryFair
<1> HIDE DEF c, t
<1>7. c.lapses <= now' + Window
  BY <1>2, <1>6, RequestNumbers
<1> QED
  BY <1>2, <1>4, <1>6, <1>7, PendingNumbers DEF Typed

(* A step by which a counter gains no more than fewer requests wait to be      *)
(* counted, and by which it is orphaned only if its EXPIRE is off its way.      *)
LEMMA RedisKept ==
  ASSUME Typed, Typed', Shrinks, More, now <= now', NEW k \in Keys, RedisFair(k),
         counter'[k].lapses = counter[k].lapses,
         counter[k].count > 0 <=> counter'[k].count > 0,
         counter'[k].count + Cardinality(Counting(k)') <=
           counter[k].count + Cardinality(Counting(k)),
         k \in orphaned => k \in orphaned',
         k \in orphaned' => \/ k \in orphaned
                            \/ \E v \in Slots : /\ slot[v].stage = "expiring" /\ slot[v].key = k
                                                /\ slot'[v].stage # "expiring",
         \A v \in Slots : slot'[v].stage = "expiring" /\ slot'[v].key = k => slot'[v] = slot[v]
  PROVE  RedisFair(k)'
<1> DEFINE n == counter[k].count + Cardinality(Counting(k))
           m == counter'[k].count + Cardinality(Counting(k)')
<1>1. n \in Nat /\ m \in Nat /\ m <= n
  BY PendingNumbers DEF Typed, LimitTypes, Counter
<1>2. OrphanFair(k)'
  BY DEF RedisFair, OrphanFair, OpenFair
<1>3. ASSUME NEW w \in Slots, slot'[w].stage = "expiring", slot'[w].key = k
      PROVE  /\ counter'[k].count > 0 /\ counter'[k].lapses = Never /\ k \notin orphaned'
             /\ slot'[w].count = 1
             /\ \A v \in Slots : slot'[v].stage = "expiring" /\ slot'[v].key = k => v = w
             /\ m <= Since(counted'[k], slot'[w].since - CommandLimit)
  <2>1. slot'[w] = slot[w]
    BY <1>3
  <2>2. /\ counter[k].count > 0 /\ counter[k].lapses = Never /\ k \notin orphaned
        /\ slot[w].count = 1
        /\ \A v \in Slots : slot[v].stage = "expiring" /\ slot[v].key = k => v = w
        /\ n <= Since(counted[k], slot[w].since - CommandLimit)
    BY <1>3, <2>1 DEF RedisFair, OpenFair
  <2>3. slot[w].since - CommandLimit \in Int
    BY <1>3, <2>1, SlotNumbers, RequestNumbers DEF Typed, Counts
  <2>4. /\ Since(counted[k], slot[w].since - CommandLimit) \in Nat
        /\ Since(counted'[k], slot'[w].since - CommandLimit) \in Nat
        /\ Since(counted'[k], slot'[w].since - CommandLimit) >=
             Since(counted[k], slot[w].since - CommandLimit)
    BY <2>1, <2>3, KeysMore DEF Typed
  <2>5. k \notin orphaned'
    BY <1>3, <2>2
  <2>6. \A v \in Slots : slot'[v].stage = "expiring" /\ slot'[v].key = k => v = w
    BY <2>2
  <2> HIDE DEF m, n
  <2>7. m <= Since(counted'[k], slot'[w].since - CommandLimit)
    BY <1>1, <2>2, <2>4
  <2> QED
    BY <2>1, <2>2, <2>5, <2>6, <2>7
<1>4. OpenFair(k)'
  BY <1>3 DEF OpenFair
<1>5. ASSUME counter'[k].count > 0, counter'[k].lapses # Never
      PROVE  /\ counter'[k].lapses <= now' + Window
             /\ m <= Since(counted'[k], counter'[k].lapses - Window - 2 * CommandLimit)
  <2> DEFINE t == counter[k].lapses - Window - 2 * CommandLimit
  <2>1. counter[k].lapses <= now + Window /\ n <= Since(counted[k], t)
    BY <1>5 DEF RedisFair, ClosedFair
  <2>2. counter[k].lapses \in Int /\ now \in Int /\ now' \in Int
    BY RequestNumbers DEF Typed, SignTypes, LimitTypes, Counter
  <2>3. t \in Int
    BY <2>2, RequestNumbers
  <2>4. /\ Since(counted[k], t) \in Nat /\ Since(counted'[k], t) \in Nat
        /\ Since(counted'[k], t) >= Since(counted[k], t)
    BY <2>3, KeysMore DEF Typed
  <2>5. Since(counted'[k], counter'[k].lapses - Window - 2 * CommandLimit) = Since(counted'[k], t)
    OBVIOUS
  <2> HIDE DEF m, n, t
  <2>6. counter[k].lapses <= now' + Window
    BY <2>1, <2>2, RequestNumbers
  <2>7. m <= Since(counted'[k], t)
    BY <1>1, <2>1, <2>4
  <2> QED
    BY <2>5, <2>6, <2>7
<1>6. ClosedFair(k)'
  BY <1>5 DEF ClosedFair
<1> QED
  BY <1>2, <1>4, <1>6 DEF RedisFair

LEMMA ReadKept ==
  ASSUME Typed, Typed', More, NEW w \in Slots, ReadFair(w), slot'[w] = slot[w],
         slot[w].key \in orphaned => slot[w].key \in orphaned'
  PROVE  ReadFair(w)'
<1> DEFINE k == slot[w].key
           t == slot[w].since - Window - 2 * CommandLimit
<1>1. SUFFICES ASSUME slot[w].stage = "reading", slot[w].count <= Since(counted[k], t)
               PROVE  slot[w].count <= Since(counted'[k], t)
  BY DEF ReadFair
<1>2. k \in Keys /\ t \in Int /\ slot[w].count \in Nat
  BY <1>1, SlotNumbers, RequestNumbers DEF Typed, Counts
<1> HIDE DEF k, t
<1>3. /\ Since(counted[k], t) \in Nat /\ Since(counted'[k], t) \in Nat
      /\ Since(counted'[k], t) >= Since(counted[k], t)
  BY <1>2, KeysMore DEF Typed
<1> QED
  BY <1>1, <1>2, <1>3

LEMMA MoreKept ==
  ASSUME Typed, UNCHANGED counted
  PROVE  More
<1> SUFFICES ASSUME NEW k \in Keys, NEW t \in Int
             PROVE  Since(counted'[k], t) >= Since(counted[k], t)
  BY DEF More
<1>1. Since(counted[k], t) \in Nat /\ Since(counted'[k], t) = Since(counted[k], t)
  BY KeysCame DEF Typed
<1> QED
  BY <1>1

(* A step of one slot that counts no request anew.                            *)
LEMMA OneSlotShrinks ==
  ASSUME Typed, NEW w \in Slots, \A v \in Slots \ {w} : slot'[v] = slot[v],
         Counts(w)' => /\ Counts(w) /\ slot'[w].key = slot[w].key
                       /\ Arrived(w)' <= Arrived(w) /\ slot'[w].stage # "counting"
  PROVE  Shrinks
<1>1. ASSUME NEW v \in Slots \ {w}, Counts(v)'
      PROVE  /\ Counts(v) /\ slot'[v].key = slot[v].key /\ Arrived(v)' <= Arrived(v)
             /\ slot'[v].stage = "counting" => slot[v].stage = "counting"
  <2>1. slot'[v] = slot[v] /\ Counts(v)
    BY <1>1 DEF Counts
  <2>2. Arrived(v) \in Int /\ Arrived(v)' = Arrived(v)
    BY <2>1, SlotNumbers DEF Typed, Arrived, Arrival
  <2> QED
    BY <2>1, <2>2
<1> QED
  BY <1>1 DEF Shrinks

LEMMA PacedKept ==
  ASSUME Typed, Paced, NEW w \in Slots, \A v \in Slots \ {w} : slot'[v] = slot[v], now' = now,
         Counts(w)' => slot'[w].since = now
  PROVE  Paced'
<1>1. now \in Int /\ now <= now + CommandLimit
  BY RequestNumbers DEF Typed, SignTypes
<1> QED
  BY <1>1 DEF Paced, Counts

-----------------------------------------------------------------------------
(* The steps of the limiter.                                                  *)

(* Requests leave the limiter, and take their EXPIRE with them perhaps.         *)
LEMMA LeavingFair ==
  ASSUME Typed, Typed', CountInv, UNCHANGED <<now, counter, counted>>,
         \A v \in Slots : slot'[v] = slot[v] \/ ~Counts(v)',
         orphaned \subseteq orphaned',
         \A k \in orphaned' : \/ k \in orphaned
                              \/ \E v \in Slots : /\ slot[v].stage = "expiring" /\ slot[v].key = k
                                                  /\ slot'[v].stage # "expiring"
  PROVE  /\ Shrinks /\ More /\ Paced'
         /\ \A k \in Keys : Awaited(k)' /\ RedisFair(k)'
         /\ \A g \in Gateways, k \in Keys : memory'[g][k] = memory[g][k] => MemoryFair(g, k)'
         /\ \A w \in Slots : ReadFair(w)'
<1>1. Shrinks
  <2>1. ASSUME NEW v \in Slots, Counts(v)'
        PROVE  /\ Counts(v) /\ slot'[v].key = slot[v].key /\ Arrived(v)' <= Arrived(v)
               /\ slot'[v].stage = "counting" => slot[v].stage = "counting"
    <3>1. slot'[v] = slot[v] /\ Counts(v)
      BY <2>1 DEF Counts
    <3>2. Arrived(v) \in Int /\ Arrived(v)' = Arrived(v)
      BY <3>1, SlotNumbers DEF Typed, Arrived
    <3> QED
      BY <3>1, <3>2
  <2> QED
    BY <2>1 DEF Shrinks
<1>2. More
  BY MoreKept
<1>3. Paced'
  BY DEF CountInv, Paced, Counts
<1>4. now \in Int /\ now <= now'
  BY RequestNumbers DEF Typed, SignTypes
<1>5. ASSUME NEW k \in Keys
      PROVE  Awaited(k)' /\ RedisFair(k)'
  <2>1. Awaited(k)'
    BY <1>1, <1>2, AwaitedKept DEF Typed, CountInv
  <2>2. /\ counter'[k] = counter[k] /\ counter[k].count \in Nat
        /\ k \in orphaned => k \in orphaned'
        /\ \A v \in Slots : slot'[v].stage = "expiring" => slot'[v] = slot[v]
    BY DEF Typed, LimitTypes, Counter, Counts
  <2>3. counter'[k].count + Cardinality(Counting(k)') <= counter[k].count + Cardinality(Counting(k))
    BY <1>1, <2>2, PendingNumbers DEF Typed
  <2>4. RedisFair(k)'
    BY <1>1, <1>2, <1>4, <2>2, <2>3, RedisKept DEF CountInv
  <2> QED
    BY <2>1, <2>4
<1>6. ASSUME NEW g \in Gateways, NEW k \in Keys, memory'[g][k] = memory[g][k]
      PROVE  MemoryFair(g, k)'
  BY <1>1, <1>2, <1>4, <1>6, MemoryKept DEF CountInv
<1>7. ASSUME NEW w \in Slots
      PROVE  ReadFair(w)'
  <2>1. CASE slot'[w] = slot[w]
    BY <1>2, <2>1, ReadKept DEF CountInv
  <2>2. CASE ~Counts(w)'
    BY <2>2 DEF ReadFair, Counts
  <2> QED
    BY <2>1, <2>2
<1> QED
  BY <1>1, <1>2, <1>3, <1>5, <1>6, <1>7

LEMMA JudgedLeaves ==
  ASSUME LimitTypes, NEW w \in Slots, slot[w] # Idle, NEW count, Judged(w, count)
  PROVE  /\ slot'[w].stage = IF Within(count) THEN "forwarding" ELSE "refused"
         /\ ~Counts(w)'
<1>1. slot[w] \in Busy
  BY BusySlot
<1>2. slot' = [slot EXCEPT ![w] = [slot[w] EXCEPT
         !.stage = IF Within(count) THEN "forwarding" ELSE "refused", !.count = 0, !.since = 0]]
  BY DEF Judged
<1>3. slot'[w] = [slot[w] EXCEPT
         !.stage = IF Within(count) THEN "forwarding" ELSE "refused", !.count = 0, !.since = 0]
  BY <1>2 DEF LimitTypes
<1>4. slot'[w].stage = IF Within(count) THEN "forwarding" ELSE "refused"
  BY <1>1, <1>3 DEF Busy
<1> QED
  BY <1>4 DEF Counts

(* memoryConsume                                                             *)
LEMMA InMemoryFair ==
  ASSUME Typed, Typed', CountInv, Shrinks, More, now' = now, NEW w \in Slots, Counts(w), InMemory(w)
  PROVE  \A g \in Gateways, k \in Keys : MemoryFair(g, k)'
<1> SUFFICES ASSUME NEW g \in Gateways, NEW k \in Keys
             PROVE  MemoryFair(g, k)'
  OBVIOUS
<1> DEFINE h == slot[w].site
           j == slot[w].key
           c == memory[g][k]
<1>1. /\ slot[w] # Idle /\ h \in Gateways /\ j \in Keys /\ Arrived(w) \in Int
      /\ slot[w].since \in Int
  BY SlotNumbers DEF Typed
<1>2. /\ now \in Int /\ now <= now' /\ Window \in Nat /\ CommandLimit \in Nat
      /\ c.lapses \in Int /\ c.count \in Nat
  <2>1. now \in Int /\ c \in Counter
    BY DEF Typed, SignTypes, LimitTypes
  <2> QED
    BY <2>1, RequestNumbers DEF Counter
<1>3. memory' = [memory EXCEPT ![h] = [memory[h] EXCEPT ![j] =
          [count |-> Counted(memory[h][j]) + 1,
           lapses |-> IF Live(memory[h][j]) THEN memory[h][j].lapses ELSE now + Window]]]
  BY DEF InMemory
<1>4. CASE g # h \/ k # j
  <2>1. memory'[g][k] = c
    BY <1>1, <1>3, <1>4 DEF Typed, LimitTypes
  <2> QED
    BY <1>2, <2>1, MemoryKept DEF CountInv
<1>5. CASE g = h /\ k = j
  <2> DEFINE n == memory'[g][k]
  <2>1. n = [count |-> Counted(c) + 1, lapses |-> IF Live(c) THEN c.lapses ELSE now + Window]
    BY <1>1, <1>3, <1>5 DEF Typed, LimitTypes
  <2>2. Judged(w, Counted(c) + 1)
    BY <1>5 DEF InMemory
  <2>3. ~Counts(w)'
    BY <1>1, <2>2, JudgedLeaves DEF Typed
  <2>4. /\ Cardinality(Pending(k)) \in Nat /\ Cardinality(Pending(k)') \in Nat
        /\ Cardinality(Pending(k)') + 1 <= Cardinality(Pending(k))
    BY <1>5, <2>3, OneCounted, PendingNumbers DEF Typed
  <2>5. CASE Live(c)
    <3> DEFINE t == c.lapses - Window - 3 * CommandLimit
    <3>1. c.count > 0 /\ n.count = c.count + 1 /\ n.lapses = c.lapses
      BY <2>1, <2>5 DEF Live, Counted
    <3>2. c.lapses <= now + Window /\ c.count + Cardinality(Pending(k)) <= Since(counted[k], t)
      BY <3>1 DEF CountInv, MemoryFair
    <3>3. t \in Int
      BY <1>2
    <3>4. /\ Since(counted[k], t) \in Nat /\ Since(counted'[k], t) \in Nat
          /\ Since(counted'[k], t) >= Since(counted[k], t)
      BY <3>3, KeysMore DEF Typed
    <3>5. n.lapses <= now' + Window /\ n.lapses - Window - 3 * CommandLimit = t
      BY <3>1, <3>2
    <3> HIDE DEF c, t, n, j, h
    <3>6. n.count + Cardinality(Pending(k)') <= Since(counted'[k], t)
      BY <1>2, <2>4, <3>1, <3>2, <3>4
    <3>7. n.count + Cardinality(Pending(k)') <=
            Since(counted'[k], n.lapses - Window - 3 * CommandLimit)
      BY <3>5, <3>6
    <3> QED
      BY <3>5, <3>7 DEF MemoryFair, n
  <2>6. CASE ~Live(c)
    <3> DEFINE t == now - 3 * CommandLimit
    <3>1. n.count = 1 /\ n.lapses = now + Window
      BY <2>1, <2>6 DEF Counted
    <3>2. t \in Int /\ now + Window - Window - 3 * CommandLimit = t
      BY <1>2
    <3>3. Pending(k) \subseteq PendingSince(k, t)
      <4>1. SUFFICES ASSUME NEW v \in Pending(k)
                     PROVE  Arrived(v) >= t
        BY DEF PendingSince
      <4>2. Counts(v) /\ v \in Slots
        BY DEF Pending
      <4>3. slot[v].since \in Int /\ now <= slot[v].since + CommandLimit
        BY <4>2, SlotNumbers DEF Typed, CountInv, Paced
      <4> QED
        BY <1>2, <4>3 DEF Arrived, Arrival
    <3>4. PendingSince(k, t) \subseteq Slots
      BY DEF PendingSince, Pending
    <3>5. /\ Cardinality(PendingSince(k, t)) \in Nat
          /\ Cardinality(Pending(k)) <= Cardinality(PendingSince(k, t))
      BY <3>3, <3>4, SomeSlots
    <3>6. Cardinality(PendingSince(k, t)) <= Since(counted[k], t)
      BY <3>2 DEF CountInv, Awaited
    <3>7. /\ Since(counted[k], t) \in Nat /\ Since(counted'[k], t) \in Nat
          /\ Since(counted'[k], t) >= Since(counted[k], t)
      BY <3>2, KeysMore DEF Typed
    <3>8. n.lapses <= now' + Window /\ n.lapses - Window - 3 * CommandLimit = t
      BY <1>2, <3>1, <3>2
    <3> HIDE DEF c, t, n, j, h
    <3>9. n.count + Cardinality(Pending(k)') <= Since(counted'[k], t)
      BY <2>4, <3>1, <3>5, <3>6, <3>7
    <3>10. n.count + Cardinality(Pending(k)') <=
             Since(counted'[k], n.lapses - Window - 3 * CommandLimit)
      BY <3>8, <3>9
    <3> QED
      BY <3>8, <3>10 DEF MemoryFair, n
  <2> QED
    BY <2>5, <2>6
<1> QED
  BY <1>4, <1>5

(* redis.incr: the counters of the other keys, one that lives, and a new one    *)
(* without expiry.                                                            *)
LEMMA OtherCounters ==
  ASSUME Typed, Typed', CountInv, Shrinks, More, now' = now, NEW w \in Slots,
         \A v \in Slots \ {w} : slot'[v] = slot[v],
         slot'[w].stage = "expiring" => slot'[w].key = slot[w].key,
         NEW k \in Keys, k # slot[w].key, counter'[k] = counter[k],
         k \in orphaned' <=> k \in orphaned
  PROVE  RedisFair(k)'
<1>1. counter[k].count \in Nat /\ now <= now'
  BY RequestNumbers DEF Typed, SignTypes, LimitTypes, Counter
<1>2. counter'[k].count + Cardinality(Counting(k)') <= counter[k].count + Cardinality(Counting(k))
  BY <1>1, PendingNumbers DEF Typed
<1>3. \A v \in Slots : slot'[v].stage = "expiring" /\ slot'[v].key = k => slot'[v] = slot[v]
  OBVIOUS
<1> QED
  BY <1>1, <1>2, <1>3, RedisKept DEF CountInv

Incremented(k) ==
  counter'[k] = [count |-> Counted(counter[k]) + 1,
                 lapses |-> IF Live(counter[k]) THEN counter[k].lapses ELSE Never]

LEMMA LiveCounter ==
  ASSUME Typed, Typed', CountInv, Shrinks, More, now' = now, NEW w \in Slots,
         \A v \in Slots \ {w} : slot'[v] = slot[v],
         slot[w].stage = "counting", slot'[w].stage \notin {"counting", "expiring"},
         NEW k \in Keys, slot[w].key = k, Incremented(k), Live(counter[k]), orphaned' = orphaned
  PROVE  RedisFair(k)'
<1>1. now <= now' /\ counter[k].count \in Nat
  BY RequestNumbers DEF Typed, SignTypes, LimitTypes, Counter
<1>2. /\ counter[k].count > 0 /\ counter'[k].count = counter[k].count + 1
      /\ counter'[k].lapses = counter[k].lapses
  BY DEF Live, Counted, Incremented
<1>3. /\ Cardinality(Counting(k)) \in Nat /\ Cardinality(Counting(k)') \in Nat
      /\ Cardinality(Counting(k)') + 1 <= Cardinality(Counting(k))
  BY OneCounted, PendingNumbers DEF Typed
<1>4. counter'[k].count + Cardinality(Counting(k)') <= counter[k].count + Cardinality(Counting(k))
  BY <1>1, <1>2, <1>3
<1>5. \A v \in Slots : slot'[v].stage = "expiring" /\ slot'[v].key = k => slot'[v] = slot[v]
  OBVIOUS
<1>6. counter[k].count > 0 <=> counter'[k].count > 0
  BY <1>1, <1>2
<1> QED
  BY <1>1, <1>2, <1>4, <1>5, <1>6, RedisKept DEF CountInv

(* A counter without expiry is not a lapsed one.                              *)
LEMMA LapsedCounter ==
  ASSUME Typed, CountInv, NEW k \in Keys, ~Live(counter[k])
  PROVE  k \notin orphaned /\ \A v \in Slots : ~(slot[v].stage = "expiring" /\ slot[v].key = k)
<1>1. ~(counter[k].count > 0 /\ counter[k].lapses = Never)
  BY NeverLives
<1> QED
  BY <1>1 DEF CountInv, RedisFair, OrphanFair, OpenFair

LEMMA NewCounter ==
  ASSUME Typed, Typed', CountInv, Shrinks, More, now' = now, NEW w \in Slots,
         \A v \in Slots \ {w} : slot'[v] = slot[v], slot[w].stage = "counting",
         NEW k \in Keys, slot[w].key = k, Incremented(k), ~Live(counter[k]),
         \/ /\ slot'[w].stage = "expiring" /\ slot'[w].count = 1 /\ slot'[w].since = now
            /\ slot'[w].key = k /\ orphaned' = orphaned \ {k}
         \/ slot'[w].stage \notin {"counting", "expiring"} /\ orphaned' = orphaned \cup {k}
  PROVE  RedisFair(k)'
<1>1. counter'[k].count = 1 /\ counter'[k].lapses = Never
  BY DEF Incremented, Counted
<1>2. \A v \in Slots : slot'[v].stage = "expiring" /\ slot'[v].key = k => v = w
  BY LapsedCounter
<1>3. OrphanFair(k)'
  BY <1>1 DEF OrphanFair
<1>4. ClosedFair(k)'
  BY <1>1 DEF ClosedFair
<1>5. ASSUME slot'[w].stage = "expiring"
      PROVE  1 + Cardinality(Counting(k)') <= Since(counted'[k], slot'[w].since - CommandLimit)
  <2> DEFINE t == now - CommandLimit
  <2>1. t \in Int /\ CommandLimit \in Nat /\ now \in Int
    BY RequestNumbers DEF Typed, SignTypes
  <2>2. /\ Cardinality(Counting(k)) \in Nat /\ Cardinality(Counting(k)') \in Nat
        /\ Cardinality(Counting(k)') + 1 <= Cardinality(Counting(k))
    BY <1>5, OneCounted, PendingNumbers DEF Typed
  <2>3. Counting(k) \subseteq PendingSince(k, t)
    <3>1. SUFFICES ASSUME NEW v \in Counting(k)
                   PROVE  v \in Pending(k) /\ Arrived(v) >= t
      BY DEF PendingSince
    <3>2. v \in Slots /\ Counts(v) /\ slot[v].stage = "counting" /\ v \in Pending(k)
      BY DEF Counting, Pending, Counts
    <3>3. slot[v].since \in Int /\ now <= slot[v].since + CommandLimit
      BY <3>2, SlotNumbers DEF Typed, CountInv, Paced
    <3> QED
      BY <2>1, <3>2, <3>3 DEF Arrived, Arrival
  <2>4. PendingSince(k, t) \subseteq Slots
    BY DEF PendingSince, Pending
  <2>5. /\ Cardinality(PendingSince(k, t)) \in Nat
        /\ Cardinality(Counting(k)) <= Cardinality(PendingSince(k, t))
    BY <2>3, <2>4, SomeSlots
  <2>6. Cardinality(PendingSince(k, t)) <= Since(counted[k], t)
    BY <2>1 DEF CountInv, Awaited
  <2>7. /\ Since(counted[k], t) \in Nat /\ Since(counted'[k], t) \in Nat
        /\ Since(counted'[k], t) >= Since(counted[k], t)
    BY <2>1, KeysMore DEF Typed
  <2>8. slot'[w].since - CommandLimit = t
    BY <1>5
  <2> HIDE DEF t
  <2>9. 1 + Cardinality(Counting(k)') <= Since(counted'[k], t)
    BY <2>2, <2>5, <2>6, <2>7
  <2> QED
    BY <2>8, <2>9
<1>6. slot'[w].stage = "expiring" => k \notin orphaned' /\ slot'[w].count = 1
  OBVIOUS
<1>7. OpenFair(k)'
  <2> SUFFICES ASSUME NEW v \in Slots, slot'[v].stage = "expiring", slot'[v].key = k
               PROVE  /\ counter'[k].count > 0 /\ counter'[k].lapses = Never /\ k \notin orphaned'
                      /\ slot'[v].count = 1
                      /\ \A u \in Slots : slot'[u].stage = "expiring" /\ slot'[u].key = k => u = v
                      /\ counter'[k].count + Cardinality(Counting(k)') <=
                           Since(counted'[k], slot'[v].since - CommandLimit)
    BY DEF OpenFair
  <2>1. v = w
    BY <1>2
  <2> QED
    BY <1>1, <1>2, <1>5, <1>6, <2>1
<1> QED
  BY <1>3, <1>4, <1>7 DEF RedisFair

LEMMA IncrFair ==
  ASSUME Typed, Typed', CountInv, CounterLapses, NEW w \in Slots, Incr(w)
  PROVE  CountInv'
<1> DEFINE j == slot[w].key
           c == counter[j]
           n == Counted(c) + 1
           stage == IF Opens(n) THEN "expiring" ELSE "reading"
<1>1. /\ slot[w].stage = "counting" /\ Counts(w)
      /\ UNCHANGED <<now, memory, counted>>
      /\ orphaned' = IF Live(c) THEN orphaned ELSE orphaned \ {j}
  BY DEF Incr, Counts
<1>2. /\ slot[w] \in Busy /\ j \in Keys /\ slot[w].since \in Int
      /\ now \in Int /\ now <= now' /\ CommandLimit \in Nat /\ Window \in Nat
  BY <1>1, SlotNumbers, RequestNumbers DEF Typed, SignTypes
<1>3. c \in Counter /\ c.count \in Nat /\ c.lapses \in Int
  BY <1>2, RequestNumbers DEF Typed, LimitTypes, Counter
<1>4. slot' = [slot EXCEPT ![w] = [slot[w] EXCEPT !.count = n, !.since = now, !.stage = stage]]
  BY DEF Incr
<1>5. stage \in {"expiring", "reading"}
  OBVIOUS
<1>6. Incremented(j) /\ \A k \in Keys \ {j} : counter'[k] = counter[k]
  BY <1>2 DEF Incr, Incremented, Typed, LimitTypes
<1> HIDE DEF stage, n
<1>7. /\ slot'[w] = [slot[w] EXCEPT !.count = n, !.since = now, !.stage = stage]
      /\ \A v \in Slots \ {w} : slot'[v] = slot[v]
  BY <1>4 DEF Typed, LimitTypes
<1>8. /\ slot'[w].count = n /\ slot'[w].since = now /\ slot'[w].stage = stage
      /\ slot'[w].key = j
  BY <1>2, <1>7 DEF Busy
<1>9. slot[w].since <= now /\ now <= slot[w].since + CommandLimit
  BY <1>1 DEF CountInv, Paced
<1>10. Arrived(w)' <= Arrived(w)
  <2>1. Arrived(w) = slot[w].since
    BY <1>1 DEF Arrived, Arrival
  <2>2. Arrived(w)' = IF stage = "expiring" THEN now - CommandLimit ELSE now - 2 * CommandLimit
    BY <1>5, <1>8 DEF Arrived, Arrival
  <2> QED
    BY <1>2, <1>9, <2>1, <2>2
<1>11. Shrinks
  BY <1>1, <1>5, <1>7, <1>8, <1>10, OneSlotShrinks DEF Counts
<1>12. More
  BY <1>1, MoreKept
<1>13. Paced'
  BY <1>1, <1>7, <1>8, PacedKept DEF CountInv
<1>14. ASSUME NEW k \in Keys
       PROVE  Awaited(k)' /\ RedisFair(k)' /\ \A g \in Gateways : MemoryFair(g, k)'
  <2>1. Awaited(k)'
    BY <1>11, <1>12, AwaitedKept DEF Typed, CountInv
  <2>2. \A g \in Gateways : MemoryFair(g, k)'
    BY <1>1, <1>2, <1>11, <1>12, MemoryKept DEF CountInv
  <2>3. CASE k # j
    <3>1. k \in orphaned' <=> k \in orphaned
      BY <1>1, <2>3
    <3> QED
      BY <1>1, <1>6, <1>7, <1>8, <1>11, <1>12, <2>1, <2>2, <2>3, <3>1, OtherCounters
  <2>4. CASE k = j /\ Live(c)
    <3>1. n # 1
      BY <1>3, <2>4 DEF n, Counted, Live
    <3>2. slot'[w].stage = "reading"
      BY <1>8, <3>1 DEF stage, Opens
    <3>3. RedisFair(k)'
      BY <1>1, <1>6, <1>7, <1>11, <1>12, <2>4, <3>2, LiveCounter
    <3> QED
      BY <2>1, <2>2, <3>3
  <2>5. CASE k = j /\ ~Live(c)
    <3>1. n = 1
      BY <2>5 DEF n, Counted
    <3>2. slot'[w].stage = "expiring" /\ slot'[w].count = 1
      BY <1>8, <3>1 DEF stage, Opens
    <3>3. RedisFair(k)'
      BY <1>1, <1>6, <1>7, <1>8, <1>11, <1>12, <2>5, <3>2, NewCounter
    <3> QED
      BY <2>1, <2>2, <3>3
  <2> QED
    BY <2>3, <2>4, <2>5
<1>15. ASSUME NEW v \in Slots, v # w
       PROVE  ReadFair(v)'
  <2>1. slot[v].key \in orphaned => slot[v].key \in orphaned'
    BY <1>1, <1>2, LapsedCounter
  <2> QED
    BY <1>7, <1>12, <1>15, <2>1, ReadKept DEF CountInv
<1>16. ReadFair(w)'
  <2> DEFINE t == now - Window - 2 * CommandLimit
  <2>1. SUFFICES ASSUME stage = "reading"
                 PROVE  j \in orphaned' \/ n <= Since(counted'[j], t)
    BY <1>1, <1>8 DEF ReadFair
  <2>2. c.count > 0 /\ Live(c) /\ n = c.count + 1 /\ orphaned' = orphaned
    BY <1>1, <2>1 DEF stage, n, Opens, Counted, Live
  <2>3. Cardinality(Counting(j)) \in Nat /\ 1 <= Cardinality(Counting(j))
    <3>1. w \in Counting(j) /\ Counting(j) \subseteq Slots /\ {} \subseteq Counting(j)
      BY <1>1 DEF Counting
    <3>2. Cardinality({}) = 0
      BY FS_EmptySet
    <3> QED
      BY <3>1, <3>2, SomeSlots
  <2>4. t \in Int /\ Since(counted'[j], t) = Since(counted[j], t)
    BY <1>1, <1>2
  <2>5. CASE c.lapses = Never
    <3>1. j \in orphaned \/ \E v \in Slots : slot[v].stage = "expiring" /\ slot[v].key = j
      BY <1>2, <2>2, <2>5 DEF CounterLapses
    <3>2. SUFFICES ASSUME NEW v \in Slots, slot[v].stage = "expiring", slot[v].key = j
                   PROVE  n <= Since(counted[j], t)
      BY <2>2, <2>4, <3>1
    <3>3. /\ slot[v].since \in Int /\ now <= slot[v].since + CommandLimit
          /\ c.count + Cardinality(Counting(j)) <= Since(counted[j], slot[v].since - CommandLimit)
      BY <1>2, <3>2, SlotNumbers DEF Typed, CountInv, Paced, RedisFair, OpenFair, Counts
    <3>4. slot[v].since - CommandLimit \in Int /\ t <= slot[v].since - CommandLimit
      BY <1>2, <3>3
    <3>5. /\ Since(counted[j], t) \in Nat /\ Since(counted[j], slot[v].since - CommandLimit) \in Nat
          /\ Since(counted[j], slot[v].since - CommandLimit) <= Since(counted[j], t)
      BY <1>2, <2>4, <3>4, KeysCame DEF Typed
    <3> HIDE DEF t, c, j
    <3> QED
      BY <1>3, <2>2, <2>3, <3>3, <3>5
  <2>6. CASE c.lapses # Never
    <3> DEFINE s == c.lapses - Window - 2 * CommandLimit
    <3>1. c.count + Cardinality(Counting(j)) <= Since(counted[j], s)
      BY <1>2, <2>2, <2>6 DEF CountInv, RedisFair, ClosedFair
    <3>2. now < c.lapses
      BY <2>2 DEF Live
    <3>3. s \in Int /\ t <= s
      BY <1>2, <1>3, <3>2
    <3> HIDE DEF s
    <3>4. /\ Since(counted[j], t) \in Nat /\ Since(counted[j], s) \in Nat
          /\ Since(counted[j], s) <= Since(counted[j], t)
      BY <1>2, <2>4, <3>3, KeysCame DEF Typed
    <3> HIDE DEF t, c, j
    <3> QED
      BY <1>3, <2>2, <2>3, <2>4, <3>1, <3>4
  <2> QED
    BY <2>5, <2>6
<1> QED
  BY <1>13, <1>14, <1>15, <1>16 DEF CountInv

(* redis.expire: the counter closes.                                          *)
LEMMA ClosedCounter ==
  ASSUME Typed, Typed', CountInv, Shrinks, UNCHANGED <<now, orphaned, counted>>, NEW w \in Slots,
         \A v \in Slots \ {w} : slot'[v] = slot[v],
         slot[w].stage = "expiring", slot'[w].stage # "expiring",
         NEW k \in Keys, slot[w].key = k, Closes(k)
  PROVE  /\ RedisFair(k)' /\ slot[w].count = 1
         /\ 1 <= Since(counted[k], now - 2 * CommandLimit)
         /\ \A j \in Keys \ {k} : counter'[j] = counter[j]
<1> DEFINE t == now - 2 * CommandLimit
           s == slot[w].since - CommandLimit
<1>1. /\ counter[k].count > 0 /\ counter[k].lapses = Never /\ k \notin orphaned
      /\ slot[w].count = 1
      /\ \A v \in Slots : slot[v].stage = "expiring" /\ slot[v].key = k => v = w
      /\ counter[k].count + Cardinality(Counting(k)) <= Since(counted[k], s)
  BY DEF CountInv, RedisFair, OpenFair
<1>2. /\ slot[w].since \in Int /\ now <= slot[w].since + CommandLimit
      /\ now \in Int /\ CommandLimit \in Nat /\ Window \in Nat
  BY SlotNumbers, RequestNumbers DEF Typed, SignTypes, Counts, CountInv, Paced
<1>3. counter[k] \in Counter /\ counter[k].count \in Nat
  BY DEF Typed, LimitTypes, Counter
<1>4. Live(counter[k])
  BY <1>1, NeverLives
<1>5. counter' = [counter EXCEPT ![k] = [counter[k] EXCEPT !.lapses = now + Window]]
  BY <1>4 DEF Closes
<1>6. /\ counter'[k].count = counter[k].count /\ counter'[k].lapses = now + Window
      /\ \A j \in Keys \ {k} : counter'[j] = counter[j]
  BY <1>3, <1>5 DEF Typed, LimitTypes, Counter
<1>7. t \in Int /\ s \in Int /\ t <= s
  BY <1>2
<1>8. /\ Since(counted[k], t) \in Nat /\ Since(counted[k], s) \in Nat
      /\ Since(counted[k], s) <= Since(counted[k], t)
  BY <1>7, KeysCame DEF Typed
<1>9. /\ Cardinality(Counting(k)) \in Nat /\ Cardinality(Counting(k)') \in Nat
      /\ Cardinality(Counting(k)') <= Cardinality(Counting(k))
  BY PendingNumbers DEF Typed
<1>10. counted'[k] = counted[k] /\ now' = now
  OBVIOUS
<1>11. OrphanFair(k)' /\ OpenFair(k)'
  BY <1>1 DEF OrphanFair, OpenFair
<1>12. /\ counter'[k].lapses <= now' + Window
       /\ counter'[k].lapses - Window - 2 * CommandLimit = t
  BY <1>2, <1>6, <1>10
<1> HIDE DEF s, t
<1>13. counter'[k].count + Cardinality(Counting(k)') <= Since(counted'[k], t)
  BY <1>1, <1>3, <1>6, <1>8, <1>9, <1>10
<1>14. ClosedFair(k)'
  BY <1>12, <1>13 DEF ClosedFair
<1>15. 1 <= Since(counted[k], t)
  BY <1>1, <1>3, <1>8, <1>9
<1> USE DEF t
<1> QED
  BY <1>1, <1>6, <1>11, <1>14, <1>15 DEF RedisFair

LEMMA ExpireFair ==
  ASSUME Typed, Typed', CountInv, NEW w \in Slots, Expire(w)
  PROVE  CountInv'
<1> DEFINE j == slot[w].key
<1>1. /\ slot[w].stage = "expiring" /\ Counts(w) /\ Closes(j)
      /\ UNCHANGED <<now, orphaned, memory, counted>>
  BY DEF Expire, Counts
<1>2. /\ slot[w] \in Busy /\ j \in Keys /\ slot[w].since \in Int
      /\ now \in Int /\ now <= now' /\ CommandLimit \in Nat /\ Window \in Nat
  BY <1>1, SlotNumbers, RequestNumbers DEF Typed, SignTypes
<1>3. slot' = [slot EXCEPT ![w] = [slot[w] EXCEPT !.stage = "reading", !.since = now]]
  BY DEF Expire
<1>4. /\ slot'[w] = [slot[w] EXCEPT !.stage = "reading", !.since = now]
      /\ \A v \in Slots \ {w} : slot'[v] = slot[v]
  BY <1>3 DEF Typed, LimitTypes
<1>5. /\ slot'[w].stage = "reading" /\ slot'[w].since = now
      /\ slot'[w].key = j /\ slot'[w].count = slot[w].count
  BY <1>2, <1>4 DEF Busy
<1>6. Arrived(w)' <= Arrived(w)
  <2>1. Arrived(w) = slot[w].since - CommandLimit /\ Arrived(w)' = now - 2 * CommandLimit
    BY <1>1, <1>5 DEF Arrived, Arrival
  <2>2. now <= slot[w].since + CommandLimit
    BY <1>1 DEF CountInv, Paced
  <2> QED
    BY <1>2, <2>1, <2>2
<1>7. Shrinks
  BY <1>1, <1>4, <1>5, <1>6, OneSlotShrinks DEF Counts
<1>8. More
  BY <1>1, MoreKept
<1>9. Paced'
  BY <1>1, <1>4, <1>5, PacedKept DEF CountInv
<1>10. /\ slot[w].count = 1 /\ 1 <= Since(counted[j], now - 2 * CommandLimit)
       /\ \A k \in Keys \ {j} : counter'[k] = counter[k]
  BY <1>1, <1>2, <1>4, <1>5, <1>7, ClosedCounter
<1>11. ASSUME NEW k \in Keys
       PROVE  Awaited(k)' /\ RedisFair(k)' /\ \A g \in Gateways : MemoryFair(g, k)'
  <2>1. Awaited(k)' /\ \A g \in Gateways : MemoryFair(g, k)'
    BY <1>1, <1>2, <1>7, <1>8, AwaitedKept, MemoryKept DEF Typed, CountInv
  <2>2. CASE k # j
    BY <1>1, <1>4, <1>5, <1>7, <1>8, <1>10, <2>1, <2>2, OtherCounters
  <2>3. CASE k = j
    BY <1>1, <1>4, <1>5, <1>7, <2>1, <2>3, ClosedCounter
  <2> QED
    BY <2>2, <2>3
<1>12. ASSUME NEW v \in Slots, v # w
       PROVE  ReadFair(v)'
  BY <1>1, <1>4, <1>8, <1>12, ReadKept DEF CountInv
<1>13. ReadFair(w)'
  <2> DEFINE s == now - Window - 2 * CommandLimit
             t == now - 2 * CommandLimit
  <2>1. SUFFICES 1 <= Since(counted'[j], s)
    BY <1>5, <1>10 DEF ReadFair
  <2>2. s \in Int /\ t \in Int /\ s <= t
    BY <1>2
  <2>3. /\ Since(counted[j], s) \in Nat /\ Since(counted[j], t) \in Nat
        /\ Since(counted[j], t) <= Since(counted[j], s)
    BY <1>2, <2>2, KeysCame DEF Typed
  <2>4. counted' = counted /\ 1 <= Since(counted[j], t)
    BY <1>1, <1>10
  <2> HIDE DEF s, t, j
  <2> QED
    BY <2>3, <2>4
<1> QED
  BY <1>9, <1>11, <1>12, <1>13 DEF CountInv

LEMMA JudgedSteps ==
  ASSUME Typed, Typed', CountInv, NEW w \in Slots, Read(w) \/ CountInMemory(w) \/ Reply(w)
  PROVE  CountInv'
<1>1. /\ UNCHANGED <<now, counter, orphaned, counted>> /\ slot[w] # Idle
      /\ slot[w].stage # "expiring"
  BY NotIdle DEF Read, CountInMemory, Reply
<1>2. ~Counts(w)' /\ \A v \in Slots \ {w} : slot'[v] = slot[v]
  <2>1. CASE Reply(w)
    BY <2>1 DEF Reply, Typed, LimitTypes, Counts, Idle
  <2>2. CASE Read(w) \/ CountInMemory(w)
    BY <1>1, <2>2, JudgedLeaves, JudgedSlot DEF Read, CountInMemory, InMemory, Typed
  <2> QED
    BY <2>1, <2>2
<1>3. /\ Shrinks /\ More /\ Paced'
      /\ \A k \in Keys : Awaited(k)' /\ RedisFair(k)'
      /\ \A g \in Gateways, k \in Keys : memory'[g][k] = memory[g][k] => MemoryFair(g, k)'
      /\ \A v \in Slots : ReadFair(v)'
  BY <1>1, <1>2, LeavingFair
<1>4. \A g \in Gateways, k \in Keys : MemoryFair(g, k)'
  <2>1. CASE CountInMemory(w)
    BY <1>1, <1>3, <2>1, InMemoryFair DEF CountInMemory, Counts
  <2>2. CASE Read(w) \/ Reply(w)
    BY <1>3, <2>2 DEF Read, Reply
  <2> QED
    BY <2>1, <2>2
<1> QED
  BY <1>3, <1>4 DEF CountInv

LEMMA ProcessSteps ==
  ASSUME Typed, Typed', CountInv, NEW g \in Gateways, ConnectionLost(g) \/ GatewayRestarts(g)
  PROVE  CountInv'
<1>1. CASE ConnectionLost(g)
  <2>1. UNCHANGED <<now, slot, counter, orphaned, memory, counted>>
    BY <1>1 DEF ConnectionLost
  <2>2. /\ Paced'
        /\ \A k \in Keys : Awaited(k)' /\ RedisFair(k)'
        /\ \A h \in Gateways, k \in Keys : memory'[h][k] = memory[h][k] => MemoryFair(h, k)'
        /\ \A v \in Slots : ReadFair(v)'
    BY <2>1, LeavingFair
  <2> QED
    BY <2>1, <2>2 DEF CountInv
<1>2. CASE GatewayRestarts(g)
  <2>1. /\ UNCHANGED <<now, counter, counted>> /\ orphaned \subseteq orphaned'
        /\ \A w \in Slots : slot'[w] = IF slot[w] # Idle /\ slot[w].site = g THEN Idle ELSE slot[w]
    BY <1>2 DEF GatewayRestarts
  <2>2. \A v \in Slots : slot'[v] = slot[v] \/ ~Counts(v)'
    BY <2>1 DEF Counts, Idle
  <2>3. ASSUME NEW k \in orphaned', k \notin orphaned
        PROVE  \E v \in Slots : /\ slot[v].stage = "expiring" /\ slot[v].key = k
                                /\ slot'[v].stage # "expiring"
    <3>1. PICK v \in Slots : slot[v].stage = "expiring" /\ slot[v].site = g /\ slot[v].key = k
      BY <1>2, <2>3 DEF GatewayRestarts
    <3>2. slot'[v] = Idle
      BY <2>1, <3>1 DEF Idle
    <3> QED
      BY <3>1, <3>2 DEF Idle
  <2>4. /\ Paced'
        /\ \A k \in Keys : Awaited(k)' /\ RedisFair(k)'
        /\ \A h \in Gateways, k \in Keys : memory'[h][k] = memory[h][k] => MemoryFair(h, k)'
        /\ \A v \in Slots : ReadFair(v)'
    BY <2>1, <2>2, <2>3, LeavingFair
  <2>5. ASSUME NEW h \in Gateways, NEW k \in Keys
        PROVE  MemoryFair(h, k)'
    <3>1. memory' = [memory EXCEPT ![g] = NoCounters]
      BY <1>2 DEF GatewayRestarts
    <3>2. CASE h = g
      <4>1. memory'[h][k].count = 0
        BY <3>1, <3>2 DEF Typed, LimitTypes, NoCounters, NoCounter
      <4> QED
        BY <4>1 DEF MemoryFair
    <3>3. CASE h # g
      BY <2>4, <3>1, <3>3 DEF Typed, LimitTypes
    <3> QED
      BY <3>2, <3>3
  <2> QED
    BY <2>4, <2>5 DEF CountInv
<1> QED
  BY <1>1, <1>2

LEMMA FailureFair ==
  ASSUME Typed, Typed', CountInv, NEW w \in Slots, CommandFails(w)
  PROVE  CountInv'
<1> DEFINE j == slot[w].key
<1>1. Counts(w) /\ InMemory(w) /\ UNCHANGED <<now, counted>>
  BY DEF CommandFails
<1>2. slot[w] # Idle /\ j \in Keys
  BY <1>1, SlotNumbers DEF Typed
<1>3. ~Counts(w)' /\ \A v \in Slots \ {w} : slot'[v] = slot[v]
  BY <1>1, <1>2, JudgedLeaves, JudgedSlot DEF InMemory, Typed
<1>4. slot'[w].stage \notin {"counting", "expiring"}
  BY <1>3 DEF Counts
<1>5. CASE /\ UNCHANGED counter
           /\ orphaned' = IF slot[w].stage = "expiring" THEN orphaned \cup {j} ELSE orphaned
  <2>1. \A k \in orphaned' : \/ k \in orphaned
                             \/ \E v \in Slots : /\ slot[v].stage = "expiring" /\ slot[v].key = k
                                                 /\ slot'[v].stage # "expiring"
    BY <1>4, <1>5
  <2>2. /\ Shrinks /\ More /\ Paced'
        /\ \A k \in Keys : Awaited(k)' /\ RedisFair(k)'
        /\ \A v \in Slots : ReadFair(v)'
    BY <1>1, <1>3, <1>5, <2>1, LeavingFair
  <2>3. \A g \in Gateways, k \in Keys : MemoryFair(g, k)'
    BY <1>1, <2>2, InMemoryFair
  <2> QED
    BY <2>2, <2>3 DEF CountInv
<1>6. CASE /\ slot[w].stage = "counting"
           /\ counter' = [counter EXCEPT ![j] = [count |-> Counted(@) + 1,
                            lapses |-> IF Live(@) THEN @.lapses ELSE Never]]
           /\ orphaned' = IF Live(counter[j]) THEN orphaned ELSE orphaned \cup {j}
  <2>1. Incremented(j) /\ \A k \in Keys \ {j} : counter'[k] = counter[k]
    BY <1>2, <1>6 DEF Incremented, Typed, LimitTypes
  <2>2. Shrinks
    BY <1>3, OneSlotShrinks
  <2>3. More
    BY <1>1, MoreKept
  <2>4. Paced'
    BY <1>1, <1>3, PacedKept DEF CountInv
  <2>5. \A g \in Gateways, k \in Keys : MemoryFair(g, k)'
    BY <1>1, <2>2, <2>3, InMemoryFair
  <2>6. ASSUME NEW k \in Keys
        PROVE  Awaited(k)' /\ RedisFair(k)'
    <3>1. Awaited(k)'
      BY <2>2, <2>3, AwaitedKept DEF Typed, CountInv
    <3>2. CASE k # j
      <4>1. k \in orphaned' <=> k \in orphaned
        BY <1>6, <3>2
      <4> QED
        BY <1>1, <1>3, <1>4, <2>1, <2>2, <2>3, <3>1, <3>2, <4>1, OtherCounters
    <3>3. CASE k = j /\ Live(counter[j])
      BY <1>1, <1>3, <1>4, <1>6, <2>1, <2>2, <2>3, <3>1, <3>3, LiveCounter
    <3>4. CASE k = j /\ ~Live(counter[j])
      BY <1>1, <1>3, <1>4, <1>6, <2>1, <2>2, <2>3, <3>1, <3>4, NewCounter
    <3> QED
      BY <3>2, <3>3, <3>4
  <2>7. ASSUME NEW v \in Slots
        PROVE  ReadFair(v)'
    <3>1. CASE v = w
      BY <1>3, <3>1 DEF ReadFair, Counts
    <3>2. CASE v # w
      BY <1>3, <1>6, <2>3, <3>2, ReadKept DEF CountInv
    <3> QED
      BY <3>1, <3>2
  <2> QED
    BY <2>4, <2>5, <2>6, <2>7 DEF CountInv
<1>7. CASE slot[w].stage = "expiring" /\ Closes(j) /\ UNCHANGED orphaned
  <2>1. Shrinks
    BY <1>3, OneSlotShrinks
  <2>2. More
    BY <1>1, MoreKept
  <2>3. Paced'
    BY <1>1, <1>3, PacedKept DEF CountInv
  <2>4. \A g \in Gateways, k \in Keys : MemoryFair(g, k)'
    BY <1>1, <2>1, <2>2, InMemoryFair
  <2>5. ASSUME NEW k \in Keys
        PROVE  Awaited(k)' /\ RedisFair(k)'
    <3>1. Awaited(k)'
      BY <2>1, <2>2, AwaitedKept DEF Typed, CountInv
    <3>2. CASE k # j
      <4>1. counter'[k] = counter[k]
        BY <1>7, <3>2 DEF Closes, Typed, LimitTypes
      <4> QED
        BY <1>1, <1>3, <1>4, <1>7, <2>1, <2>2, <3>1, <3>2, <4>1, OtherCounters
    <3>3. CASE k = j
      BY <1>1, <1>3, <1>4, <1>7, <2>1, <3>1, <3>3, ClosedCounter
    <3> QED
      BY <3>2, <3>3
  <2>6. ASSUME NEW v \in Slots
        PROVE  ReadFair(v)'
    BY <1>3, <1>7, <2>2, ReadKept DEF CountInv, ReadFair, Counts
  <2> QED
    BY <2>3, <2>4, <2>5, <2>6 DEF CountInv
<1> QED
  BY <1>5, <1>6, <1>7 DEF CommandFails

(* A request comes in: one more has come, and one more is to be counted.        *)
LEMMA OccupiedSets ==
  ASSUME Typed, NEW w \in Slots, NEW g \in Gateways, NEW key \in Keys, Occupied(w, g, key)
  PROVE  /\ \A v \in Slots \ {w} : slot'[v] = slot[v]
         /\ slot[w] = Idle /\ slot'[w].stage = "counting" /\ slot'[w].since = now
         /\ slot'[w].key = key /\ ~Counts(w)
         /\ Pending(key)' = Pending(key) \cup {w} /\ Counting(key)' = Counting(key) \cup {w}
         /\ w \notin Pending(key) /\ w \notin Counting(key)
         /\ \A k \in Keys \ {key} : Pending(k)' = Pending(k) /\ Counting(k)' = Counting(k)
         /\ \A v \in Slots \ {w} : Arrived(v)' = Arrived(v)
         /\ Arrived(w)' = now
<1>1. slot' = [slot EXCEPT ![w] = [stage |-> "counting", site |-> g, key |-> key,
                                    count |-> 0, since |-> now]]
  BY DEF Occupied
<1>2. /\ \A v \in Slots \ {w} : slot'[v] = slot[v]
      /\ slot[w] = Idle /\ slot'[w].stage = "counting" /\ slot'[w].since = now
      /\ slot'[w].key = key
  BY <1>1 DEF Occupied, Typed, LimitTypes
<1>3. ~Counts(w) /\ slot[w].stage # "counting" /\ Counts(w)'
  BY <1>2 DEF Counts, Idle
<1>4. \A v \in Slots \ {w} : Counts(v)' = Counts(v)
  BY <1>2 DEF Counts
<1>5. Pending(key)' = Pending(key) \cup {w} /\ w \notin Pending(key)
  BY <1>2, <1>3, <1>4 DEF Pending
<1>6. Counting(key)' = Counting(key) \cup {w} /\ w \notin Counting(key)
  BY <1>2, <1>3 DEF Counting
<1>7. \A k \in Keys \ {key} : Pending(k)' = Pending(k) /\ Counting(k)' = Counting(k)
  BY <1>2, <1>3, <1>4 DEF Pending, Counting
<1>8. \A v \in Slots \ {w} : Arrived(v)' = Arrived(v)
  BY <1>2 DEF Arrived
<1>9. Arrived(w)' = now
  BY <1>2 DEF Arrived, Arrival
<1> QED
  BY <1>2, <1>3, <1>5, <1>6, <1>7, <1>8, <1>9

LEMMA OccupiedFair ==
  ASSUME Typed, Typed', CountInv, NEW w \in Slots, NEW g \in Gateways, NEW key \in Keys,
         Occupied(w, g, key), UNCHANGED <<now, counter, orphaned, memory>>
  PROVE  CountInv'
<1>1. /\ \A v \in Slots \ {w} : slot'[v] = slot[v]
      /\ slot[w] = Idle /\ slot'[w].stage = "counting" /\ slot'[w].since = now
      /\ slot'[w].key = key /\ ~Counts(w)
      /\ Pending(key)' = Pending(key) \cup {w} /\ Counting(key)' = Counting(key) \cup {w}
      /\ w \notin Pending(key) /\ w \notin Counting(key)
      /\ \A k \in Keys \ {key} : Pending(k)' = Pending(k) /\ Counting(k)' = Counting(k)
      /\ \A v \in Slots \ {w} : Arrived(v)' = Arrived(v)
      /\ Arrived(w)' = now
  BY OccupiedSets
<1>2. now \in Int /\ now' = now /\ CommandLimit \in Nat /\ Window \in Nat
  BY RequestNumbers DEF Typed, SignTypes
<1>3. /\ Cardinality(Pending(key)) \in Nat /\ Cardinality(Counting(key)) \in Nat
      /\ Cardinality(Pending(key)') = Cardinality(Pending(key)) + 1
      /\ Cardinality(Counting(key)') = Cardinality(Counting(key)) + 1
  <2>1. IsFiniteSet(Slots) /\ Pending(key) \subseteq Slots /\ Counting(key) \subseteq Slots
    BY RequestsAssumption DEF Pending, Counting
  <2>2. IsFiniteSet(Pending(key)) /\ IsFiniteSet(Counting(key))
    BY <2>1, FS_Subset
  <2>3. Cardinality(Pending(key)) \in Nat /\ Cardinality(Counting(key)) \in Nat
    BY <2>2, FS_CardinalityType
  <2>4. /\ Cardinality(Pending(key) \cup {w}) = Cardinality(Pending(key)) + 1
        /\ Cardinality(Counting(key) \cup {w}) = Cardinality(Counting(key)) + 1
    BY <1>1, <2>2, FS_AddElement
  <2> QED
    BY <1>1, <2>3, <2>4
<1>4. ASSUME NEW t \in Int
      PROVE  /\ Since(counted[key], t) \in Nat
             /\ t <= now => Since(counted'[key], t) = Since(counted[key], t) + 1
             /\ t > now => Since(counted'[key], t) = Since(counted[key], t)
  BY OneMoreCame, KeysCame DEF Typed
<1>5. \A k \in Keys \ {key} : counted'[k] = counted[k]
  BY DEF Occupied, Typed, LimitTypes
<1>6. Paced'
  BY <1>1, <1>2, PacedKept DEF CountInv
<1>7. ASSUME NEW k \in Keys
      PROVE  Awaited(k)'
  <2>1. SUFFICES ASSUME NEW t \in Int
                 PROVE  Cardinality(PendingSince(k, t)') <= Since(counted'[k], t)
    BY DEF Awaited
  <2>2. Cardinality(PendingSince(k, t)) <= Since(counted[k], t)
    BY DEF CountInv, Awaited
  <2>3. CASE k # key
    <3>1. PendingSince(k, t)' = PendingSince(k, t)
      <4>1. w \notin Pending(k) /\ Pending(k)' = Pending(k) /\ Pending(k) \subseteq Slots
        BY <1>1, <2>3 DEF Pending
      <4>2. \A v \in Pending(k) : Arrived(v)' = Arrived(v)
        BY <1>1, <4>1
      <4> QED
        BY <4>1, <4>2 DEF PendingSince
    <3> QED
      BY <1>5, <2>2, <2>3, <3>1
  <2>4. CASE k = key
    <3>1. /\ IsFiniteSet(PendingSince(k, t)) /\ w \notin PendingSince(k, t)
          /\ Cardinality(PendingSince(k, t)) \in Nat
      <4>1. IsFiniteSet(Slots) /\ PendingSince(k, t) \subseteq Slots
        BY RequestsAssumption DEF PendingSince, Pending
      <4>2. IsFiniteSet(PendingSince(k, t))
        BY <4>1, FS_Subset
      <4> QED
        BY <1>1, <2>4, <4>2, FS_CardinalityType DEF PendingSince
    <3>2. \A v \in Pending(k) : v # w /\ v \in Slots /\ Arrived(v)' = Arrived(v)
      BY <1>1, <2>4 DEF Pending
    <3>3. Pending(k)' = Pending(k) \cup {w}
      BY <1>1, <2>4
    <3>4. CASE t <= now
      <4>1. PendingSince(k, t)' = PendingSince(k, t) \cup {w}
        BY <1>1, <1>2, <3>2, <3>3, <3>4 DEF PendingSince
      <4>2. Cardinality(PendingSince(k, t)') = Cardinality(PendingSince(k, t)) + 1
        BY <3>1, <4>1, FS_AddElement
      <4> QED
        BY <1>4, <2>2, <2>4, <3>1, <3>4, <4>2
    <3>5. CASE t > now
      <4>1. ~(Arrived(w)' >= t)
        BY <1>1, <1>2, <3>5
      <4>2. PendingSince(k, t)' = PendingSince(k, t)
        BY <3>2, <3>3, <4>1 DEF PendingSince
      <4> QED
        BY <1>4, <2>2, <2>4, <3>1, <3>5, <4>2
    <3> QED
      BY <1>2, <3>4, <3>5
  <2> QED
    BY <2>3, <2>4
<1>8. ASSUME NEW h \in Gateways, NEW k \in Keys
      PROVE  MemoryFair(h, k)'
  <2> DEFINE c == memory[h][k]
             t == c.lapses - Window - 3 * CommandLimit
  <2>1. SUFFICES ASSUME c.count > 0
                 PROVE  /\ c.lapses <= now + Window
                        /\ c.count + Cardinality(Pending(k)') <= Since(counted'[k], t)
    BY <1>2 DEF MemoryFair
  <2>2. c.lapses <= now + Window /\ c.count + Cardinality(Pending(k)) <= Since(counted[k], t)
    BY <2>1 DEF CountInv, MemoryFair
  <2>3. CASE k # key
    BY <1>1, <1>5, <2>2, <2>3
  <2>4. CASE k = key
    <3>1. c.count \in Nat /\ c.lapses \in Int
      BY RequestNumbers DEF Typed, LimitTypes, Counter
    <3>2. t \in Int /\ t <= now
      BY <1>2, <2>2, <3>1
    <3> HIDE DEF c, t
    <3> QED
      BY <1>3, <1>4, <2>2, <2>4, <3>1, <3>2
  <2> QED
    BY <2>3, <2>4
<1>9. ASSUME NEW k \in Keys
      PROVE  RedisFair(k)'
  <2>1. RedisFair(k) /\ counter[k].count \in Nat /\ counter[k].lapses \in Int
    BY RequestNumbers DEF CountInv, Typed, LimitTypes, Counter
  <2>2. ASSUME NEW t \in Int, t <= now,
               counter[k].count + Cardinality(Counting(k)) <= Since(counted[k], t)
        PROVE  counter[k].count + Cardinality(Counting(k)') <= Since(counted'[k], t)
    <3>1. CASE k # key
      BY <1>1, <1>5, <2>2, <3>1
    <3>2. CASE k = key
      <4>1. /\ Since(counted[k], t) \in Nat
            /\ Since(counted'[k], t) = Since(counted[k], t) + 1
            /\ Cardinality(Counting(k)) \in Nat
            /\ Cardinality(Counting(k)') = Cardinality(Counting(k)) + 1
        BY <1>3, <1>4, <2>2, <3>2
      <4> QED
        BY <2>1, <2>2, <4>1
    <3> QED
      BY <3>1, <3>2
  <2>3. OrphanFair(k)'
    BY <2>1 DEF RedisFair, OrphanFair
  <2>4. ASSUME NEW v \in Slots, slot'[v].stage = "expiring", slot'[v].key = k
        PROVE  /\ counter'[k].count > 0 /\ counter'[k].lapses = Never /\ k \notin orphaned'
               /\ slot'[v].count = 1
               /\ \A u \in Slots : slot'[u].stage = "expiring" /\ slot'[u].key = k => u = v
               /\ counter'[k].count + Cardinality(Counting(k)') <=
                    Since(counted'[k], slot'[v].since - CommandLimit)
    <3>1. slot'[v] = slot[v] /\ v # w
      BY <1>1, <2>4
    <3>2. /\ counter[k].count > 0 /\ counter[k].lapses = Never /\ k \notin orphaned
          /\ slot[v].count = 1
          /\ \A u \in Slots : slot[u].stage = "expiring" /\ slot[u].key = k => u = v
          /\ counter[k].count + Cardinality(Counting(k)) <=
               Since(counted[k], slot[v].since - CommandLimit)
      BY <2>1, <2>4, <3>1 DEF RedisFair, OpenFair
    <3>3. slot[v].since \in Int /\ slot[v].since <= now
      BY <2>4, <3>1, SlotNumbers DEF Typed, Counts, CountInv, Paced
    <3>4. slot[v].since - CommandLimit \in Int /\ slot[v].since - CommandLimit <= now
      BY <1>2, <3>3
    <3>5. counter[k].count + Cardinality(Counting(k)') <=
            Since(counted'[k], slot[v].since - CommandLimit)
      BY <2>2, <3>2, <3>4
    <3>6. \A u \in Slots : slot'[u].stage = "expiring" /\ slot'[u].key = k => u = v
      BY <1>1, <3>2
    <3> QED
      BY <3>1, <3>2, <3>5, <3>6
  <2>5. OpenFair(k)'
    BY <2>4 DEF OpenFair
  <2>6. ASSUME counter[k].count > 0, counter[k].lapses # Never
        PROVE  /\ counter[k].lapses <= now + Window
               /\ counter[k].count + Cardinality(Counting(k)') <=
                    Since(counted'[k], counter[k].lapses - Window - 2 * CommandLimit)
    <3>1. /\ counter[k].lapses <= now + Window
          /\ counter[k].count + Cardinality(Counting(k)) <=
               Since(counted[k], counter[k].lapses - Window - 2 * CommandLimit)
      BY <2>1, <2>6 DEF RedisFair, ClosedFair
    <3>2. /\ counter[k].lapses - Window - 2 * CommandLimit \in Int
          /\ counter[k].lapses - Window - 2 * CommandLimit <= now
      BY <1>2, <2>1, <3>1
    <3> QED
      BY <2>2, <3>1, <3>2
  <2>7. ClosedFair(k)'
    BY <1>2, <2>6 DEF ClosedFair
  <2> QED
    BY <2>3, <2>5, <2>7 DEF RedisFair
<1>10. ASSUME NEW v \in Slots
       PROVE  ReadFair(v)'
  <2>1. CASE v = w
    BY <1>1, <2>1 DEF ReadFair
  <2>2. CASE v # w
    <3>1. More
      <4>1. SUFFICES ASSUME NEW k \in Keys, NEW t \in Int
                     PROVE  Since(counted'[k], t) >= Since(counted[k], t)
        BY DEF More
      <4>2. Since(counted[k], t) \in Nat
        BY KeysCame DEF Typed
      <4> QED
        BY <1>2, <1>4, <1>5, <4>2
    <3> QED
      BY <1>1, <2>2, <3>1, ReadKept DEF CountInv
  <2> QED
    BY <2>1, <2>2
<1> QED
  BY <1>6, <1>7, <1>8, <1>9, <1>10 DEF CountInv

LEMMA TickFair ==
  ASSUME Typed, Typed', CountInv, Tick
  PROVE  CountInv'
<1>1. now' = now + 1 /\ UNCHANGED <<slot, counter, orphaned, memory, counted>>
  BY DEF Tick, limitVars
<1>2. now \in Int /\ now <= now' /\ CommandLimit \in Nat
  BY <1>1, RequestNumbers DEF Typed, SignTypes
<1>3. Paced'
  <2>1. ASSUME NEW w \in Slots, Counts(w)
        PROVE  slot[w].since <= now + 1 /\ now + 1 <= slot[w].since + CommandLimit
    <3>1. slot[w].since \in Int /\ slot[w].since <= now /\ now - slot[w].since < CommandLimit
      BY <2>1, SlotNumbers DEF Typed, CountInv, Paced, Tick
    <3> QED
      BY <1>2, <3>1
  <2> QED
    BY <1>1, <2>1 DEF Paced, Counts
<1>4. Shrinks
  <2>1. \A v \in Slots : Counts(v) => Arrived(v) \in Int
    BY SlotNumbers DEF Typed
  <2>2. \A v \in Slots : (Counts(v)' => Counts(v)) /\ Arrived(v)' = Arrived(v)
    BY <1>1 DEF Counts, Arrived
  <2> QED
    BY <1>1, <2>1, <2>2 DEF Shrinks
<1>5. More
  BY <1>1, MoreKept
<1>6. ASSUME NEW k \in Keys
      PROVE  Awaited(k)' /\ RedisFair(k)' /\ \A g \in Gateways : MemoryFair(g, k)'
  <2>1. counter[k].count \in Nat
    BY DEF Typed, LimitTypes, Counter
  <2>2. counter'[k].count + Cardinality(Counting(k)') <= counter[k].count + Cardinality(Counting(k))
    BY <1>1, <1>4, <2>1, PendingNumbers DEF Typed
  <2>3. RedisFair(k)'
    BY <1>1, <1>2, <1>4, <1>5, <2>2, RedisKept DEF CountInv
  <2> QED
    BY <1>1, <1>2, <1>4, <1>5, <2>3, AwaitedKept, MemoryKept DEF Typed, CountInv
<1>7. \A v \in Slots : ReadFair(v)'
  BY <1>1, <1>5, ReadKept DEF CountInv
<1> QED
  BY <1>3, <1>6, <1>7 DEF CountInv

LEMMA CountInit == Init => CountInv
<1> SUFFICES ASSUME Init PROVE CountInv
  OBVIOUS
<1>1. \A w \in Slots : ~Counts(w) /\ slot[w].stage = "idle"
  BY DEF Init, Counts, Idle
<1>2. \A k \in Keys : counter[k].count = 0 /\ k \notin orphaned
  BY DEF Init, NoCounters, NoCounter
<1>3. \A g \in Gateways, k \in Keys : memory[g][k].count = 0
  BY DEF Init, NoCounters, NoCounter
<1>4. ASSUME NEW k \in Keys, NEW t \in Int
      PROVE  Cardinality(PendingSince(k, t)) <= Since(counted[k], t)
  <2>1. PendingSince(k, t) = {}
    BY <1>1 DEF PendingSince, Pending
  <2>2. counted[k] \in Seq(0..Horizon)
    BY DEF Init
  <2> QED
    BY <2>1, <2>2, CameNumbers, FS_EmptySet
<1> QED
  BY <1>1, <1>2, <1>3, <1>4
  DEF CountInv, Paced, Awaited, RedisFair, OrphanFair, OpenFair, ClosedFair, MemoryFair, ReadFair

LEMMA CountStep ==
  ASSUME Typed, Typed', CounterLapses, CountInv, [Next]_vars
  PROVE  CountInv'
<1>1. CASE UNCHANGED <<now, limitVars>>
  <2>1. UNCHANGED <<now, slot, counter, orphaned, memory, counted>>
    BY <1>1 DEF limitVars
  <2>2. /\ Paced'
        /\ \A k \in Keys : Awaited(k)' /\ RedisFair(k)'
        /\ \A h \in Gateways, k \in Keys : memory'[h][k] = memory[h][k] => MemoryFair(h, k)'
        /\ \A v \in Slots : ReadFair(v)'
    BY <2>1, LeavingFair
  <2> QED
    BY <2>1, <2>2 DEF CountInv
<1>2. ASSUME NEW w \in Slots, NEW g \in Gateways, NEW key \in Keys, Occupied(w, g, key),
             UNCHANGED <<now, counter, orphaned, memory>>
      PROVE  CountInv'
  BY <1>2, OccupiedFair
<1>3. ASSUME NEW w \in Slots, Incr(w)
      PROVE  CountInv'
  BY <1>3, IncrFair
<1>4. ASSUME NEW w \in Slots, Expire(w)
      PROVE  CountInv'
  BY <1>4, ExpireFair
<1>5. ASSUME NEW w \in Slots, Read(w) \/ CountInMemory(w) \/ Reply(w)
      PROVE  CountInv'
  BY <1>5, JudgedSteps
<1>6. ASSUME NEW w \in Slots, CommandFails(w)
      PROVE  CountInv'
  BY <1>6, FailureFair
<1>7. ASSUME NEW g \in Gateways, ConnectionLost(g) \/ GatewayRestarts(g)
      PROVE  CountInv'
  BY <1>7, ProcessSteps
<1>8. CASE Tick
  BY <1>8, TickFair
<1>9. CASE SignedStep
  <2>1. ASSUME NEW w \in Slots, NEW g \in Gateways, NEW m \in Messages, NEW op \in Operations,
               AcceptAtGateway(w, g, m, op, TRUE)
        PROVE  CountInv'
    <3>1. UNCHANGED <<now, counter, orphaned, memory>> /\ Occupied(w, g, ProductKey(op))
      BY <2>1 DEF AcceptAtGateway, LetIn
    <3> QED
      BY <1>2, <3>1, KeysOf
  <2> QED
    BY <1>1, <1>9, <2>1
    DEF SignedStep, Sign, RefuseReplay, RefuseSignature, AcceptAtCore, LetIn
<1>10. CASE LimiterStep
  <2>1. ASSUME NEW w \in Slots, NEW g \in Gateways, NEW op \in Operations, Call(w, g, op)
        PROVE  CountInv'
    BY <1>2, <2>1, KeysOf DEF Call
  <2> QED
    BY <1>3, <1>4, <1>5, <1>6, <1>7, <1>10, <2>1 DEF LimiterStep
<1> QED
  BY <1>1, <1>8, <1>9, <1>10 DEF Next, vars, limitVars

(* The verdict of a step on a request.                                        *)
Turned(w) == slot[w].stage # "refused" /\ slot'[w].stage = "refused"

Cause(w) ==
  CountedSince(slot[w].key, now - Memory) > Limit \/ slot[w].key \in orphaned

LEMMA ReadCause ==
  ASSUME Typed, CountInv, NEW w \in Slots, Read(w), Turned(w)
  PROVE  Cause(w)
<1> DEFINE k == slot[w].key
           n == slot[w].count
           s == slot[w].since - Window - 2 * CommandLimit
           t == now - Memory
<1>1. slot[w].stage = "reading" /\ Counts(w) /\ Judged(w, n)
  BY DEF Read, Counts
<1>2. /\ slot[w] # Idle /\ k \in Keys /\ n \in Nat /\ slot[w].since \in Int
      /\ now \in Int /\ CommandLimit \in Nat /\ Window \in Nat /\ Limit \in Nat
  BY <1>1, SlotNumbers, RequestNumbers DEF Typed, SignTypes
<1>3. n > Limit
  BY <1>1, <1>2, JudgedLeaves DEF Turned, Within, Typed
<1>4. k \in orphaned \/ n <= Since(counted[k], s)
  BY <1>1 DEF CountInv, ReadFair
<1>5. now <= slot[w].since + CommandLimit
  BY <1>1 DEF CountInv, Paced
<1>6. s \in Int /\ t \in Int /\ t <= s
  BY <1>2, <1>5 DEF Memory
<1>7. /\ Since(counted[k], s) \in Nat /\ Since(counted[k], t) \in Nat
      /\ Since(counted[k], s) <= Since(counted[k], t)
  BY <1>2, <1>6, KeysCame DEF Typed
<1>8. CountedSince(k, t) = Since(counted[k], t)
  BY DEF CountedSince, Since, Came
<1>9. k \in orphaned \/ CountedSince(k, t) > Limit
  <2> HIDE DEF s, t, n, k
  <2> QED
    BY <1>2, <1>3, <1>4, <1>7, <1>8
<1> QED
  BY <1>9 DEF Cause

LEMMA MemoryCause ==
  ASSUME Typed, CountInv, NEW w \in Slots, Counts(w), InMemory(w), Turned(w)
  PROVE  Cause(w)
<1> DEFINE k == slot[w].key
           c == memory[slot[w].site][k]
           t == now - Memory
<1>1. Judged(w, Counted(c) + 1)
  BY DEF InMemory
<1>2. /\ slot[w] # Idle /\ k \in Keys /\ slot[w].site \in Gateways /\ slot[w].since \in Int
      /\ now \in Int /\ CommandLimit \in Nat /\ Window \in Nat /\ Limit \in Nat
      /\ t = now - (Window + 3 * CommandLimit) /\ t \in Int
  BY SlotNumbers, RequestNumbers DEF Typed, SignTypes, Memory
<1>3. c \in Counter
  BY <1>2 DEF Typed, LimitTypes
<1>4. c.count \in Nat /\ c.lapses \in Int /\ Counted(c) \in Nat
  <2>1. Counted(c) \in Nat
    BY <1>3, CountedNat
  <2>2. c.count \in Nat /\ c.lapses \in Int
    BY <1>3, RequestNumbers DEF Counter
  <2> QED
    BY <2>1, <2>2
<1>5. Counted(c) + 1 > Limit
  BY <1>1, <1>2, <1>4, JudgedLeaves DEF Turned, Within, Typed
<1>6. now <= slot[w].since + CommandLimit
  BY DEF CountInv, Paced
<1>7. Since(counted[k], t) \in Nat
  BY <1>2, KeysCame DEF Typed
<1>8. CASE Live(c)
  <2> DEFINE s == c.lapses - Window - 3 * CommandLimit
  <2>1. c.count > 0 /\ now < c.lapses /\ Counted(c) = c.count
    BY <1>8 DEF Live, Counted
  <2>2. c.count + Cardinality(Pending(k)) <= Since(counted[k], s)
    BY <1>2, <2>1 DEF CountInv, MemoryFair
  <2>3. s \in Int /\ t <= s
    BY <1>2, <1>4, <2>1
  <2>4. Since(counted[k], s) \in Nat /\ Since(counted[k], s) <= Since(counted[k], t)
    BY <1>2, <2>3, KeysCame DEF Typed
  <2>5. Cardinality(Pending(k)) \in Nat /\ 1 <= Cardinality(Pending(k))
    <3>1. w \in Pending(k) \ {} /\ Pending(k) \subseteq Slots
      BY DEF Pending
    <3> QED
      BY <3>1, SomeSlots, FS_EmptySet
  <2>6. Since(counted[k], t) > Limit
    <3> HIDE DEF s, t, c, k
    <3> QED
      BY <1>2, <1>4, <1>5, <1>7, <2>1, <2>2, <2>4, <2>5
  <2> QED
    BY <2>6 DEF Cause, CountedSince, Since, Came
<1>9. CASE ~Live(c)
  <2>1. Limit = 0
    BY <1>2, <1>5, <1>9 DEF Counted
  <2>2. Arrived(w) >= t
    BY <1>2, <1>6 DEF Arrived, Arrival
  <2>3. w \in PendingSince(k, t) \ {} /\ PendingSince(k, t) \subseteq Slots
    BY <2>2 DEF PendingSince, Pending
  <2>4. Cardinality(PendingSince(k, t)) \in Nat /\ 1 <= Cardinality(PendingSince(k, t))
    BY <2>3, SomeSlots, FS_EmptySet
  <2>5. Cardinality(PendingSince(k, t)) <= Since(counted[k], t)
    BY <1>2 DEF CountInv, Awaited
  <2>6. Since(counted[k], t) > Limit
    <3> HIDE DEF t, c, k
    <3> QED
      BY <1>7, <2>1, <2>4, <2>5
  <2> QED
    BY <2>6 DEF Cause, CountedSince, Since, Came
<1> QED
  BY <1>8, <1>9

(* A step that judges no request, or another one, turns none away.             *)
LEMMA StepCause ==
  ASSUME Typed, CountInv, [Next]_vars, NEW v \in Slots, Turned(v)
  PROVE  Cause(v)
<1>1. slot' # slot /\ slot'[v] # slot[v]
  BY DEF Turned
<1>2. ASSUME NEW w \in Slots, NEW g \in Gateways, NEW key \in Keys, Occupied(w, g, key)
      PROVE  FALSE
  BY <1>1, <1>2, OccupiedSets DEF Turned
<1>3. ASSUME NEW w \in Slots, Incr(w) \/ Expire(w) \/ Reply(w)
      PROVE  FALSE
  <2>1. CASE v # w
    BY <1>1, <1>3, <2>1 DEF Incr, Expire, Reply, Typed, LimitTypes
  <2>2. CASE v = w
    <3>1. CASE Reply(w)
      BY <2>2, <3>1 DEF Reply, Turned, Idle, Typed, LimitTypes
    <3>2. CASE Expire(w)
      <4>1. slot[w] \in Busy
        BY <3>2, NotIdle, BusySlot DEF Expire, Typed
      <4>2. slot' = [slot EXCEPT ![w] = [slot[w] EXCEPT !.stage = "reading", !.since = now]]
        BY <3>2 DEF Expire
      <4> QED
        BY <2>2, <4>1, <4>2 DEF Turned, Busy, Typed, LimitTypes
    <3>3. CASE Incr(w)
      <4> DEFINE n == Counted(counter[slot[w].key]) + 1
                 stage == IF Opens(n) THEN "expiring" ELSE "reading"
      <4>1. slot[w] \in Busy
        BY <3>3, NotIdle, BusySlot DEF Incr, Typed
      <4>2. slot' = [slot EXCEPT ![w] = [slot[w] EXCEPT
                       !.count = n, !.since = now, !.stage = stage]]
        BY <3>3 DEF Incr
      <4>3. stage # "refused"
        OBVIOUS
      <4> HIDE DEF n, stage
      <4>4. slot'[w].stage = stage
        BY <4>1, <4>2 DEF Busy, Typed, LimitTypes
      <4> QED
        BY <2>2, <4>3, <4>4 DEF Turned
    <3> QED
      BY <1>3, <3>1, <3>2, <3>3
  <2> QED
    BY <2>1, <2>2
<1>4. ASSUME NEW w \in Slots, Read(w)
      PROVE  Cause(v)
  <2>1. v = w
    BY <1>1, <1>4, JudgedSlot DEF Read, Typed
  <2> QED
    BY <1>4, <2>1, ReadCause
<1>5. ASSUME NEW w \in Slots, CommandFails(w) \/ CountInMemory(w)
      PROVE  Cause(v)
  <2>1. Counts(w) /\ InMemory(w)
    BY <1>5 DEF CommandFails, CountInMemory, Counts
  <2>2. v = w
    BY <1>1, <2>1, JudgedSlot DEF InMemory, Typed
  <2> QED
    BY <2>1, <2>2, MemoryCause
<1>6. ASSUME NEW g \in Gateways, GatewayRestarts(g)
      PROVE  FALSE
  BY <1>1, <1>6 DEF GatewayRestarts, Turned, Idle
<1>7. ASSUME NEW w \in Slots, NEW g \in Gateways, NEW op \in Operations, Call(w, g, op)
      PROVE  FALSE
  BY <1>2, <1>7, KeysOf DEF Call
<1>8. ASSUME NEW w \in Slots, NEW g \in Gateways, NEW m \in Messages, NEW op \in Operations,
             AcceptAtGateway(w, g, m, op, TRUE)
      PROVE  FALSE
  BY <1>2, <1>8, KeysOf DEF AcceptAtGateway
<1> QED
  BY <1>1, <1>3, <1>4, <1>5, <1>6, <1>7, <1>8
  DEF Next, vars, SignedStep, LimiterStep, limitVars, Sign, RefuseReplay, RefuseSignature,
      AcceptAtCore, ConnectionLost, Tick

LEMMA CountAlways == Spec => [](Typed /\ CountInv)
BY CountInit, CountStep, RequestsAlways, PTL DEF Spec

(* RefusedForCause for any number of processes and requests, any limit, and     *)
(* commands that fail before or after they have taken effect: consume() turns  *)
(* a caller away only for more than Limit requests of his within the memory of *)
(* the limiter, or for a counter that Redis was left with.                     *)
THEOREM RefusedWithCause == Spec => RefusedForCause
<1> DEFINE Caused == \A w \in Slots : Turned(w) => Cause(w)
<1>1. Typed /\ CountInv /\ [Next]_vars => [Caused]_vars
  BY StepCause
<1>2. Caused => \A w \in Slots :
        slot[w].stage # "refused" /\ slot'[w].stage = "refused" =>
          \/ CountedSince(slot[w].key, now - Memory) > Limit
          \/ slot[w].key \in orphaned
  BY DEF Turned, Cause
<1> QED
  BY <1>1, <1>2, CountAlways, PTL DEF Spec, RefusedForCause
=============================================================================
