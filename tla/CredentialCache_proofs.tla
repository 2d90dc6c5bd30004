------------------------ MODULE CredentialCache_proofs ------------------------
(***************************************************************************)
(* CredentialCache for any number of products, gateways and credentials, any   *)
(* lifetime of the copies and any bound on a lookup.                          *)
(***************************************************************************)
EXTENDS CredentialCache, TLAPS

-----------------------------------------------------------------------------
(* Tenant administration: who holds the row lock has read what is in the row,   *)
(* and nothing has committed since.                                          *)
Tables ==
  /\ exists \subseteq Products
  /\ inactive \subseteq exists
  /\ row \in [Products -> SUBSET Edits]
  /\ made \in [Products -> SUBSET Edits]
  /\ replaced \in [Products -> SUBSET Edits]
  /\ \A p \in Products : replaced[p] \subseteq made[p] \cap InConfig
  /\ merging \subseteq Merge

LockHeld ==
  /\ \A mg \in merging : mg.read = row[mg.product] /\ mg.edit \notin made[mg.product]
  /\ \A m1, m2 \in merging : m1.product = m2.product => m1 = m2

TableInv == Tables /\ LockHeld /\ LostToWholeConfigOnly

(* A gateway: a lookup takes LookupLimit at most, and reads a row that is      *)
(* current when it begins; so a copy is stored no later than that after its    *)
(* row moved on.                                                             *)
CopyOf(g, pc) ==
  LET c == copies[g][pc] IN
    /\ c \in Copy \cup {NoCopy}
    /\ c # NoCopy => c.at <= now
    /\ c.since # Current => c.at <= c.since + LookupLimit
    /\ c.cause = "notice" => pc[1] \in notices[g]

InTime(l) ==
  /\ l.began <= now
  /\ now <= l.began + LookupLimit
  /\ l.since # Current => l.began <= l.since

Keeps(g) ==
  /\ copies[g] \in [Products \X Columns -> Copy \cup {NoCopy}]
  /\ \A pc \in Products \X Columns : CopyOf(g, pc)
  /\ lookups[g] \subseteq Lookup
  /\ \A l \in lookups[g] : InTime(l)
  /\ notices[g] \subseteq Products

GatewayInv ==
  /\ now \in Times
  /\ copies = [g \in Gateways |-> copies[g]]
  /\ lookups = [g \in Gateways |-> lookups[g]]
  /\ notices = [g \in Gateways |-> notices[g]]
  /\ listening \subseteq Gateways
  /\ \A g \in Gateways : Keeps(g)

-----------------------------------------------------------------------------
LEMMA Numbers ==
  /\ TTL \in Nat /\ LookupLimit \in Nat /\ Horizon \in Nat
  /\ Current \in Nat /\ Current \notin Times /\ Times \subseteq Nat
BY CacheAssumption DEF Current, Times

LEMMA CacheInit == Init => TableInv /\ GatewayInv
<1> SUFFICES ASSUME Init PROVE TableInv /\ GatewayInv
  OBVIOUS
<1>1. TableInv
  BY CacheAssumption DEF Init, TableInv, Tables, LockHeld, LostToWholeConfigOnly
<1>2. ASSUME NEW g \in Gateways
      PROVE  Keeps(g)
  BY Numbers DEF Init, Keeps, CopyOf, NoCopies, NoCopy
<1>3. now \in Times
  BY Numbers DEF Init, Times
<1> QED
  BY <1>1, <1>2, <1>3 DEF Init, GatewayInv

-----------------------------------------------------------------------------
(* The edits.                                                                *)

LEMMA TablesStep ==
  ASSUME TableInv, [Next]_vars
  PROVE  TableInv'
<1> USE DEF TableInv
<1>1. CASE UNCHANGED tableVars
  BY <1>1 DEF tableVars, Tables, LockHeld, LostToWholeConfigOnly
<1>2. ASSUME NEW p \in Products, CreateTenant(p)
      PROVE  TableInv'
  BY <1>2 DEF CreateTenant, Tables, LockHeld, LostToWholeConfigOnly
<1>3. ASSUME NEW p \in Products, Deactivate(p)
      PROVE  TableInv'
  BY <1>3 DEF Deactivate, Tables, LockHeld, LostToWholeConfigOnly
<1>4. ASSUME NEW p \in Products, NEW e \in TenantEdits, UpdateTenant(p, e)
      PROVE  TableInv'
  <2>1. \A mg \in merging : mg.product # p /\ mg.product \in Products
    BY <1>4 DEF UpdateTenant, Unlocked, Tables, Merge
  <2>2. /\ row' = [row EXCEPT ![p] = row[p] \cup {e}]
        /\ made' = [made EXCEPT ![p] = made[p] \cup {e}] /\ e \notin made[p]
        /\ UNCHANGED <<exists, inactive, merging, replaced>>
    BY <1>4 DEF UpdateTenant, Committed
  <2>3. Tables'
    BY <2>2 DEF Tables, Edits
  <2>4. LockHeld'
    BY <2>1, <2>2 DEF LockHeld, Tables
  <2>5. LostToWholeConfigOnly'
    BY <2>2 DEF LostToWholeConfigOnly, Tables
  <2> QED
    BY <2>3, <2>4, <2>5
<1>5. ASSUME NEW p \in Products, NEW e \in ConfigEdits, NEW kept, ReplaceConfig(p, e, kept)
      PROVE  TableInv'
  <2>1. \A mg \in merging : mg.product # p /\ mg.product \in Products
    BY <1>5 DEF ReplaceConfig, Unlocked, Tables, Merge
  <2>2. /\ row' = [row EXCEPT ![p] = (row[p] \cap TenantEdits) \cup kept \cup {e}]
        /\ made' = [made EXCEPT ![p] = made[p] \cup {e}] /\ e \notin made[p]
        /\ replaced' = [replaced EXCEPT ![p] = (made[p] \cap InConfig) \ kept]
        /\ kept \subseteq made[p] \cap InConfig
        /\ UNCHANGED <<exists, inactive, merging>>
    BY <1>5 DEF ReplaceConfig, Committed
  <2>3. InConfig \cap TenantEdits = {} /\ Edits = InConfig \cup TenantEdits /\ e \in InConfig
    BY CacheAssumption DEF InConfig, Edits
  <2>4. made[p] \subseteq Edits /\ row[p] = made[p] \ replaced[p] /\ replaced[p] \subseteq InConfig
    BY DEF Tables, LostToWholeConfigOnly
  <2>5. Tables'
    BY <2>2, <2>3, <2>4 DEF Tables
  <2>6. LockHeld'
    BY <2>1, <2>2 DEF LockHeld, Tables
  <2>7. LostToWholeConfigOnly'
    <3>1. (row[p] \cap TenantEdits) \cup kept \cup {e}
            = (made[p] \cup {e}) \ ((made[p] \cap InConfig) \ kept)
      BY <2>2, <2>3, <2>4
    <3>2. row'[p] = made'[p] \ replaced'[p]
      BY <2>2, <3>1 DEF Tables
    <3>3. ASSUME NEW q \in Products, q # p PROVE row'[q] = made'[q] \ replaced'[q]
      BY <2>2, <3>3 DEF LostToWholeConfigOnly, Tables
    <3> QED
      BY <3>2, <3>3 DEF LostToWholeConfigOnly
  <2> QED
    BY <2>5, <2>6, <2>7
<1>6. ASSUME NEW p \in Products, NEW e \in WidgetEdits, ReadConfig(p, e)
      PROVE  TableInv'
  <2> DEFINE m == [product |-> p, edit |-> e, read |-> row[p]]
  <2>1. m \in Merge /\ m.product = p /\ m.edit = e /\ m.read = row[p]
    BY DEF Merge, Tables
  <2>2. \A mg \in merging : mg.product # p
    BY <1>6 DEF ReadConfig, MayRead, Unlocked
  <2>3. /\ merging' = merging \cup {m} /\ e \notin made[p]
        /\ UNCHANGED <<exists, inactive, row, made, replaced>>
    BY <1>6 DEF ReadConfig
  <2> HIDE DEF m
  <2> QED
    BY <2>1, <2>2, <2>3 DEF Tables, LockHeld, LostToWholeConfigOnly
<1>7. ASSUME NEW mg \in merging, WriteConfig(mg)
      PROVE  TableInv'
  <2> DEFINE p == mg.product
             e == mg.edit
  <2>1. /\ p \in Products /\ e \in WidgetEdits /\ mg.read = row[p] /\ e \notin made[p]
        /\ \A m \in merging \ {mg} : m.product # p /\ m.product \in Products
    BY DEF Tables, Merge, LockHeld
  <2>2. (row[p] \cap TenantEdits) \cup (mg.read \cap InConfig) \cup {e} = row[p] \cup {e}
    BY <2>1 DEF Tables, Edits
  <2>3. /\ row' = [row EXCEPT ![p] = row[p] \cup {e}]
        /\ made' = [made EXCEPT ![p] = made[p] \cup {e}]
        /\ merging' = merging \ {mg} /\ UNCHANGED <<exists, inactive, replaced>>
    BY <1>7, <2>2 DEF WriteConfig, Committed
  <2> HIDE DEF p, e
  <2>4. Tables'
    BY <2>1, <2>3 DEF Tables, Edits, InConfig
  <2>5. LockHeld'
    <3>1. \A m \in merging' : m \in merging /\ m.product # p /\ m.product \in Products
      BY <2>1, <2>3
    <3>2. \A q \in Products : q # p => row'[q] = row[q] /\ made'[q] = made[q]
      BY <2>3 DEF Tables
    <3> QED
      BY <3>1, <3>2 DEF LockHeld
  <2>6. LostToWholeConfigOnly'
    BY <2>1, <2>3 DEF LostToWholeConfigOnly, Tables
  <2> QED
    BY <2>4, <2>5, <2>6
<1>8. ASSUME NEW mg \in merging, MergeFails(mg)
      PROVE  TableInv'
  BY <1>8 DEF MergeFails, Tables, LockHeld, LostToWholeConfigOnly
<1> QED
  BY <1>1, <1>2, <1>3, <1>4, <1>5, <1>6, <1>7, <1>8
  DEF Next, vars, TenantStep, GatewayStep, StartLookup, FinishLookup, LookupFails, HearNotice,
      ListenerDrops, ListenerReconnects, GatewayRestarts, Tick, tableVars

-----------------------------------------------------------------------------
(* The copies.                                                               *)

(* An edit marks the copies and lookups of its product as superseded, and is   *)
(* announced to whoever listens.                                             *)
LEMMA KeptByEdit ==
  ASSUME GatewayInv, NEW p \in Products, MovesOn(p), NotifyProductChanged(p),
         now' = now, listening' = listening
  PROVE  GatewayInv'
<1> USE Numbers
<1>1. ASSUME NEW g \in Gateways
      PROVE  Keeps(g)'
  <2>1. Keeps(g) /\ now \in Times
    BY DEF GatewayInv
  <2>2. notices'[g] = IF g \in listening THEN notices[g] \cup {p} ELSE notices[g]
    BY DEF NotifyProductChanged
  <2>3. ASSUME NEW pc \in Products \X Columns
        PROVE  CopyOf(g, pc)'
    <3> DEFINE c == copies[g][pc]
    <3>1. copies'[g][pc] = Superseded(g, p, pc)
      BY DEF MovesOn
    <3>2. CopyOf(g, pc)
      BY <2>1 DEF Keeps
    <3>3. CASE pc[1] = p /\ c # NoCopy /\ c.since = Current
      <4>1. copies'[g][pc] = [c EXCEPT !.since = now,
                               !.cause = IF g \in listening THEN "notice" ELSE "missed"]
        BY <3>1, <3>3 DEF Superseded
      <4>2. c \in Copy /\ c.at <= now
        BY <3>2, <3>3 DEF CopyOf
      <4>3. /\ copies'[g][pc] \in Copy /\ copies'[g][pc].at = c.at /\ copies'[g][pc].since = now
            /\ copies'[g][pc].cause = IF g \in listening THEN "notice" ELSE "missed"
        <5>1. now \in 0..Current
          BY <2>1 DEF Current, Times
        <5>2. (IF g \in listening THEN "notice" ELSE "missed") \in Causes
          BY DEF Causes
        <5> QED
          BY <4>1, <4>2, <5>1, <5>2 DEF Copy
      <4> QED
        BY <2>1, <2>2, <3>3, <4>2, <4>3 DEF CopyOf, Copy, Times
    <3>4. CASE ~(pc[1] = p /\ c # NoCopy /\ c.since = Current)
      <4>1. copies'[g][pc] = c
        BY <3>1, <3>4 DEF Superseded
      <4> QED
        BY <2>2, <3>2, <4>1 DEF CopyOf
    <3> QED
      BY <3>3, <3>4
  <2>4. ASSUME NEW l \in lookups'[g]
        PROVE  l \in Lookup /\ InTime(l)'
    <3>1. PICK k \in lookups[g] : l = Stamped(k, p)
      BY DEF MovesOn
    <3>2. k \in Lookup /\ InTime(k)
      BY <2>1 DEF Keeps
    <3>3. CASE k.product = p /\ k.since = Current
      <4>1. l = [k EXCEPT !.since = now]
        BY <3>1, <3>3 DEF Stamped
      <4> QED
        BY <2>1, <3>2, <4>1 DEF Lookup, InTime, Times, Current
    <3>4. CASE ~(k.product = p /\ k.since = Current)
      BY <3>1, <3>2, <3>4 DEF Stamped, InTime
    <3> QED
      BY <3>3, <3>4
  <2>5. copies'[g] \in [Products \X Columns -> Copy \cup {NoCopy}]
    <3>1. copies'[g] = [pc \in Products \X Columns |-> Superseded(g, p, pc)]
      BY DEF MovesOn
    <3>2. \A pc \in Products \X Columns : copies'[g][pc] \in Copy \cup {NoCopy}
      BY <2>3 DEF CopyOf
    <3> QED
      BY <3>1, <3>2
  <2> QED
    BY <2>1, <2>2, <2>3, <2>4, <2>5 DEF Keeps
<1> QED
  BY <1>1 DEF GatewayInv, MovesOn, NotifyProductChanged

(* A gateway that drops, fetches or stores a copy leaves the others alone.     *)
LEMMA KeptByGateway ==
  ASSUME GatewayInv, NEW g \in Gateways, Keeps(g)', now' = now, listening' \subseteq Gateways,
         copies' = [copies EXCEPT ![g] = copies'[g]],
         lookups' = [lookups EXCEPT ![g] = lookups'[g]],
         notices' = [notices EXCEPT ![g] = notices'[g]]
  PROVE  GatewayInv'
<1>1. ASSUME NEW h \in Gateways, h # g
      PROVE  Keeps(h)'
  BY <1>1 DEF GatewayInv, Keeps, CopyOf, InTime
<1> QED
  BY <1>1 DEF GatewayInv

LEMMA FreshLookup ==
  ASSUME now \in Times, NEW p \in Products, NEW col \in Columns
  PROVE  LET l == [product |-> p, column |-> col, began |-> now, since |-> Current]
         IN  l \in Lookup /\ InTime(l)
BY Numbers DEF Lookup, InTime, Times, Current

LEMMA GatewaysStep ==
  ASSUME TableInv, GatewayInv, [Next]_vars
  PROVE  GatewayInv'
<1> USE Numbers
<1>0. now \in Times /\ \A g \in Gateways : Keeps(g)
  BY DEF GatewayInv
<1>1. CASE UNCHANGED <<now, gatewayVars>>
  BY <1>1 DEF gatewayVars, GatewayInv, Keeps, CopyOf, InTime
<1>2. CASE TenantStep
  <2>1. ASSUME NEW p \in Products, MovesOn(p), NotifyProductChanged(p),
               now' = now, listening' = listening
        PROVE  GatewayInv'
    BY <2>1, KeptByEdit
  <2>2. \A mg \in merging : mg.product \in Products
    BY DEF TableInv, Tables, Merge
  <2> QED
    BY <1>1, <1>2, <2>1, <2>2
    DEF TenantStep, CreateTenant, Deactivate, UpdateTenant, ReplaceConfig, ReadConfig, WriteConfig,
        MergeFails
<1>3. ASSUME NEW g \in Gateways, NEW p \in Products, NEW col \in Columns, StartLookup(g, p, col)
      PROVE  GatewayInv'
  <2> DEFINE l == [product |-> p, column |-> col, began |-> now, since |-> Current]
  <2>1. l \in Lookup /\ InTime(l)
    BY <1>0, FreshLookup
  <2> HIDE DEF l
  <2>2. /\ copies' = [copies EXCEPT ![g] = [copies[g] EXCEPT ![<<p, col>>] = NoCopy]]
        /\ lookups' = [lookups EXCEPT ![g] = lookups[g] \cup {l}]
        /\ UNCHANGED <<now, listening, notices>>
    BY <1>3 DEF StartLookup, l
  <2>3. /\ copies'[g] = [copies[g] EXCEPT ![<<p, col>>] = NoCopy]
        /\ lookups'[g] = lookups[g] \cup {l}
    BY <2>2 DEF GatewayInv
  <2>4. Keeps(g)'
    <3>1. \A pc \in Products \X Columns : CopyOf(g, pc)'
      BY <1>0, <2>2, <2>3 DEF Keeps, CopyOf, NoCopy
    <3>2. copies'[g] \in [Products \X Columns -> Copy \cup {NoCopy}]
      BY <1>0, <2>3 DEF Keeps
    <3>3. lookups'[g] \subseteq Lookup /\ \A k \in lookups'[g] : InTime(k)'
      BY <1>0, <2>1, <2>2, <2>3 DEF Keeps, InTime
    <3> QED
      BY <1>0, <2>2, <3>1, <3>2, <3>3 DEF Keeps
  <2> QED
    BY <2>2, <2>3, <2>4, KeptByGateway DEF GatewayInv
<1>4. ASSUME NEW g \in Gateways, NEW l \in lookups[g], FinishLookup(g, l)
      PROVE  GatewayInv'
  <2> DEFINE c == [at |-> now, since |-> l.since,
                   cause |-> IF l.since = Current THEN "none" ELSE "raced"]
             key == <<l.product, l.column>>
  <2>1. l \in Lookup /\ InTime(l)
    BY <1>0 DEF Keeps
  <2>2. key \in Products \X Columns
    BY <2>1 DEF Lookup
  <2>3. /\ c \in Copy /\ c.at = now /\ c.cause # "notice"
        /\ c.since # Current => now <= c.since + LookupLimit
    BY <1>0, <2>1 DEF Copy, Causes, Lookup, InTime, Times, Current
  <2>4. /\ copies' = [copies EXCEPT ![g] = [copies[g] EXCEPT ![key] = c]]
        /\ lookups' = [lookups EXCEPT ![g] = lookups[g] \ {l}]
        /\ UNCHANGED <<now, listening, notices>>
    BY <1>4 DEF FinishLookup
  <2> HIDE DEF c, key
  <2>5. copies'[g] = [copies[g] EXCEPT ![key] = c] /\ lookups'[g] = lookups[g] \ {l}
    BY <2>4 DEF GatewayInv
  <2>6. Keeps(g)'
    <3>1. \A pc \in Products \X Columns : CopyOf(g, pc)'
      <4>1. copies'[g][key] = c
        BY <1>0, <2>2, <2>5 DEF Keeps
      <4>2. CopyOf(g, key)'
        BY <1>0, <2>3, <2>4, <4>1 DEF CopyOf, Times
      <4>3. ASSUME NEW pc \in (Products \X Columns) \ {key} PROVE CopyOf(g, pc)'
        <5>1. copies'[g][pc] = copies[g][pc]
          BY <1>0, <2>5, <4>3 DEF Keeps
        <5> QED
          BY <1>0, <2>4, <5>1 DEF Keeps, CopyOf
      <4> QED
        BY <4>2, <4>3
    <3>2. copies'[g] \in [Products \X Columns -> Copy \cup {NoCopy}]
      <4>1. copies[g] \in [Products \X Columns -> Copy \cup {NoCopy}]
        BY <1>0 DEF Keeps
      <4> QED
        BY <2>3, <2>5, <4>1
    <3>3. lookups'[g] \subseteq Lookup /\ \A k \in lookups'[g] : InTime(k)'
      BY <1>0, <2>4, <2>5 DEF Keeps, InTime
    <3> QED
      BY <1>0, <2>4, <3>1, <3>2, <3>3 DEF Keeps
  <2> QED
    BY <2>4, <2>5, <2>6, KeptByGateway DEF GatewayInv
<1>5. ASSUME NEW g \in Gateways, NEW l \in lookups[g], LookupFails(g, l)
      PROVE  GatewayInv'
  <2>1. /\ lookups' = [lookups EXCEPT ![g] = lookups[g] \ {l}] /\ lookups'[g] = lookups[g] \ {l}
        /\ UNCHANGED <<now, listening, notices, copies>>
    BY <1>5 DEF LookupFails, GatewayInv
  <2>2. Keeps(g)'
    BY <1>0, <2>1 DEF Keeps, CopyOf, InTime
  <2> QED
    BY <2>1, <2>2, KeptByGateway DEF GatewayInv
<1>6. ASSUME NEW g \in Gateways, copies' = [copies EXCEPT ![g] = NoCopies],
             lookups' = [lookups EXCEPT ![g] = lookups'[g]], lookups'[g] \subseteq lookups[g],
             notices' = [notices EXCEPT ![g] = notices'[g]], notices'[g] \subseteq Products,
             now' = now, listening' \subseteq Gateways
      PROVE  GatewayInv'
  <2>1. copies'[g] = NoCopies
    BY <1>6 DEF GatewayInv
  <2>2. \A pc \in Products \X Columns : CopyOf(g, pc)'
    BY <2>1 DEF CopyOf, NoCopies, NoCopy
  <2>3. Keeps(g)'
    BY <1>0, <1>6, <2>1, <2>2 DEF Keeps, InTime, NoCopies
  <2> QED
    BY <1>6, <2>1, <2>3, KeptByGateway
<1>7. ASSUME NEW g \in Gateways, NEW p \in Products, HearNotice(g, p)
      PROVE  GatewayInv'
  <2>1. notices'[g] \subseteq Products /\ notices' = [notices EXCEPT ![g] = notices'[g]]
    BY <1>0, <1>7 DEF HearNotice, GatewayInv, Keeps
  <2> QED
    BY <1>6, <1>7, <2>1 DEF HearNotice, Cleared, GatewayInv
<1>8. ASSUME NEW g \in Gateways, GatewayRestarts(g)
      PROVE  GatewayInv'
  BY <1>6, <1>8 DEF GatewayRestarts, GatewayInv
<1>9. ASSUME NEW g \in Gateways, ListenerDrops(g)
      PROVE  GatewayInv'
  <2> DEFINE Dropped(pc) == IF copies[g][pc].cause = "notice"
                            THEN [copies[g][pc] EXCEPT !.cause = "missed"] ELSE copies[g][pc]
  <2>1. /\ copies'[g] = [pc \in Products \X Columns |-> Dropped(pc)]
        /\ copies' = [copies EXCEPT ![g] = copies'[g]]
        /\ notices'[g] = {} /\ notices' = [notices EXCEPT ![g] = {}]
        /\ listening' \subseteq Gateways /\ UNCHANGED <<now, lookups>>
    BY <1>9 DEF ListenerDrops, GatewayInv
  <2>2. ASSUME NEW pc \in Products \X Columns
        PROVE  CopyOf(g, pc)'
    <3>1. copies'[g][pc] = Dropped(pc) /\ CopyOf(g, pc)
      BY <1>0, <2>1 DEF Keeps
    <3>2. CASE copies[g][pc].cause = "notice"
      <4>1. copies[g][pc] \in Copy
        BY <3>1, <3>2 DEF CopyOf, NoCopy
      <4>2. /\ copies'[g][pc] \in Copy /\ copies'[g][pc].at = copies[g][pc].at
            /\ copies'[g][pc].since = copies[g][pc].since /\ copies'[g][pc].cause = "missed"
        BY <3>1, <3>2, <4>1 DEF Copy, Causes
      <4>3. copies[g][pc] # NoCopy
        BY <3>2 DEF NoCopy
      <4> QED
        BY <2>1, <3>1, <4>2, <4>3 DEF CopyOf
    <3>3. CASE copies[g][pc].cause # "notice"
      BY <2>1, <3>1, <3>3 DEF CopyOf
    <3> QED
      BY <3>2, <3>3
  <2>3. copies'[g] \in [Products \X Columns -> Copy \cup {NoCopy}]
    <3>1. \A pc \in Products \X Columns : copies'[g][pc] \in Copy \cup {NoCopy}
      BY <2>2 DEF CopyOf
    <3> QED
      BY <2>1, <3>1
  <2>4. Keeps(g)'
    BY <1>0, <2>1, <2>2, <2>3 DEF Keeps, InTime
  <2> QED
    BY <2>1, <2>4, KeptByGateway DEF GatewayInv
<1>10. ASSUME NEW g \in Gateways, ListenerReconnects(g)
       PROVE  GatewayInv'
  BY <1>0, <1>10 DEF ListenerReconnects, GatewayInv, Keeps, CopyOf, InTime
<1>11. CASE Tick
  <2>1. now' = now + 1 /\ now' \in Times /\ UNCHANGED gatewayVars
    BY <1>0, <1>11 DEF Tick, Times
  <2>2. ASSUME NEW g \in Gateways
        PROVE  Keeps(g)'
    <3>1. Keeps(g)
      BY <1>0
    <3>2. ASSUME NEW pc \in Products \X Columns
          PROVE  CopyOf(g, pc)'
      BY <1>0, <2>1, <3>1 DEF Keeps, CopyOf, Copy, Times, gatewayVars
    <3>3. ASSUME NEW l \in lookups[g]
          PROVE  InTime(l)'
      <4>1. l \in Lookup /\ InTime(l) /\ now - l.began < LookupLimit
        BY <1>11, <3>1 DEF Keeps, Tick
      <4> QED
        BY <1>0, <2>1, <4>1 DEF InTime, Lookup, Times
    <3> QED
      BY <2>1, <3>1, <3>2, <3>3 DEF Keeps, gatewayVars
  <2> QED
    BY <2>1, <2>2 DEF GatewayInv, gatewayVars
<1> QED
  BY <1>1, <1>2, <1>3, <1>4, <1>5, <1>7, <1>8, <1>9, <1>10, <1>11
  DEF Next, GatewayStep, vars

-----------------------------------------------------------------------------
LEMMA CacheAlways == Spec => [](TableInv /\ GatewayInv)
BY CacheInit, TablesStep, GatewaysStep, PTL DEF Spec

(* The table and every gateway's copies, lookups and notices have their types.  *)
THEOREM CacheTypeCorrect == Spec => []CacheTypeOK
<1>1. TableInv /\ GatewayInv => CacheTypeOK
  <2> SUFFICES ASSUME TableInv, GatewayInv PROVE CacheTypeOK
    OBVIOUS
  <2>1. \A p \in Products : row[p] \subseteq made[p]
    BY DEF TableInv, LostToWholeConfigOnly
  <2>2. /\ copies \in [Gateways -> [Products \X Columns -> Copy \cup {NoCopy}]]
        /\ lookups \in [Gateways -> SUBSET Lookup]
        /\ notices \in [Gateways -> SUBSET Products]
    BY DEF GatewayInv, Keeps
  <2> QED
    BY <2>1, <2>2 DEF TableInv, Tables, GatewayInv, CacheTypeOK
<1> QED
  BY <1>1, CacheAlways, PTL

(* StaleAtMost for any number of gateways, keys, edits and lost notifications:  *)
(* the lifetime of a copy and one lookup bound how stale it is (cached()).      *)
THEOREM StalenessBounded == Spec => []StaleAtMost
<1>1. GatewayInv => StaleAtMost
  <2> SUFFICES ASSUME GatewayInv, NEW g \in Gateways, NEW pc \in Products \X Columns, Stale(g, pc)
               PROVE  now - copies[g][pc].since <= TTL + LookupLimit
    BY DEF StaleAtMost
  <2>1. CopyOf(g, pc) /\ now \in Times
    BY DEF GatewayInv, Keeps
  <2>2. copies[g][pc] \in Copy /\ copies[g][pc].since # Current
        /\ now - copies[g][pc].at <= TTL
    BY <2>1 DEF Stale, Cached, CopyOf
  <2> QED
    BY <2>1, <2>2, Numbers DEF CopyOf, Copy, Times
<1> QED
  BY <1>1, CacheAlways, PTL

(* StaleForCause likewise: hearing a notification leaves none of the copies     *)
(* that were cached when the edit committed.                                  *)
THEOREM StaleCopiesExplained == Spec => []StaleForCause
<1>1. GatewayInv => StaleForCause
  BY DEF GatewayInv, Keeps, CopyOf, StaleForCause
<1> QED
  BY <1>1, CacheAlways, PTL

(* A merge loses no committed edit and brings back none, for any number of      *)
(* edits and whole configs: SELECT ... FOR UPDATE makes it one step.           *)
THEOREM EditsKept == Spec => []LostToWholeConfigOnly
<1>1. TableInv => LostToWholeConfigOnly
  BY DEF TableInv
<1> QED
  BY <1>1, CacheAlways, PTL
=============================================================================
