--------------------------- MODULE CredentialCache ---------------------------
(***************************************************************************)
(* The product row that tenant administration edits in core-service, and the *)
(* copies of it that every gateway process keeps for CACHE_TTL_MS, one under  *)
(* each credential a caller may present.  A committed edit notifies the      *)
(* gateways that are listening; the others are left to the lifetime of their *)
(* copies.                                                                   *)
(*                                                                           *)
(* A row is the set of edits it holds.  What a copy holds matters only by     *)
(* whether, and since when, the row has moved on: `since` in a copy, and in a  *)
(* lookup on its way, is auxiliary.                                           *)
(***************************************************************************)
EXTENDS Naturals, FiniteSets

CONSTANTS
  Products,
  Gateways,      \* gateway processes
  Columns,       \* credentials a product is looked up by: publishable key, client id
  WidgetEdits,   \* what PATCH .../widget-config merges into product.config
  ConfigEdits,   \* whole configs that PATCH /admin/api/tenants/:id puts in their place
  TenantEdits,   \* other columns PATCH /admin/api/tenants/:id sets
  Created,       \* products that exist from the start
  TTL,           \* CACHE_TTL_MS
  LookupLimit,   \* environment: the longest a lookup takes
  Horizon        \* bound on the clock

ASSUME CacheAssumption ==
  /\ Created \subseteq Products
  /\ WidgetEdits \cap ConfigEdits = {}
  /\ (WidgetEdits \cup ConfigEdits) \cap TenantEdits = {}
  /\ {TTL, LookupLimit, Horizon} \subseteq Nat

VARIABLES
  now,
  exists,     \* products that have a row
  inactive,   \* those whose is_active is false
  row,        \* the edits a product row holds
  merging,    \* widget edits that hold the row lock, with the config they read
  made,       \* the edits that have been committed (auxiliary)
  replaced,   \* those that the last whole config written did not hold (auxiliary)
  copies,     \* what a gateway has cached, by product and column
  lookups,    \* queries answered by the database and not yet cached
  listening,  \* gateways whose LISTEN connection is up
  notices     \* notifications on their way to a gateway

tableVars   == <<exists, inactive, row, merging, made, replaced>>
gatewayVars == <<copies, lookups, listening, notices>>
vars        == <<now, tableVars, gatewayVars>>

-----------------------------------------------------------------------------
InConfig == WidgetEdits \cup ConfigEdits

Edits == InConfig \cup TenantEdits

Current == Horizon + 1              \* the row has not moved on

Times == 0..Horizon

(* Why a copy of a row that has moved on is still there.                     *)
Causes == {"none", "notice", "missed", "raced"}

Copy == [at : Times, since : 0..Current, cause : Causes]

NoCopy == [at |-> Current, since |-> Current, cause |-> "none"]

Lookup == [product : Products, column : Columns, began : Times, since : 0..Current]

Merge == [product : Products, edit : WidgetEdits, read : SUBSET Edits]

(* Every variable holds a value of its type, and a row holds committed edits. *)
CacheTypeOK ==
  /\ now \in Times
  /\ exists \subseteq Products
  /\ inactive \subseteq exists
  /\ row \in [Products -> SUBSET Edits]
  /\ merging \subseteq Merge
  /\ made \in [Products -> SUBSET Edits]
  /\ replaced \in [Products -> SUBSET Edits]
  /\ \A p \in Products : row[p] \subseteq made[p]
  /\ copies \in [Gateways -> [Products \X Columns -> Copy \cup {NoCopy}]]
  /\ lookups \in [Gateways -> SUBSET Lookup]
  /\ listening \subseteq Gateways
  /\ notices \in [Gateways -> SUBSET Products]

NoCopies == [pc \in Products \X Columns |-> NoCopy]

Init ==
  /\ now = 0
  /\ exists = Created
  /\ inactive = {}
  /\ row = [p \in Products |-> {}]
  /\ merging = {}
  /\ made = [p \in Products |-> {}]
  /\ replaced = [p \in Products |-> {}]
  /\ copies = [g \in Gateways |-> NoCopies]
  /\ lookups = [g \in Gateways |-> {}]
  /\ listening = Gateways
  /\ notices = [g \in Gateways |-> {}]

-----------------------------------------------------------------------------
(* Tenant administration, in core-service.                                   *)

(* The clock stamps every copy of p, and every lookup of it, as superseded.   *)
Superseded(g, p, pc) ==
  LET c == copies[g][pc] IN
    IF pc[1] = p /\ c # NoCopy /\ c.since = Current
    THEN [c EXCEPT !.since = now,
                   !.cause = IF g \in listening THEN "notice" ELSE "missed"]
    ELSE c

Stamped(l, p) ==
  IF l.product = p /\ l.since = Current THEN [l EXCEPT !.since = now] ELSE l

MovesOn(p) ==
  /\ copies' = [g \in Gateways |->
                  [pc \in Products \X Columns |-> Superseded(g, p, pc)]]
  /\ lookups' = [g \in Gateways |-> {Stamped(l, p) : l \in lookups[g]}]

(* pg_notify in the editing transaction: it goes out with the commit, to the  *)
(* gateways that listen then.                                                *)
NotifyProductChanged(p) ==
  notices' = [g \in Gateways |->
    IF g \in listening THEN notices[g] \cup {p} ELSE notices[g]]

(* POST /admin/api/tenants.  A key probed before is cached as a miss.        *)
CreateTenant(p) ==
  /\ p \notin exists
  /\ exists' = exists \cup {p}
  /\ MovesOn(p)
  /\ NotifyProductChanged(p)
  /\ UNCHANGED <<now, inactive, row, merging, made, replaced, listening>>

(* No transaction holds the row lock of p.                                   *)
Unlocked(p) == \A mg \in merging : mg.product # p

Committed(p, e) == made' = [made EXCEPT ![p] = @ \cup {e}]

(* PATCH /admin/api/tenants/:id sets the columns it was given, each of its    *)
(* own, and waits for the row lock like any UPDATE.                          *)
UpdateTenant(p, e) ==
  /\ p \in exists /\ e \notin made[p]
  /\ Unlocked(p)
  /\ row' = [row EXCEPT ![p] = @ \cup {e}]
  /\ Committed(p, e)
  /\ MovesOn(p)
  /\ NotifyProductChanged(p)
  /\ UNCHANGED <<now, exists, inactive, merging, replaced, listening>>

(* The same endpoint with a config, which is written as the caller composed   *)
(* it: with whatever it holds of earlier edits, and nothing of the others.    *)
ReplaceConfig(p, e, kept) ==
  /\ p \in exists /\ e \notin made[p]
  /\ Unlocked(p)
  /\ kept \subseteq made[p] \cap InConfig
  /\ row' = [row EXCEPT ![p] = (@ \cap TenantEdits) \cup kept \cup {e}]
  /\ Committed(p, e)
  /\ replaced' = [replaced EXCEPT ![p] = (made[p] \cap InConfig) \ kept]
  /\ MovesOn(p)
  /\ NotifyProductChanged(p)
  /\ UNCHANGED <<now, exists, inactive, merging, listening>>

(* The same endpoint with is_active = false: lookups no longer see the row.  *)
Deactivate(p) ==
  /\ p \in exists \ inactive
  /\ Unlocked(p)
  /\ inactive' = inactive \cup {p}
  /\ MovesOn(p)
  /\ NotifyProductChanged(p)
  /\ UNCHANGED <<now, exists, row, merging, made, replaced, listening>>

(* A variant of MayRead with a plain SELECT.                                 *)
MayAlwaysRead(p) == p \in exists

(* SELECT config ... FOR UPDATE.                                             *)
MayRead(p) == p \in exists /\ Unlocked(p)

(* PATCH /admin/api/tenants/:id/widget-config, up to its read of the config.  *)
ReadConfig(p, e) ==
  /\ MayRead(p)
  /\ e \notin made[p]
  /\ \A mg \in merging : mg.product = p => mg.edit # e
  /\ merging' = merging \cup {[product |-> p, edit |-> e, read |-> row[p]]}
  /\ UNCHANGED <<now, exists, inactive, row, made, replaced, gatewayVars>>

(* The rest of it: the merged config is written back whole, the columns that  *)
(* are not config stay as they are.                                          *)
WriteConfig(mg) ==
  LET p == mg.product IN
    /\ row' = [row EXCEPT ![p] = (@ \cap TenantEdits) \cup (mg.read \cap InConfig)
                                  \cup {mg.edit}]
    /\ Committed(p, mg.edit)
    /\ merging' = merging \ {mg}
    /\ MovesOn(p)
    /\ NotifyProductChanged(p)
    /\ UNCHANGED <<now, exists, inactive, replaced, listening>>

(* The transaction rolls back, and its notification with it.                 *)
MergeFails(mg) ==
  /\ merging' = merging \ {mg}
  /\ UNCHANGED <<now, exists, inactive, row, made, replaced, gatewayVars>>

-----------------------------------------------------------------------------
(* The gateways.                                                             *)

(* A variant of Cached without the lifetime.                                 *)
CachedForever(c) == c # NoCopy

(* cached(): a copy is used until it is older than CACHE_TTL_MS.             *)
Cached(c) == c # NoCopy /\ now - c.at <= TTL

(* findByPublishableKey and findByClientId without a usable copy: an expired  *)
(* one is dropped and the row is read.  Callers do not wait for each other.  *)
StartLookup(g, p, col) ==
  /\ ~Cached(copies[g][<<p, col>>])
  /\ copies' = [copies EXCEPT ![g][<<p, col>>] = NoCopy]
  /\ lookups' = [lookups EXCEPT ![g] = @ \cup
       {[product |-> p, column |-> col, began |-> now, since |-> Current]}]
  /\ UNCHANGED <<now, tableVars, listening, notices>>

(* cache.set(key, { at: Date.now(), value }), an absent row included.        *)
FinishLookup(g, l) ==
  /\ lookups' = [lookups EXCEPT ![g] = @ \ {l}]
  /\ copies' = [copies EXCEPT ![g][<<l.product, l.column>>] =
       [at |-> now, since |-> l.since,
        cause |-> IF l.since = Current THEN "none" ELSE "raced"]]
  /\ UNCHANGED <<now, tableVars, listening, notices>>

LookupFails(g, l) ==
  /\ lookups' = [lookups EXCEPT ![g] = @ \ {l}]
  /\ UNCHANGED <<now, tableVars, copies, listening, notices>>

(* A variant of Cleared that evicts what the product id lets it derive.      *)
ClearedByKey(g, p) ==
  LET first == CHOOSE col \in Columns : TRUE IN
    [copies[g] EXCEPT ![<<p, first>>] = NoCopy]

(* cache.clear(), whatever product the notification names.                   *)
Cleared(g, p) == NoCopies

HearNotice(g, p) ==
  /\ p \in notices[g]
  /\ notices' = [notices EXCEPT ![g] = @ \ {p}]
  /\ copies' = [copies EXCEPT ![g] = Cleared(g, p)]
  /\ UNCHANGED <<now, tableVars, lookups, listening>>

(* The connection is gone and what it had not delivered with it.  The cache   *)
(* is kept, and kept again when the connection is back.                      *)
ListenerDrops(g) ==
  /\ g \in listening
  /\ listening' = listening \ {g}
  /\ notices' = [notices EXCEPT ![g] = {}]
  /\ copies' = [copies EXCEPT ![g] = [pc \in Products \X Columns |->
       IF copies[g][pc].cause = "notice" THEN [copies[g][pc] EXCEPT !.cause = "missed"]
       ELSE copies[g][pc]]]
  /\ UNCHANGED <<now, tableVars, lookups>>

ListenerReconnects(g) ==
  /\ g \notin listening
  /\ listening' = listening \cup {g}
  /\ UNCHANGED <<now, tableVars, copies, lookups, notices>>

GatewayRestarts(g) ==
  /\ copies' = [copies EXCEPT ![g] = NoCopies]
  /\ lookups' = [lookups EXCEPT ![g] = {}]
  /\ notices' = [notices EXCEPT ![g] = {}]
  /\ listening' = listening \cup {g}
  /\ UNCHANGED <<now, tableVars>>

Tick ==
  /\ now < Horizon
  /\ \A g \in Gateways : \A l \in lookups[g] : now - l.began < LookupLimit
  /\ now' = now + 1
  /\ UNCHANGED <<tableVars, gatewayVars>>

-----------------------------------------------------------------------------
TenantStep ==
  \/ \E p \in Products : \/ CreateTenant(p)
                         \/ Deactivate(p)
                         \/ \E e \in TenantEdits : UpdateTenant(p, e)
                         \/ \E e \in ConfigEdits, kept \in SUBSET InConfig :
                              ReplaceConfig(p, e, kept)
                         \/ \E e \in WidgetEdits : ReadConfig(p, e)
  \/ \E mg \in merging : WriteConfig(mg) \/ MergeFails(mg)

GatewayStep ==
  \E g \in Gateways :
    \/ \E p \in Products, col \in Columns : StartLookup(g, p, col)
    \/ \E l \in lookups[g] : FinishLookup(g, l) \/ LookupFails(g, l)
    \/ \E p \in Products : HearNotice(g, p)
    \/ ListenerDrops(g)
    \/ ListenerReconnects(g)
    \/ GatewayRestarts(g)

Next == TenantStep \/ GatewayStep \/ Tick

Spec == Init /\ [][Next]_vars

-----------------------------------------------------------------------------
(* Properties.                                                               *)

Stale(g, pc) == Cached(copies[g][pc]) /\ copies[g][pc].since # Current

(* Whatever notifications are lost and whatever lookups they race, no gateway *)
(* serves a row that was replaced longer than CACHE_TTL_MS and one lookup ago *)
(* (credentials.ts:95 "the 60s TTL still bounds staleness").                *)
StaleAtMost ==
  \A g \in Gateways, pc \in Products \X Columns :
    Stale(g, pc) => now - copies[g][pc].since <= TTL + LookupLimit

(* A copy that was in the cache of a listening gateway when its row was        *)
(* edited goes when the notification is heard: all that outlives it was        *)
(* missed, or stored later by a lookup that had read the old row.             *)
StaleForCause ==
  \A g \in Gateways, pc \in Products \X Columns :
    copies[g][pc].cause = "notice" => pc[1] \in notices[g]

(* A merge of the widget editor neither loses what was committed since the    *)
(* operator loaded the page, nor what it knows nothing about, nor brings back  *)
(* what a whole config has replaced: all that a row ever lacks are the edits   *)
(* that the last whole config written did not hold (admin.routes.ts:489         *)
(* "Merge, never replace").                                                 *)
LostToWholeConfigOnly == \A p \in Products : row[p] = made[p] \ replaced[p]
=============================================================================
