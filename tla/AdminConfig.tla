---------------------------- MODULE AdminConfig ----------------------------
(* The configuration an operator edits while the server runs, kept in three  *)
(* places: Server.cfg, the router, and the settings, routing_rules and       *)
(* cloud_providers tables.  Admin handlers run concurrently                  *)
(* (internal/admin/admin.go, model_aliases.go), each store call is a step of *)
(* its own, and a crash is followed by the boot of cmd/marbor/main.go.       *)
EXTENDS Naturals, Sequences, FiniteSets, TLC, SequencesExt

CONSTANTS
    AdminCallers,     \* concurrent admin requests
    AdminKinds,       \* the kinds of request made
    Strategies,       \* routing strategies; DefaultStrategy is one of them
    DefaultStrategy,
    ListenPorts,      \* ports the proxy and the admin API may listen on
    Secrets,          \* secret values an operator may enter
    AliasNames,       \* names usable as alias and as target
    ProviderNames,    \* cloud provider names, "local" possibly among them
    RuleIds,          \* routing rule ids
    PlanNodes,        \* registered nodes
    PlanRole,         \* their replica role
    PlanHead,         \* the head of each worker
    PlanCatalog,      \* the models on each node's disk
    ScheduleActions,  \* among warmup, unload, drain, undrain
    MaxAdminOps,      \* bound: requests started
    MaxAdminFaults,   \* bound: store calls that fail
    MaxAdminBoots     \* bound: crashes

VARIABLES
    conf,        \* Server.cfg
    routed,      \* the router's copy
    disk,        \* the tables
    hand,        \* what each request is doing
    settingsMu,  \* holder of Server.settingsMu
    scheduleMu,  \* holder of Server.scheduleMu
    serving,     \* FALSE once a boot refused the stored configuration
    asked,       \* history: strategy and secret last accepted from an operator
    missed,      \* history: parts whose last write failed unnoticed
    adminLeft    \* budgets of the bounds

adminVars == <<conf, routed, disk, hand, settingsMu, scheduleMu, serving,
               asked, missed, adminLeft>>

Nobody == "nobody"
Resting == [pc |-> "idle"]
DefaultPorts == [proxy |-> 1, admin |-> 2]
With(f, k, v) == (k :> v) @@ f
Minus(f, k) == [x \in DOMAIN f \ {k} |-> f[x]]

----------------------------------------------------------------------------
(* Config.Validate                                                           *)

OneHop(aliases) ==
    \A a \in DOMAIN aliases : aliases[a] # a /\ aliases[a] \notin DOMAIN aliases

PortsValid(c) == c.proxy # c.admin

Reserved == {"local", "blocked"}
ProvidersValid(ps) ==
    \A n \in DOMAIN ps : n \notin Reserved /\ (ps[n].on => ps[n].key # "")

Validate(c) == OneHop(c.aliases) /\ PortsValid(c) /\ ProvidersValid(c.providers)

\* A stored entry that no longer passes is dropped at boot.
SanitizeModelAliases(aliases) ==
    [a \in {x \in DOMAIN aliases : aliases[x] # x /\ aliases[x] \notin DOMAIN aliases}
        |-> aliases[a]]

----------------------------------------------------------------------------
(* Start-up                                                                  *)

Setting(key, default) == IF key \in DOMAIN disk.settings THEN disk.settings[key] ELSE default

ApplyPersistedSettings ==
    [strategy |-> Setting("strategy", DefaultStrategy),
     secret   |-> Setting("secret", ""),
     proxy    |-> Setting("proxy", DefaultPorts.proxy),
     admin    |-> Setting("admin", DefaultPorts.admin),
     aliases  |-> SanitizeModelAliases(disk.aliases),
     providers |-> <<>>]

\* Only settings that say something are given to the router.
StoredWarmup == [n \in {m \in DOMAIN disk.warmup :
                          disk.warmup[m].on \/ disk.warmup[m].models # {}} |-> disk.warmup[n]]

RouterFromStore ==
    [strategy |-> ApplyPersistedSettings.strategy,
     secret   |-> ApplyPersistedSettings.secret,
     aliases  |-> ApplyPersistedSettings.aliases,
     clouds   |-> disk.providers,
     rules    |-> disk.rules,
     schedules |-> disk.schedules,
     warmup   |-> StoredWarmup,
     pinned   |-> disk.pinned]

\* An empty database.
AdminInit ==
    /\ disk = [settings |-> <<>>, aliases |-> <<>>, providers |-> <<>>,
               rules |-> <<>>, schedules |-> <<>>, warmup |-> <<>>,
               pinned |-> <<>>, profiles |-> {}, favorites |-> {}]
    /\ conf = ApplyPersistedSettings
    /\ routed = RouterFromStore
    /\ hand = [c \in AdminCallers |-> Resting]
    /\ settingsMu = Nobody /\ scheduleMu = Nobody
    /\ serving = TRUE
    /\ asked = [strategy |-> DefaultStrategy, secret |-> ""]
    /\ missed = {}
    /\ adminLeft = [ops |-> MaxAdminOps, faults |-> MaxAdminFaults,
                    boots |-> MaxAdminBoots]

----------------------------------------------------------------------------
(* A request and its store calls                                             *)

Open(c, kind, rec) ==
    /\ serving
    /\ hand[c].pc = "idle"
    /\ kind \in AdminKinds
    /\ adminLeft.ops > 0
    /\ adminLeft' = [adminLeft EXCEPT !.ops = @ - 1]
    /\ hand' = [hand EXCEPT ![c] = rec @@ [kind |-> kind]]

On(c, kind, pc) == serving /\ hand[c].pc = pc /\ hand[c].kind = kind
Step(c, pc) == hand' = [hand EXCEPT ![c].pc = pc]
Done(c) == hand' = [hand EXCEPT ![c] = Resting]

ConfigStoreFails ==
    /\ adminLeft.faults > 0
    /\ adminLeft' = [adminLeft EXCEPT !.faults = @ - 1]
    /\ UNCHANGED disk

\* A store call whose error is logged or dropped.
StoreQuietly(d, part) ==
    \/ disk' = d /\ missed' = missed \ {part} /\ UNCHANGED adminLeft
    \/ ConfigStoreFails /\ missed' = missed \cup {part}

----------------------------------------------------------------------------
(* Routing strategy: the router, then the settings row; Server.cfg keeps the *)
(* strategy it was loaded with.                                              *)

HandleSetRoutingStrategy(c) ==
    \/ \E s \in Strategies :
         /\ Open(c, "strategy", [pc |-> "row", to |-> s])
         /\ routed' = [routed EXCEPT !.strategy = s]
         /\ UNCHANGED <<conf, disk, settingsMu, scheduleMu, serving, asked, missed>>
    \/ /\ On(c, "strategy", "row")
       /\ StoreQuietly([disk EXCEPT !.settings = With(@, "strategy", hand[c].to)], "strategy")
       /\ asked' = [asked EXCEPT !.strategy = hand[c].to]
       /\ Done(c)
       /\ UNCHANGED <<conf, routed, settingsMu, scheduleMu, serving>>

----------------------------------------------------------------------------
(* PUT /admin/settings                                                       *)

\* The fields a body may carry: one scalar, or both listen ports.
SettingsBodies ==
    [{"strategy"} -> Strategies] \cup [{"secret"} -> Secrets \cup {"***", ""}]
    \cup [{"proxy", "admin"} -> ListenPorts]

\* The body is decoded over a snapshot of Server.cfg, so an absent field keeps
\* its value; an empty or masked secret keeps the current one.
Incoming(body) ==
    LET decoded == body @@ conf
    IN  [decoded EXCEPT !.secret = IF @ \in {"", "***"} THEN conf.secret ELSE @,
                        !.aliases = <<>>]

DecodeSettings(c) ==
    \E body \in SettingsBodies :
        /\ Open(c, "settings", [pc |-> "swap", body |-> body, new |-> Incoming(body)])
        /\ settingsMu = Nobody
        /\ Validate(Incoming(body))
        /\ settingsMu' = c
        /\ UNCHANGED <<conf, routed, disk, scheduleMu, serving, asked, missed>>

\* What other handlers own is taken from the configuration being replaced.
Swapped(c) ==
    [hand[c].new EXCEPT !.aliases = conf.aliases, !.providers = conf.providers]

SwapConfig(c) ==
    /\ On(c, "settings", "swap")
    /\ conf' = Swapped(c)
    /\ hand' = [hand EXCEPT ![c].pc = "apply", ![c].new = Swapped(c)]
    /\ UNCHANGED <<routed, disk, settingsMu, scheduleMu, serving, asked, missed, adminLeft>>

ApplySettings(c) ==
    /\ On(c, "settings", "apply")
    /\ routed' = [routed EXCEPT !.secret = hand[c].new.secret]
    /\ hand' = [hand EXCEPT ![c] = [rows |-> {"proxy", "admin", "secret"}]
                                      @@ [@ EXCEPT !.pc = "strategy"]]
    /\ UNCHANGED <<conf, disk, settingsMu, scheduleMu, serving, asked, missed, adminLeft>>

\* The strategy row first, then the other rows in the order Go's map yields.
StoreSettings(c) ==
    /\ On(c, "settings", "strategy") \/ On(c, "settings", "rows")
    /\ \E key \in IF hand[c].pc = "strategy" THEN {"strategy"} ELSE hand[c].rows :
         /\ StoreQuietly([disk EXCEPT !.settings = With(@, key, hand[c].new[key])], key)
         /\ hand' = [hand EXCEPT ![c].pc = "rows", ![c].rows = @ \ {key}]
    /\ UNCHANGED <<conf, routed, settingsMu, scheduleMu, serving, asked>>

FinishSettings(c) ==
    /\ On(c, "settings", "rows") /\ hand[c].rows = {}
    /\ asked' = [strategy |-> IF "strategy" \in DOMAIN hand[c].body
                                  THEN hand[c].new.strategy ELSE asked.strategy,
                 secret |-> IF "secret" \in DOMAIN hand[c].body
                                  THEN hand[c].new.secret ELSE asked.secret]
    /\ settingsMu' = Nobody
    /\ Done(c)
    /\ UNCHANGED <<conf, routed, disk, scheduleMu, serving, missed, adminLeft>>

HandleUpdateSettings(c) ==
    \/ DecodeSettings(c)
    \/ SwapConfig(c)
    \/ ApplySettings(c)
    \/ StoreSettings(c)
    \/ FinishSettings(c)

----------------------------------------------------------------------------
(* Model aliases: read-modify-write under settingsMu, stored before they are *)
(* published.                                                                *)

HandleSetModelAlias(c) ==
    \E a \in AliasNames, t \in AliasNames :
        /\ settingsMu = Nobody
        /\ a # t
        /\ OneHop(With(conf.aliases, a, t))
        /\ Open(c, "alias", [pc |-> "commit", next |-> With(conf.aliases, a, t)])
        /\ settingsMu' = c
        /\ UNCHANGED <<conf, routed, disk, scheduleMu, serving, asked, missed>>

HandleDeleteModelAlias(c) ==
    \E a \in DOMAIN conf.aliases :
        /\ settingsMu = Nobody
        /\ Open(c, "alias", [pc |-> "commit", next |-> Minus(conf.aliases, a)])
        /\ settingsMu' = c
        /\ UNCHANGED <<conf, routed, disk, scheduleMu, serving, asked, missed>>

CommitModelAliases(c) ==
    \/ /\ On(c, "alias", "commit")
       /\ \/ /\ disk' = [disk EXCEPT !.aliases = hand[c].next]
             /\ Step(c, "config") /\ UNCHANGED <<settingsMu, adminLeft>>
          \/ ConfigStoreFails /\ Done(c) /\ settingsMu' = Nobody
       /\ UNCHANGED <<conf, routed, scheduleMu, serving, asked, missed>>
    \/ /\ On(c, "alias", "config")
       /\ conf' = [conf EXCEPT !.aliases = hand[c].next]
       /\ Step(c, "router")
       /\ UNCHANGED <<routed, disk, settingsMu, scheduleMu, serving, asked, missed, adminLeft>>
    \/ /\ On(c, "alias", "router")
       /\ routed' = [routed EXCEPT !.aliases = hand[c].next]
       /\ Done(c) /\ settingsMu' = Nobody
       /\ UNCHANGED <<conf, disk, scheduleMu, serving, asked, missed, adminLeft>>

----------------------------------------------------------------------------
(* Cloud providers: the table first, then the whole list read back and given *)
(* to the router and to Server.cfg, without a lock around the three.         *)

NewProviders == [key : {""} \cup Secrets, on : BOOLEAN, priority : {0}]

\* An empty or masked key is replaced by the stored one.
KeyKept(n, p) ==
    IF p.key = "" /\ n \in DOMAIN disk.providers
        THEN [p EXCEPT !.key = disk.providers[n].key] ELSE p

SetCloudProviderPriorities(order) ==
    [n \in DOMAIN disk.providers |->
        IF n \in Range(order)
            THEN [disk.providers[n] EXCEPT
                     !.priority = Len(order) - (CHOOSE i \in DOMAIN order : order[i] = n) + 1]
            ELSE disk.providers[n]]

HandleAddCloudProvider(c) ==
    \E n \in ProviderNames, p \in NewProviders :
        /\ p.on => p.key # ""
        /\ Open(c, "provider", [pc |-> "table", table |-> [n |-> n, p |-> p], op |-> "put"])
        /\ UNCHANGED <<conf, routed, disk, settingsMu, scheduleMu, serving, asked, missed>>

\* The stored key is read when the request comes in.
HandleUpdateCloudProvider(c) ==
    \E n \in ProviderNames, p \in NewProviders :
        /\ KeyKept(n, p).on => KeyKept(n, p).key # ""
        /\ Open(c, "provider", [pc |-> "table", table |-> [n |-> n, p |-> KeyKept(n, p)], op |-> "put"])
        /\ UNCHANGED <<conf, routed, disk, settingsMu, scheduleMu, serving, asked, missed>>

HandleDeleteCloudProvider(c) ==
    \E n \in ProviderNames :
        /\ Open(c, "provider", [pc |-> "table", table |-> n, op |-> "delete"])
        /\ UNCHANGED <<conf, routed, disk, settingsMu, scheduleMu, serving, asked, missed>>

HandleReorderCloudProviders(c) ==
    \E order \in SetToSeqs(DOMAIN disk.providers) :
        /\ order # <<>>
        /\ Open(c, "provider", [pc |-> "table", table |-> order, op |-> "order"])
        /\ UNCHANGED <<conf, routed, disk, settingsMu, scheduleMu, serving, asked, missed>>

ProviderTable(c) ==
    CASE hand[c].op = "put" -> With(disk.providers, hand[c].table.n, hand[c].table.p)
      [] hand[c].op = "delete" -> Minus(disk.providers, hand[c].table)
      [] hand[c].op = "order" -> SetCloudProviderPriorities(hand[c].table)

WriteProviders(c) ==
    /\ On(c, "provider", "table")
    /\ \/ disk' = [disk EXCEPT !.providers = ProviderTable(c)] /\ Step(c, "read") /\ UNCHANGED adminLeft
       \/ ConfigStoreFails /\ Done(c)
    /\ UNCHANGED <<conf, routed, settingsMu, scheduleMu, serving, asked, missed>>

SyncCloudProvidersToRouter(c) ==
    \/ /\ On(c, "provider", "read")
       /\ \/ /\ hand' = [hand EXCEPT ![c] = [pc |-> "router", kind |-> "provider", list |-> disk.providers]]
             /\ UNCHANGED <<adminLeft, disk, missed>>
          \/ ConfigStoreFails /\ Done(c) /\ missed' = missed \cup {"clouds"}
       /\ UNCHANGED <<conf, routed, settingsMu, scheduleMu, serving, asked>>
    \/ /\ On(c, "provider", "router")
       /\ routed' = [routed EXCEPT !.clouds = hand[c].list]
       /\ Step(c, "config")
       /\ UNCHANGED <<conf, disk, settingsMu, scheduleMu, serving, asked, missed, adminLeft>>
    \/ /\ On(c, "provider", "config")
       /\ conf' = [conf EXCEPT !.providers = hand[c].list]
       /\ Done(c)
       /\ UNCHANGED <<routed, disk, settingsMu, scheduleMu, serving, asked, missed, adminLeft>>

----------------------------------------------------------------------------
(* Routing rules: the router's list, then the table.                         *)

FirstRule(rules, id) == SelectInSeq(rules, LAMBDA r : r.id = id)
RemoveRule(rules, id) ==
    IF FirstRule(rules, id) = 0 THEN rules ELSE RemoveAt(rules, FirstRule(rules, id))
ToggleRule(rules, id) ==
    IF FirstRule(rules, id) = 0 THEN rules
        ELSE [rules EXCEPT ![FirstRule(rules, id)].on = ~@]

\* INSERT OR REPLACE: one row per id, the newest last.
UpsertRoutingRule(rules, rule) ==
    Append(SelectSeq(rules, LAMBDA r : r.id # rule.id), rule)
SetRoutingRuleEnabled(rules, id, on) ==
    [i \in DOMAIN rules |-> IF rules[i].id = id THEN [rules[i] EXCEPT !.on = on] ELSE rules[i]]

RuleStarted == UNCHANGED <<conf, disk, settingsMu, scheduleMu, serving, asked, missed>>
RuleStored(c) == Done(c) /\ UNCHANGED <<conf, routed, settingsMu, scheduleMu, serving, asked>>

HandleAddRoutingRule(c) ==
    \/ \E id \in RuleIds, on \in BOOLEAN :
         /\ Open(c, "addRule", [pc |-> "row", rule |-> [id |-> id, on |-> on]])
         /\ routed' = [routed EXCEPT !.rules = Append(@, [id |-> id, on |-> on])]
         /\ RuleStarted
    \/ /\ On(c, "addRule", "row")
       /\ StoreQuietly([disk EXCEPT !.rules = UpsertRoutingRule(@, hand[c].rule)], "rules")
       /\ RuleStored(c)

HandleRemoveRoutingRule(c) ==
    \/ \E id \in RuleIds :
         /\ Open(c, "removeRule", [pc |-> "row", id |-> id])
         /\ routed' = [routed EXCEPT !.rules = RemoveRule(@, id)]
         /\ RuleStarted
    \/ /\ On(c, "removeRule", "row")
       /\ StoreQuietly([disk EXCEPT !.rules = SelectSeq(@, LAMBDA r : r.id # hand[c].id)], "rules")
       /\ RuleStored(c)

\* The list is read again after the toggle, and what is found is stored.
HandleToggleRoutingRule(c) ==
    \/ \E id \in RuleIds :
         /\ Open(c, "toggleRule", [pc |-> "list", id |-> id])
         /\ routed' = [routed EXCEPT !.rules = ToggleRule(@, id)]
         /\ RuleStarted
    \/ /\ On(c, "toggleRule", "list")
       /\ LET at == FirstRule(routed.rules, hand[c].id)
          IN  IF at = 0 THEN Done(c)
                  ELSE hand' = [hand EXCEPT ![c] = [on |-> routed.rules[at].on] @@ [@ EXCEPT !.pc = "row"]]
       /\ UNCHANGED <<conf, routed, disk, settingsMu, scheduleMu, serving, asked, missed, adminLeft>>
    \/ /\ On(c, "toggleRule", "row")
       /\ StoreQuietly([disk EXCEPT !.rules = SetRoutingRuleEnabled(@, hand[c].id, hand[c].on)], "rules")
       /\ RuleStored(c)

----------------------------------------------------------------------------
(* Schedules: the whole list, replaced under scheduleMu.                     *)

PlanModels == UNION {PlanCatalog[n] : n \in PlanNodes}
NewSchedules == [action : ScheduleActions, node : PlanNodes, models : SUBSET PlanModels, on : {TRUE}]

\* A warmup named for a replica worker belongs to its head.
ResolveScheduleNode(sc) ==
    IF PlanRole[sc.node] = "worker" /\ sc.action = "warmup"
        THEN [sc EXCEPT !.node = PlanHead[sc.node]] ELSE sc

ScheduleShape(sc) == sc.action \in {"warmup", "unload"} => sc.models # {}

\* A node whose catalogue cannot be read fails the check.
ValidateScheduleModels(sc) == sc.action = "warmup" => sc.models \subseteq PlanCatalog[sc.node]

Claimable(sc) == PlanRole[sc.node] # "unresolved" /\ ValidateScheduleModels(ResolveScheduleNode(sc))

LockSchedules(c) == scheduleMu = Nobody /\ scheduleMu' = c

HandleCreateSchedule(c) ==
    \/ \E sc \in NewSchedules :
         /\ ScheduleShape(sc) /\ Claimable(sc)
         /\ Open(c, "createSchedule", [pc |-> "lock", id |-> adminLeft.ops, sc |-> ResolveScheduleNode(sc)])
         /\ UNCHANGED <<conf, routed, disk, settingsMu, scheduleMu, serving, asked, missed>>
    \/ /\ On(c, "createSchedule", "lock")
       /\ LockSchedules(c)
       /\ hand' = [hand EXCEPT ![c] = [pc |-> "live", kind |-> "schedules",
                                       list |-> With(routed.schedules, @.id, @.sc)]]
       /\ UNCHANGED <<conf, routed, disk, settingsMu, serving, asked, missed, adminLeft>>

\* Which fields a patch names; a claim is checked again only when it changes.
SchedulePatches ==
    [{"on"} -> BOOLEAN] \cup [{"action"} -> ScheduleActions] \cup [{"node"} -> PlanNodes]
    \cup [{"models"} -> SUBSET PlanModels]
ClaimChanged(patch) == "on" \in DOMAIN patch => patch.on
Patched(sc, patch) ==
    IF ClaimChanged(patch) THEN ResolveScheduleNode(patch @@ sc) ELSE patch @@ sc

HandlePatchSchedule(c) ==
    \E id \in DOMAIN routed.schedules, patch \in SchedulePatches :
        /\ ScheduleShape(patch @@ routed.schedules[id])
        /\ ClaimChanged(patch) => Claimable(patch @@ routed.schedules[id])
        /\ Open(c, "schedules", [pc |-> "live", list |->
              With(routed.schedules, id, Patched(routed.schedules[id], patch))])
        /\ LockSchedules(c)
        /\ UNCHANGED <<conf, routed, disk, settingsMu, serving, asked, missed>>

HandleDeleteSchedule(c) ==
    \E id \in DOMAIN routed.schedules :
        /\ Open(c, "schedules", [pc |-> "live", list |-> Minus(routed.schedules, id)])
        /\ LockSchedules(c)
        /\ UNCHANGED <<conf, routed, disk, settingsMu, serving, asked, missed>>

PersistSchedules(c) ==
    \/ /\ On(c, "schedules", "live")
       /\ routed' = [routed EXCEPT !.schedules = hand[c].list]
       /\ Step(c, "row")
       /\ UNCHANGED <<conf, disk, settingsMu, scheduleMu, serving, asked, missed, adminLeft>>
    \/ /\ On(c, "schedules", "row")
       /\ StoreQuietly([disk EXCEPT !.schedules = hand[c].list], "schedules")
       /\ Done(c) /\ scheduleMu' = Nobody
       /\ UNCHANGED <<conf, routed, settingsMu, serving, asked>>

----------------------------------------------------------------------------
(* Keep-warm lists and pinned models of a node: the row, then the router.    *)

NoWarmup == [on |-> FALSE, models |-> {}]
NodeWarmupSetting(n) == IF n \in DOMAIN routed.warmup THEN routed.warmup[n] ELSE NoWarmup

OnlyShrinks(stored, new) == (new.on => stored.on) /\ new.models \subseteq stored.models

\* Models that are new, or all of them when the list is switched on, must be
\* in the node's catalogue.
WarmupAllowed(n, new) ==
    LET stored == NodeWarmupSetting(n)
    IN  /\ PlanRole[n] # "unresolved"
        /\ \/ OnlyShrinks(stored, new)
           \/ /\ PlanRole[n] # "worker"
              /\ (IF new.on /\ ~stored.on THEN new.models ELSE new.models \ stored.models)
                     \subseteq PlanCatalog[n]

SetNodeWarmup(warmup, n, new) == IF new = NoWarmup THEN Minus(warmup, n) ELSE With(warmup, n, new)

HandleSetNodeWarmup(c) ==
    \/ \E n \in PlanNodes, new \in [on : BOOLEAN, models : SUBSET PlanModels] :
         /\ WarmupAllowed(n, new)
         /\ Open(c, "warmup", [pc |-> "row", n |-> n, new |-> new])
         /\ UNCHANGED <<conf, routed, disk, settingsMu, scheduleMu, serving, asked, missed>>
    \/ /\ On(c, "warmup", "row")
       /\ StoreQuietly([disk EXCEPT !.warmup = With(@, hand[c].n, hand[c].new)], "warmup")
       /\ Step(c, "live")
       /\ UNCHANGED <<conf, routed, settingsMu, scheduleMu, serving, asked>>
    \/ /\ On(c, "warmup", "live")
       /\ routed' = [routed EXCEPT !.warmup = SetNodeWarmup(@, hand[c].n, hand[c].new)]
       /\ Done(c)
       /\ UNCHANGED <<conf, disk, settingsMu, scheduleMu, serving, asked, missed, adminLeft>>

HandleSetPinned(c) ==
    \/ \E n \in PlanNodes, M \in SUBSET PlanModels :
         /\ Open(c, "pinned", [pc |-> "row", n |-> n, models |-> M])
         /\ UNCHANGED <<conf, routed, disk, settingsMu, scheduleMu, serving, asked, missed>>
    \/ /\ On(c, "pinned", "row")
       /\ StoreQuietly([disk EXCEPT !.pinned = With(@, hand[c].n, hand[c].models)], "pinned")
       /\ Step(c, "live")
       /\ UNCHANGED <<conf, routed, settingsMu, scheduleMu, serving, asked>>
    \/ /\ On(c, "pinned", "live")
       /\ routed' = [routed EXCEPT !.pinned = With(@, hand[c].n, hand[c].models)]
       /\ Done(c)
       /\ UNCHANGED <<conf, disk, settingsMu, scheduleMu, serving, asked, missed, adminLeft>>

----------------------------------------------------------------------------
(* What only the tables hold: favorites and model configuration profiles.    *)

TableOnly(c, kind, new) ==
    /\ serving /\ hand[c].pc = "idle" /\ kind \in AdminKinds
    /\ adminLeft.ops > 0
    /\ adminLeft' = [adminLeft EXCEPT !.ops = @ - 1]
    /\ disk' = new
    /\ UNCHANGED <<conf, routed, hand, settingsMu, scheduleMu, serving, asked, missed>>

HandleFavorite(c) ==
    \E m \in PlanModels :
        \/ TableOnly(c, "favorite", [disk EXCEPT !.favorites = @ \cup {m}])
        \/ TableOnly(c, "favorite", [disk EXCEPT !.favorites = @ \ {m}])

HandleModelConfig(c) ==
    \E n \in PlanNodes, m \in PlanModels :
        \/ TableOnly(c, "profile", [disk EXCEPT !.profiles = @ \cup {<<n, m>>}])
        \/ TableOnly(c, "profile", [disk EXCEPT !.profiles = @ \ {<<n, m>>}])

----------------------------------------------------------------------------
(* A crash and the boot after it, refused when the stored settings do not    *)
(* validate.                                                                 *)

BootServer ==
    /\ adminLeft.boots > 0
    /\ adminLeft' = [adminLeft EXCEPT !.boots = @ - 1]
    /\ hand' = [c \in AdminCallers |-> Resting]
    /\ settingsMu' = Nobody /\ scheduleMu' = Nobody
    /\ serving' = Validate(ApplyPersistedSettings)
    /\ conf' = [ApplyPersistedSettings EXCEPT !.providers = disk.providers]
    /\ routed' = RouterFromStore
    /\ missed' = {}
    /\ asked' = [strategy |-> Setting("strategy", DefaultStrategy), secret |-> Setting("secret", "")]
    /\ UNCHANGED disk

AdminConfigNext ==
    \/ \E c \in AdminCallers :
         \/ HandleSetRoutingStrategy(c)
         \/ HandleUpdateSettings(c)
         \/ HandleSetModelAlias(c) \/ HandleDeleteModelAlias(c) \/ CommitModelAliases(c)
         \/ HandleAddCloudProvider(c) \/ HandleUpdateCloudProvider(c)
         \/ HandleDeleteCloudProvider(c) \/ HandleReorderCloudProviders(c)
         \/ WriteProviders(c) \/ SyncCloudProvidersToRouter(c)
         \/ HandleAddRoutingRule(c) \/ HandleRemoveRoutingRule(c) \/ HandleToggleRoutingRule(c)
         \/ HandleCreateSchedule(c) \/ HandlePatchSchedule(c) \/ HandleDeleteSchedule(c)
         \/ PersistSchedules(c)
         \/ HandleSetNodeWarmup(c) \/ HandleSetPinned(c)
         \/ HandleFavorite(c) \/ HandleModelConfig(c)
    \/ BootServer

AdminConfigSpec == AdminInit /\ [][AdminConfigNext]_adminVars

----------------------------------------------------------------------------
AdminConfigTypeOK ==
    /\ conf.strategy \in Strategies /\ conf.proxy \in ListenPorts
    /\ DOMAIN conf.aliases \subseteq AliasNames
    /\ DOMAIN disk.providers \subseteq ProviderNames
    /\ settingsMu \in AdminCallers \cup {Nobody}
    /\ scheduleMu \in AdminCallers \cup {Nobody}
    /\ serving \in BOOLEAN

(* The parts a mutex guards agree whenever it is free: aliases and secrets    *)
(* are the same in Server.cfg, the router and the database, aliases resolve   *)
(* in one hop, a save that does not name a secret keeps it, and the schedules *)
(* that run are the ones the next boot loads, unless a failed write was only  *)
(* logged (commitModelAliases, handleUpdateSettings, persistSchedules).       *)
GuardedPartsAgree ==
    serving =>
    /\ settingsMu = Nobody =>
         /\ conf.aliases = disk.aliases /\ routed.aliases = disk.aliases
         /\ OneHop(conf.aliases)
         /\ conf.secret = routed.secret
         /\ "secret" \notin missed => conf.secret = asked.secret /\ Setting("secret", "") = asked.secret
    /\ (scheduleMu = Nobody /\ "schedules" \notin missed) => routed.schedules = disk.schedules

(* "strategy ... survive a restart instead of reverting": the strategy the    *)
(* next boot loads is the last one an operator was told is in force           *)
(* (handleSetRoutingStrategy, handleUpdateSettings).                          *)
StrategySurvives ==
    (serving /\ (\A c \in AdminCallers : hand[c] = Resting) /\ "strategy" \notin missed) =>
        Setting("strategy", DefaultStrategy) = asked.strategy

(* A crash never leaves settings the next boot refuses (main, Validate).      *)
AlwaysStarts == serving

(* The router's providers are the table's when no request is under way        *)
(* ("so add/update/delete take effect immediately").                          *)
ProvidersAgree ==
    (serving /\ (\A c \in AdminCallers : hand[c] = Resting) /\ "clouds" \notin missed) =>
        routed.clouds = disk.providers

(* Nothing the admin API accepts makes a later settings save fail Validate,   *)
(* except a provider under a reserved name: the handlers and the table take   *)
(* one, and every save is refused while it is there (handleAddCloudProvider,  *)
(* Config.Validate).                                                          *)
SettingsSavable ==
    serving => Validate([conf EXCEPT !.providers = [n \in DOMAIN @ \ Reserved |-> @[n]]])

(* Without that exception the property fails.                                 *)
AlwaysSavable == serving => Validate(conf)
=============================================================================
