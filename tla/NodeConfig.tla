----------------------------- MODULE NodeConfig -----------------------------
(* What the operator declares about a node and about the agent on its host:  *)
(* the live pool, the marbor agents and the tables behind them, under the     *)
(* admin handlers (internal/admin/admin.go), a reload from the store, a       *)
(* --seed-node run and a restart (cmd/marbor/main.go).                        *)
EXTENDS Naturals, FiniteSets

CONSTANTS
    ConfigNodes,     \* node names
    AgentHosts,      \* host names; disjoint from ConfigNodes
    UrlPorts,        \* ports of node URLs
    PinChoices,      \* TLS fingerprints an operator may pin
    WidthChoices,    \* parallelism widths and GPU counts an operator may declare
    FirstUrls,       \* the URLs of the nodes the server starts with
    ConfigCallers,   \* concurrent admin requests
    MaxConfigOps,    \* bound: requests started
    MaxConfigFaults, \* bound: store calls that fail
    MaxConfigBoots   \* bound: crashes

VARIABLES
    live,        \* the pool: name -> url, host, pin, width, gpus (NodeState)
    agents,      \* host -> scheme of its agent (Router.marborAgents)
    nodeRows,    \* runtime_nodes: name -> url, declared host
    overrides,   \* node_overrides: name -> pin, width, gpus
    agentRows,   \* marbor_agent: host -> scheme
    codes,       \* hosts with an enrollment code not yet redeemed
    op,          \* what each admin request is doing
    patchMu,     \* the request that holds nodePatchMu
    left,        \* budgets of the bounds
    bypassed     \* history: ways around validateTLSPatch taken so far

configVars == <<live, agents, nodeRows, overrides, agentRows, codes, op,
                patchMu, left, bypassed>>
tables == <<nodeRows, overrides, agentRows>>

None == "none"
Idle == [kind |-> "idle"]
Url == [host : AgentHosts, port : UrlPorts]

Put(f, k, v) == [x \in DOMAIN f \cup {k} |-> IF x = k THEN v ELSE f[x]]
Drop(f, S) == [x \in DOMAIN f \ S |-> f[x]]
Has(f, k) == k \in DOMAIN f

HostOrDefault(host, url) == IF host = None THEN url.host ELSE host

\* A host equal to the one the old URL gives counts as derived.
ResultingHost(host, oldUrl, newUrl) ==
    IF host = oldUrl.host THEN newUrl.host ELSE host

Taken(url, name) == \E m \in DOMAIN live \ {name} : live[m].url = url
OnHost(pool, host) == {m \in DOMAIN pool : pool[m].host = host}
RowHost(row) == HostOrDefault(row.host, row.url)

\* A patch is a function on the fields it sets.
NodePatches ==
    [{"url"} -> Url] \cup [{"pin"} -> PinChoices \cup {None}]
    \cup {Put(p, "pin", pin) : p \in [{"url"} -> Url], pin \in PinChoices \cup {None}}
    \cup [{"width"} -> WidthChoices] \cup [{"gpus"} -> WidthChoices]
    \cup [{"width", "gpus"} -> WidthChoices]

BlankNode(url, host) ==
    [url |-> url, host |-> HostOrDefault(host, url), pin |-> None,
     width |-> 0, gpus |-> 0]

BlankOverride == [pin |-> None, width |-> 0, gpus |-> 0]

Pick(patch, field, old) == IF Has(patch, field) THEN patch[field] ELSE old

Merge(rec, patch) == [f \in DOMAIN rec |-> IF f = "url" THEN rec[f] ELSE Pick(patch, f, rec[f])]

OverrideOf(name) ==
    IF Has(overrides, name) THEN overrides[name] ELSE BlankOverride

Loaded(n) ==
    [BlankNode(nodeRows[n].url, nodeRows[n].host) EXCEPT
        !.pin = OverrideOf(n).pin, !.width = OverrideOf(n).width,
        !.gpus = OverrideOf(n).gpus]

\* The server as it comes up from a store with some nodes, https agents and
\* nodes pinned to them.
NodeConfigInit ==
    /\ nodeRows = [n \in DOMAIN FirstUrls |-> [url |-> FirstUrls[n], host |-> None]]
    /\ \E H \in SUBSET {FirstUrls[n].host : n \in DOMAIN FirstUrls}, f \in PinChoices \cup {None} :
         \E P \in SUBSET {n \in DOMAIN FirstUrls : FirstUrls[n].host \in H} :
           /\ agentRows = [h \in H |-> "https"]
           /\ overrides = [n \in P |-> [BlankOverride EXCEPT !.pin = f]]
    /\ live = [n \in DOMAIN FirstUrls |-> Loaded(n)]
    /\ agents = agentRows
    /\ codes = {}
    /\ op = [c \in ConfigCallers |-> Idle]
    /\ patchMu = None
    /\ left = [ops |-> MaxConfigOps, faults |-> MaxConfigFaults,
               boots |-> MaxConfigBoots]
    /\ bypassed = {}

\* Bound: no request is started after a bypass.
Begin(c, next) ==
    /\ op[c] = Idle
    /\ bypassed = {}
    /\ left.ops > 0
    /\ left' = [left EXCEPT !.ops = @ - 1]
    /\ op' = [op EXCEPT ![c] = next]

At(c, kind, step) ==
    op[c].kind = kind /\ op[c].at = step
Advance(c, step) == op' = [op EXCEPT ![c].at = step] /\ UNCHANGED left
FinishOp(c) == op' = [op EXCEPT ![c] = Idle]

Acquire(c) == patchMu = None /\ patchMu' = c
Release == patchMu' = None
Reject(c) ==
    FinishOp(c) /\ Release /\ UNCHANGED <<live, agents, tables, codes, left, bypassed>>

\* A store call that succeeds, or one that fails and changes nothing.
StoreWorks == UNCHANGED left
StoreFails == left.faults > 0 /\ left' = [left EXCEPT !.faults = @ - 1]

--------------------------------------------------------------------------
(* POST /admin/nodes: does not take nodePatchMu. *)

HandleAddNode(c) ==
    \E n \in ConfigNodes, u \in Url, host \in AgentHosts \cup {None} :
        /\ ~Taken(u, n)
        /\ Begin(c, [kind |-> "add", at |-> "pool", node |-> n, url |-> u,
                     host |-> host])
        /\ UNCHANGED <<live, agents, tables, codes, patchMu, bypassed>>

\* Re-registering a name keeps what PATCH declared, the pin included.
AddedTo(pool, n, u, host) ==
    IF Has(pool, n)
    THEN [pool EXCEPT ![n].url = u, ![n].host = HostOrDefault(host, u)]
    ELSE Put(pool, n, BlankNode(u, host))

PoolAddNode(c) ==
    LET o == op[c] IN
    /\ At(c, "add", "pool")
    /\ live' = IF Taken(o.url, o.node) THEN live
               ELSE AddedTo(live, o.node, o.url, o.host)
    /\ bypassed' = IF \/ patchMu # None
                      \/ Has(live, o.node) /\ live'[o.node].host # live[o.node].host
                   THEN bypassed \cup {"add"} ELSE bypassed
    /\ Advance(c, "row")
    /\ UNCHANGED <<agents, tables, codes, patchMu>>

\* The row is written whether or not the pool took the node.
UpsertNode(c) ==
    LET o == op[c] IN
    /\ At(c, "add", "row")
    /\ FinishOp(c)
    /\ \/ StoreWorks /\ nodeRows' = Put(nodeRows, o.node, [url |-> o.url, host |-> o.host])
       \/ StoreFails /\ UNCHANGED nodeRows
    /\ UNCHANGED <<live, agents, overrides, agentRows, codes, patchMu, bypassed>>

--------------------------------------------------------------------------
(* DELETE /admin/nodes/{name} *)

Orphaned(pool, hosts) == {h \in hosts : OnHost(pool, h) = {}}

PoolRemove(n) ==
    /\ live' = Drop(live, {n})
    /\ agents' = IF Has(live, n)
                 THEN Drop(agents, Orphaned(live', {live[n].host}))
                 ELSE agents

HandleRemoveNode(c) ==
    \E n \in ConfigNodes :
        /\ Begin(c, [kind |-> "remove", at |-> "row", node |-> n])
        /\ Acquire(c)
        /\ PoolRemove(n)
        /\ UNCHANGED <<tables, codes, bypassed>>

\* One transaction: the row, and the agent of a host no other row resolves to.
DeleteNode(n) ==
    LET rest == Drop(nodeRows, {n})
        host == RowHost(nodeRows[n])
        shared == \E m \in DOMAIN rest : RowHost(rest[m]) = host
    IN  /\ nodeRows' = rest
        /\ agentRows' = IF Has(nodeRows, n) /\ ~shared THEN Drop(agentRows, {host})
                        ELSE agentRows
        /\ UNCHANGED overrides

RemoveNodeRow(c) ==
    /\ At(c, "remove", "row")
    /\ FinishOp(c)
    /\ Release
    /\ \/ StoreWorks /\ DeleteNode(op[c].node)
       \/ StoreFails /\ UNCHANGED tables
    /\ UNCHANGED <<live, agents, codes, bypassed>>

--------------------------------------------------------------------------
(* PATCH /admin/nodes/{name} *)

\* A declared width needs that many declared GPUs, none declared meaning all.
Covers(width, gpus) == width = 0 \/ gpus = 0 \/ gpus >= width

\* The width is checked before nodePatchMu is taken.
HandlePatchNode(c) ==
    \E n \in ConfigNodes, p \in NodePatches :
        LET gpus == Pick(p, "gpus", IF Has(live, n) THEN live[n].gpus ELSE 0)
        IN  /\ Covers(Pick(p, "width", 0), gpus)
            /\ Begin(c, [kind |-> "patch", at |-> "check", node |-> n, patch |-> p])
            /\ UNCHANGED <<live, agents, tables, codes, patchMu, bypassed>>

\* A pin needs an https agent on the host the patch leads to, and every other
\* pinned node of that host has the same pin.
PinAllowed(host, pin, siblings) ==
    pin = None
    \/ /\ Has(agents, host)
       /\ agents[host] = "https"
       /\ \A m \in siblings : live[m].pin \in {None, pin}

ValidateTLSPatch(n, p) ==
    LET url == Pick(p, "url", live[n].url)
        host == ResultingHost(live[n].host, live[n].url, url)
    IN  PinAllowed(host, Pick(p, "pin", live[n].pin), OnHost(live, host) \ {n})

PatchAllowed(n, p) ==
    /\ Has(live, n)
    /\ Has(p, "gpus") => Covers(live[n].width, p.gpus)
    /\ Has(p, "pin") \/ Has(p, "url") => ValidateTLSPatch(n, p)
    /\ Has(p, "url") => ~Taken(p.url, n)

MoreFields(p) == DOMAIN p # {"url"}

\* validateTLSPatch and the pool's URL change, under nodePatchMu.
PatchURL(c) ==
    LET n == op[c].node  p == op[c].patch IN
    /\ At(c, "patch", "check")
    /\ patchMu = None
    /\ IF ~PatchAllowed(n, p) THEN Reject(c)
       ELSE /\ Acquire(c)
            /\ live' = IF ~Has(p, "url") THEN live
                       ELSE [live EXCEPT ![n].url = p.url,
                               ![n].host = ResultingHost(@, live[n].url, p.url)]
            /\ Advance(c, IF Has(p, "url") THEN "urlrow" ELSE "fields")
            /\ UNCHANGED <<agents, tables, codes, bypassed>>

\* Only the url column changes; a declared host stays in its column.
UpdateNodeURL(c) ==
    LET n == op[c].node IN
    /\ At(c, "patch", "urlrow")
    /\ op' = [op EXCEPT ![c].at = "fields"]
    /\ \/ /\ StoreWorks
          /\ nodeRows' = IF Has(nodeRows, n)
                         THEN [nodeRows EXCEPT ![n].url = op[c].patch.url]
                         ELSE nodeRows
       \/ StoreFails /\ UNCHANGED nodeRows
    /\ UNCHANGED <<live, agents, overrides, agentRows, codes, patchMu, bypassed>>

PatchFields(c) ==
    LET n == op[c].node  p == op[c].patch IN
    /\ At(c, "patch", "fields")
    /\ IF ~MoreFields(p) \/ ~Has(live, n) THEN Reject(c)
       ELSE /\ live' = [live EXCEPT ![n] = Merge(@, p)]
            /\ Advance(c, "override")
            /\ UNCHANGED <<agents, tables, codes, patchMu, bypassed>>

UpsertNodeOverride(c) ==
    LET n == op[c].node IN
    /\ At(c, "patch", "override")
    /\ FinishOp(c)
    /\ Release
    /\ \/ StoreWorks /\ overrides' = Put(overrides, n, Merge(OverrideOf(n), op[c].patch))
       \/ StoreFails /\ UNCHANGED overrides
    /\ UNCHANGED <<live, agents, nodeRows, agentRows, codes, bypassed>>

--------------------------------------------------------------------------
(* The agent of a host: enable, disable, a new token, enrolment. *)

HandleEnableAgent(c) ==
    \E n \in DOMAIN live, scheme \in {None, "http", "https"} :
        /\ Begin(c, [kind |-> "enable", at |-> "store", node |-> n,
                     host |-> live[n].host, scheme |-> scheme])
        /\ UNCHANGED <<live, agents, tables, codes, patchMu, bypassed>>

\* The scheme asked for, else the one the node's agent has, else http.
SchemeFor(n, asked) ==
    IF asked # None THEN asked
    ELSE IF Has(live, n) /\ Has(agents, live[n].host) THEN agents[live[n].host]
    ELSE "http"

MayEnable(host, scheme) ==
    scheme = "http" => \A m \in OnHost(live, host) : live[m].pin = None

UpsertMarborAgent(c) ==
    LET o == op[c]  scheme == SchemeFor(o.node, o.scheme) IN
    /\ At(c, "enable", "store")
    /\ patchMu = None
    /\ \/ ~MayEnable(o.host, scheme) /\ Reject(c)
       \/ MayEnable(o.host, scheme) /\ StoreFails /\ FinishOp(c)
          /\ UNCHANGED <<live, agents, tables, codes, patchMu, bypassed>>
       \/ /\ MayEnable(o.host, scheme)
          /\ Acquire(c)
          /\ agentRows' = Put(agentRows, o.host, scheme)
          /\ op' = [op EXCEPT ![c] = [kind |-> "enable", at |-> "live", host |-> o.host,
                                      rec |-> scheme]]
          /\ UNCHANGED <<live, agents, nodeRows, overrides, codes, left, bypassed>>

NewEnrollmentCode(host) == codes' = codes \cup {host}

SetMarborAgent(c) ==
    /\ At(c, "enable", "live")
    /\ agents' = Put(agents, op[c].host, op[c].rec)
    /\ NewEnrollmentCode(op[c].host)
    /\ FinishOp(c)
    /\ Release
    /\ UNCHANGED <<live, tables, left, bypassed>>

HandleDisableAgent(c) ==
    \E n \in DOMAIN live :
        /\ Begin(c, [kind |-> "disable", at |-> "pins", host |-> live[n].host])
        /\ UNCHANGED <<live, agents, tables, codes, patchMu, bypassed>>

\* The pins of the host's nodes go first, in the pool and in the overrides.
ClearPins(c) ==
    LET pinned == {m \in OnHost(live, op[c].host) : live[m].pin # None} IN
    /\ At(c, "disable", "pins")
    /\ Acquire(c)
    /\ live' = [m \in DOMAIN live |-> IF m \in pinned THEN [live[m] EXCEPT !.pin = None]
                                      ELSE live[m]]
    /\ overrides' = [m \in DOMAIN overrides \cup pinned |->
                        IF m \in pinned THEN [OverrideOf(m) EXCEPT !.pin = None]
                        ELSE overrides[m]]
    /\ Advance(c, "row")
    /\ UNCHANGED <<agents, nodeRows, agentRows, codes, bypassed>>

DeleteMarborAgent(c) ==
    /\ At(c, "disable", "row")
    /\ \/ StoreFails /\ FinishOp(c) /\ Release /\ UNCHANGED agentRows
       \/ /\ UNCHANGED <<left, patchMu>>
          /\ agentRows' = Drop(agentRows, {op[c].host})
          /\ op' = [op EXCEPT ![c].at = "live"]
    /\ UNCHANGED <<live, agents, nodeRows, overrides, codes, bypassed>>

UnsetMarborAgent(c) ==
    /\ At(c, "disable", "live")
    /\ agents' = Drop(agents, {op[c].host})
    /\ FinishOp(c)
    /\ Release
    /\ UNCHANGED <<live, tables, codes, left, bypassed>>

\* The record is read here and written back below without nodePatchMu.
HandleRegenerateToken(c) ==
    \E n \in DOMAIN live :
        /\ Has(agentRows, live[n].host)
        /\ Begin(c, [kind |-> "token", at |-> "row", host |-> live[n].host,
                     rec |-> agentRows[live[n].host]])
        /\ UNCHANGED <<live, agents, tables, codes, patchMu, bypassed>>

RegenerateRow(c) ==
    LET o == op[c]
        stale == ~Has(agentRows, o.host) \/ agentRows[o.host] # o.rec
                 \/ patchMu # None
    IN
    /\ At(c, "token", "row")
    /\ \/ StoreFails /\ FinishOp(c) /\ UNCHANGED <<agentRows, bypassed>>
       \/ /\ Advance(c, "live")
          /\ agentRows' = Put(agentRows, o.host, o.rec)
          /\ bypassed' = IF stale THEN bypassed \cup {"token"} ELSE bypassed
    /\ UNCHANGED <<live, agents, nodeRows, overrides, codes, patchMu>>

RegenerateLive(c) ==
    LET o == op[c] IN
    /\ At(c, "token", "live")
    /\ agents' = Put(agents, o.host, o.rec)
    /\ bypassed' = IF ~Has(agentRows, o.host) \/ agentRows[o.host] # o.rec
                   THEN bypassed \cup {"token"} ELSE bypassed
    /\ NewEnrollmentCode(o.host)
    /\ FinishOp(c)
    /\ UNCHANGED <<live, tables, patchMu, left>>

\* A code is gone with the first look at it, or once it has expired.
HandleEnroll ==
    \E code \in codes :
        /\ codes' = codes \ {code}
        /\ UNCHANGED <<live, agents, tables, op, patchMu, left, bypassed>>

--------------------------------------------------------------------------
(* --seed-node from another process, the reload that picks it up, a crash. *)

SeedNodesToStore ==
    \E n \in ConfigNodes, u \in Url :
        /\ left.ops > 0
        /\ left' = [left EXCEPT !.ops = @ - 1]
        /\ nodeRows' = Put(nodeRows, n, [url |-> u, host |-> None])
        /\ bypassed' = bypassed \cup {"seed"}
        /\ UNCHANGED <<live, agents, overrides, agentRows, codes, op, patchMu>>

ReloadFromStore(c) ==
    /\ Begin(c, [kind |-> "reload", at |-> "sync", rows |-> nodeRows])
    /\ UNCHANGED <<live, agents, tables, codes, patchMu, bypassed>>

\* Names the table lost go, then new and moved ones are added, without the
\* declared host and the overrides.
SyncNodes(c) ==
    LET rows == op[c].rows
        drop == {n \in DOMAIN live : ~Has(rows, n) \/ rows[n].url # live[n].url}
        kept == Drop(live, drop)
        fresh == {n \in DOMAIN rows \ DOMAIN kept :
                    \A m \in DOMAIN kept : kept[m].url # rows[n].url}
    IN
    /\ At(c, "reload", "sync")
    /\ live' = [n \in DOMAIN kept \cup fresh |->
                  IF n \in DOMAIN kept THEN kept[n] ELSE BlankNode(rows[n].url, None)]
    /\ agents' = Drop(agents, Orphaned(kept, {live[n].host : n \in drop}))
    /\ bypassed' = IF drop # {} \/ fresh # {} THEN bypassed \cup {"reload"} ELSE bypassed
    /\ FinishOp(c)
    /\ UNCHANGED <<tables, codes, patchMu, left>>

\* AllNodes in table order: of two rows with one URL the later is refused.
Loadable(S) ==
    /\ \A m, n \in S : nodeRows[m].url = nodeRows[n].url => m = n
    /\ \A n \in DOMAIN nodeRows \ S : \E m \in S : nodeRows[m].url = nodeRows[n].url

Boot ==
    \E S \in SUBSET DOMAIN nodeRows :
        /\ left.boots > 0
        /\ left' = [left EXCEPT !.boots = @ - 1]
        /\ Loadable(S)
        /\ live' = [n \in S |-> Loaded(n)]
        /\ agents' = agentRows
        /\ codes' = {}
        /\ op' = [c \in ConfigCallers |-> Idle]
        /\ patchMu' = None
        /\ bypassed' = IF patchMu # None \/ live' # live \/ agents' # agents THEN bypassed \cup {"boot"}
                       ELSE bypassed
        /\ UNCHANGED tables

--------------------------------------------------------------------------
NodeConfigNext ==
    \/ \E c \in ConfigCallers :
         \/ HandleAddNode(c) \/ PoolAddNode(c) \/ UpsertNode(c)
         \/ HandleRemoveNode(c) \/ RemoveNodeRow(c)
         \/ HandlePatchNode(c) \/ PatchURL(c) \/ UpdateNodeURL(c)
         \/ PatchFields(c) \/ UpsertNodeOverride(c)
         \/ HandleEnableAgent(c) \/ UpsertMarborAgent(c) \/ SetMarborAgent(c)
         \/ HandleDisableAgent(c) \/ ClearPins(c) \/ DeleteMarborAgent(c)
         \/ UnsetMarborAgent(c)
         \/ HandleRegenerateToken(c) \/ RegenerateRow(c) \/ RegenerateLive(c)
         \/ ReloadFromStore(c) \/ SyncNodes(c)
    \/ HandleEnroll
    \/ SeedNodesToStore
    \/ Boot

NodeConfigSpec == NodeConfigInit /\ [][NodeConfigNext]_configVars

--------------------------------------------------------------------------
NodeConfigTypeOK ==
    /\ DOMAIN live \subseteq ConfigNodes
    /\ DOMAIN agents \subseteq AgentHosts
    /\ DOMAIN agentRows \subseteq AgentHosts
    /\ DOMAIN nodeRows \subseteq ConfigNodes
    /\ patchMu \in ConfigCallers \cup {None}
    /\ \A n \in DOMAIN live : live[n].url \in Url /\ live[n].pin \in PinChoices \cup {None}

\* No two live nodes have one backend, and a pinned node's agent is https and
\* pinned alike by every node of its host, as validateTLSPatch, the enable and
\* the disable handler promise, whenever nodePatchMu is free and as long as no
\* path around them was taken. (Within a PATCH that moves a node and clears its
\* pin, the moved node still has it.)
PinsHold ==
    \A n \in DOMAIN live :
        /\ ~Taken(live[n].url, n)
        /\ PinAllowed(live[n].host, live[n].pin, OnHost(live, live[n].host))
PinsSound == bypassed = {} /\ patchMu = None => PinsHold

\* The same without the exception: a pin is always enforced.
PinAlwaysEnforced == patchMu = None => PinsHold

\* A declared parallelism width is covered by the declared GPUs.
WidthCovered == \A n \in DOMAIN live : Covers(live[n].width, live[n].gpus)
=============================================================================
