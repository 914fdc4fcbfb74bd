--------------------------- MODULE SessionRouting ---------------------------
(***************************************************************************)
(* Who may serve a request (internal/router/placement.go): the replica     *)
(* roles that the nodes' replica_peers declare, the candidate filter with  *)
(* its last resort, and the session pins that Route tries first, that age, *)
(* that a sweep drops and that a restart restores from their rows.         *)
(*                                                                         *)
(* Among the candidates that pass the filter any node may win: how scores  *)
(* pick one is NodeScore's subject.  A pin is one *affinityEntry: two pins *)
(* with different ids are different pointers.                              *)
(***************************************************************************)
EXTENDS Integers, FiniteSets, SequencesExt, Functions

CONSTANTS Fleet,        \* the node names, in the order of the router's slice
          Ghosts,       \* names that declarations mention and no node has
          StaticNodes,  \* nodes whose engine serves only what it has loaded
          Decls,        \* the replica_peers values an operator may save
          RouteModels, Sessions, Requests,
          MaxAffinity,  \* maxAffinityEntries
          MaxPins,      \* pins written in one behaviour
          MaxEvents     \* changes of the fleet in one behaviour

FleetNodes == Range(Fleet)
PeerNames == FleetNodes \cup Ghosts
NoName == "-"
NoDecl == [members |-> {}, head |-> NoName]
NoSessionPin == [node |-> NoName, model |-> NoName, id |-> 0, old |-> FALSE]

ASSUME RoutingAssumption ==
    /\ Fleet \in Seq(FleetNodes) /\ IsInjective(Fleet)
    /\ IsFiniteSet(Ghosts) /\ Ghosts \cap FleetNodes = {} /\ StaticNodes \subseteq FleetNodes
    /\ NoName \notin PeerNames \cup RouteModels
    /\ Decls \subseteq [members : SUBSET PeerNames, head : PeerNames \cup {NoName}]
    /\ MaxAffinity \in Nat /\ MaxPins \in Nat /\ MaxEvents \in Nat

VARIABLES state,     \* "up", "down", "draining" or "gone", for each node
          decl,      \* each node's replica_peers
          quiet,     \* nodes whose host agent does not answer (AgentStale)
          full,      \* nodes at their in-flight cap
          loaded,    \* models resident on each node
          affinity,  \* the session pins
          pinRows,   \* the session_affinity table: the pins of the last flush
          req,       \* each request in Route
          pins, events
routeVars == <<state, decl, quiet, full, loaded, affinity, pinRows, req, pins, events>>

IdleReq == [pc |-> "idle", s |-> NoName, m |-> NoName, pin |-> NoSessionPin, keep |-> FALSE,
            tried |-> {}, got |-> NoName]

RoutingInit ==
    /\ state = [n \in FleetNodes |-> "up"]
    /\ decl \in [FleetNodes -> Decls \cup {NoDecl}]
    /\ quiet = {} /\ full = {}
    /\ loaded = [n \in FleetNodes |-> RouteModels]
    /\ affinity = [s \in Sessions |-> NoSessionPin]
    /\ pinRows = affinity
    /\ req = [r \in Requests |-> IdleReq]
    /\ pins = 0 /\ events = 0

-----------------------------------------------------------------------------
\* Replica roles.

Present == {n \in FleetNodes : state[n] # "gone"}
Declares(n) == decl[n].members # {}

\* One union: the root of the first name is hung under the root of the second.
\* find follows the parents; path compression changes no root.
Find(parent, x) == LET Root[y \in PeerNames] == IF parent[y] = y THEN y ELSE Root[parent[y]]
                   IN Root[x]
Union(parent, a, b) == [parent EXCEPT ![Find(parent, a)] = Find(parent, b)]

\* Every node of the slice is united with each of its members, in slice order.
WithPeers(parent, n) == FoldSet(LAMBDA m, p : Union(p, n, m), parent, decl[n].members)
ParentsOf(order) ==
    FoldSeq(LAMBDA n, parent : IF n \in Present THEN WithPeers(parent, n) ELSE parent,
            [x \in PeerNames |-> x], order)

\* validateComponent: every name is a node, declares exactly these members, and the
\* declarations agree on a head that is one of them.
ValidComponent(members) ==
    /\ members \subseteq Present
    /\ \E h \in members : \A x \in members : Declares(x) /\ decl[x] = [members |-> members, head |-> h]

\* resolveSchedulingRolesAndHeads: a node that no declaration touches is in no
\* component and stands alone.
RolesIn(order) ==
    LET touched == UNION {{n} \cup decl[n].members : n \in {p \in Present : Declares(p)}}
        parent == ParentsOf(order)
        root == [x \in PeerNames |-> Find(parent, x)]
        of(n) == {x \in touched : root[x] = root[n]} IN
    [n \in Present |->
        CASE n \notin touched -> "standalone"
          [] n \in touched /\ ~ValidComponent(of(n)) -> "unresolved"
          [] n \in touched /\ ValidComponent(of(n)) ->
               IF decl[n].head = n THEN "head" ELSE "worker"]
Roles == RolesIn(Fleet)

\* unreachableReplicaHeads: the heads with a worker whose agent is silent.
DownHeads(roles) == {decl[n].head : n \in {w \in DOMAIN roles : roles[w] = "worker" /\ w \in quiet}}

-----------------------------------------------------------------------------
\* The candidate filter.

\* A static engine serves what it has loaded.  A request's runtime filter and a GPU
\* group that is too small refuse a node in the same places and in the same way.
IsEligibleForModel(n, m) == n \in StaticNodes => m \in loaded[n]

\* filterCandidatesWithFallback: who is a candidate, and who is held in reserve.
Passes(n, m, roles) ==
    /\ state[n] = "up" /\ IsEligibleForModel(n, m) /\ n \notin full
    /\ roles[n] \in {"standalone", "head"}
Eligible(m, roles) == {n \in DOMAIN roles : Passes(n, m, roles) /\ n \notin DownHeads(roles)}
LastResort(m, roles) == {n \in DOMAIN roles : Passes(n, m, roles) /\ n \in DownHeads(roles)}

\* filterAndSelect: the reserve is used only when nobody else is left.
Selectable(m, roles, excluded) ==
    IF Eligible(m, roles) \ excluded # {} THEN Eligible(m, roles) \ excluded
    ELSE LastResort(m, roles) \ excluded

-----------------------------------------------------------------------------
\* Route with a session: one action for each stretch under one lock.

Moves(r, to) == req' = [req EXCEPT ![r].pc = to]
fleetState == <<state, decl, quiet, full, loaded, events>>

\* stickyNode reads the session's pin; an expired pin is not used and not dropped.
StickyRead(r, s, m) ==
    /\ req[r].pc = "idle" /\ pins < MaxPins
    /\ req' = [req EXCEPT ![r] = [IdleReq EXCEPT
                 !.s = s, !.m = m, !.pin = affinity[s],
                 !.pc = IF affinity[s] = NoSessionPin \/ affinity[s].old THEN "route" ELSE "look"]]
    /\ UNCHANGED <<affinity, pinRows, pins, fleetState>>

\* stickyNode finds the pinned node by its URL; one that is gone, unhealthy or
\* draining loses the pin, but only the pin that was read.
StickyLook(r) ==
    LET q == req[r] IN
    /\ q.pc = "look"
    /\ IF state[q.pin.node] = "up"
       THEN /\ Moves(r, "check")
            /\ affinity' = [affinity EXCEPT ![q.s] = IF @ = NoSessionPin THEN @ ELSE [@ EXCEPT !.old = FALSE]]
       ELSE /\ Moves(r, "route")
            /\ affinity' = [affinity EXCEPT ![q.s] = IF @.id = q.pin.id THEN NoSessionPin ELSE @]
    /\ UNCHANGED <<pinRows, pins, fleetState>>

\* RouteWithPrefix validates the pinned node: a head whose worker's agent is silent
\* is passed over with its pin kept, a node that fits and has room serves, one that
\* no longer fits loses the session's pin, whichever pin that is by now.
StickyCheck(r) ==
    LET q == req[r]
        n == q.pin.node
        role == IF state[n] = "gone" THEN "standalone" ELSE Roles[n]
        fits == IsEligibleForModel(n, q.m) /\ role \in {"standalone", "head"} IN
    /\ q.pc = "check"
    /\ CASE fits /\ role = "head" /\ n \in DownHeads(Roles) ->
              /\ req' = [req EXCEPT ![r] = [@ EXCEPT !.pc = "route", !.keep = TRUE]]
              /\ UNCHANGED <<affinity, pins>>
         [] fits /\ n \notin full /\ ~(role = "head" /\ n \in DownHeads(Roles)) ->
              \* stampAffinityModel: a new entry for another model, same node and age.
              /\ req' = [req EXCEPT ![r] = [IdleReq EXCEPT !.pc = "served", !.m = q.m, !.got = n]]
              /\ LET stamps == affinity[q.s].node = n /\ affinity[q.s].model # q.m IN
                 /\ affinity' = IF stamps
                                THEN [affinity EXCEPT ![q.s] = [@ EXCEPT !.model = q.m, !.id = pins + 1]]
                                ELSE affinity
                 /\ pins' = IF stamps THEN pins + 1 ELSE pins
         [] OTHER ->
              /\ Moves(r, "route")
              /\ affinity' = IF fits THEN affinity ELSE [affinity EXCEPT ![q.s] = NoSessionPin]
              /\ UNCHANGED pins
    /\ UNCHANGED <<pinRows, fleetState>>

\* routeInternal: the filter over a copy of the node list, then the winner.
RouteInternal(r) ==
    LET q == req[r] IN
    /\ q.pc = "route"
    /\ IF Selectable(q.m, Roles, {}) = {} THEN req' = [req EXCEPT ![r] = IdleReq]
       ELSE \E n \in Selectable(q.m, Roles, {}) :
              req' = [req EXCEPT ![r] = [@ EXCEPT !.got = n,
                                                 !.pc = IF q.keep THEN "served" ELSE "pin"]]
    /\ UNCHANGED <<affinity, pinRows, pins, fleetState>>

\* The winner becomes the session's pin while the table has room.
WritePin(r) ==
    LET q == req[r]
        room == Cardinality({s \in Sessions : affinity[s] # NoSessionPin}) < MaxAffinity IN
    /\ q.pc = "pin" /\ Moves(r, "served")
    /\ affinity' = IF room THEN [affinity EXCEPT ![q.s] =
                                   [node |-> q.got, model |-> q.m, id |-> pins + 1, old |-> FALSE]]
                   ELSE affinity
    /\ pins' = IF room THEN pins + 1 ELSE pins
    /\ UNCHANGED <<pinRows, fleetState>>

\* RouteExcluding, the retry of a request whose node failed, and a request without
\* a session: the filter alone, and no pin is read or written.
RouteExcluding(r, m, tried) ==
    /\ req[r].pc = "idle"
    /\ \E n \in Selectable(m, Roles, tried) :
         req' = [req EXCEPT ![r] = [IdleReq EXCEPT !.pc = "served", !.m = m, !.tried = tried, !.got = n]]
    /\ UNCHANGED <<affinity, pinRows, pins, fleetState>>

FinishRoute(r) == /\ req[r].pc = "served"
             /\ req' = [req EXCEPT ![r] = IdleReq]
             /\ UNCHANGED <<affinity, pinRows, pins, fleetState>>

-----------------------------------------------------------------------------
\* Pins with time, and across a restart.

\* A pin grows older than affinityTTL.
Ages(s) == /\ affinity[s] # NoSessionPin /\ ~affinity[s].old
           /\ affinity' = [affinity EXCEPT ![s].old = TRUE]
           /\ UNCHANGED <<pinRows, req, pins, fleetState>>

\* sweepAffinity and, in the same tick, FlushAffinity: one transaction replaces the
\* rows.  A row carries no model.
SweepAndFlush ==
    /\ affinity' = [s \in Sessions |-> IF affinity[s].old THEN NoSessionPin ELSE affinity[s]]
    /\ pinRows' = [s \in Sessions |-> [affinity'[s] EXCEPT !.model = NoName]]
    /\ UNCHANGED <<req, pins, fleetState>>

\* RestoreAffinity at boot: rows within the TTL, up to the cap.
RestoreAffinity ==
    /\ events < MaxEvents /\ events' = events + 1
    /\ req' = [r \in Requests |-> IdleReq]
    /\ \E expired \in SUBSET {s \in Sessions : pinRows[s] # NoSessionPin} :
         affinity' = [s \in Sessions |-> IF s \in expired THEN NoSessionPin ELSE pinRows[s]]
    /\ UNCHANGED <<state, decl, quiet, full, loaded, pinRows, pins>>

-----------------------------------------------------------------------------
\* The fleet: polls, drains, the operator and other requests.
FleetChanges ==
    /\ events < MaxEvents /\ events' = events + 1
    /\ \E n \in FleetNodes :
         \/ /\ \E to \in {"up", "down", "draining", "gone"} \ {state[n]} : state' = [state EXCEPT ![n] = to]
            /\ UNCHANGED <<decl, quiet, full, loaded>>
         \/ /\ \E d \in (Decls \cup {NoDecl}) \ {decl[n]} : decl' = [decl EXCEPT ![n] = d]
            /\ UNCHANGED <<state, quiet, full, loaded>>
         \/ /\ quiet' = IF n \in quiet THEN quiet \ {n} ELSE quiet \cup {n}
            /\ UNCHANGED <<state, decl, full, loaded>>
         \/ /\ full' = IF n \in full THEN full \ {n} ELSE full \cup {n}
            /\ UNCHANGED <<state, decl, quiet, loaded>>
         \/ /\ \E m \in RouteModels :
                 loaded' = [loaded EXCEPT ![n] = IF m \in @ THEN @ \ {m} ELSE @ \cup {m}]
            /\ UNCHANGED <<state, decl, quiet, full>>
    /\ UNCHANGED <<affinity, pinRows, req, pins>>

RoutingNext ==
    \/ \E r \in Requests, s \in Sessions, m \in RouteModels : StickyRead(r, s, m)
    \/ \E r \in Requests, m \in RouteModels, tried \in SUBSET FleetNodes : RouteExcluding(r, m, tried)
    \/ \E r \in Requests : \/ StickyLook(r) \/ StickyCheck(r) \/ RouteInternal(r)
                           \/ WritePin(r) \/ FinishRoute(r)
    \/ \E s \in Sessions : Ages(s)
    \/ SweepAndFlush \/ RestoreAffinity \/ FleetChanges
RoutingSpec == RoutingInit /\ [][RoutingNext]_routeVars

-----------------------------------------------------------------------------
RoutingTypeOK ==
    /\ state \in [FleetNodes -> {"up", "down", "draining", "gone"}]
    /\ decl \in [FleetNodes -> Decls \cup {NoDecl}]
    /\ quiet \subseteq FleetNodes /\ full \subseteq FleetNodes
    /\ loaded \in [FleetNodes -> SUBSET RouteModels]
    /\ \A s \in Sessions : /\ affinity[s].node \in FleetNodes \cup {NoName}
                           /\ pinRows[s].node \in FleetNodes \cup {NoName}
    /\ \A r \in Requests : req[r].pc \in {"idle", "look", "check", "route", "pin", "served"}

\* What the declarations mean, without union-find: the names that declarations
\* connect, directly or not.
Linked(x, y) ==
    \A S \in SUBSET PeerNames :
        x \in S /\ (\A n \in Present : Declares(n) =>
                      LET tie == {n} \cup decl[n].members IN tie \cap S # {} => tie \subseteq S)
            => y \in S
MayServe(n) ==
    LET group == {y \in PeerNames : Linked(n, y)}
        alone == ~Declares(n) /\ \A x \in Present : n \notin decl[x].members IN
    \/ alone
    \/ /\ group \subseteq Present
       /\ \A x \in group : decl[x] = [members |-> group, head |-> n]

\* In every order of the node list union-find gives the roles the declarations mean:
\* a node that a broken or partial declaration pulls into its component is never
\* schedulable, and a sound component has one head.
RolesSound ==
    \A order \in {Fleet, Reverse(Fleet)} : \A n \in Present :
        (RolesIn(order)[n] \in {"standalone", "head"}) <=> MayServe(n)

\* A request is given a node only while that node may serve by the declarations of
\* the moment, whether its session's pin or the filter chose it; and a head whose
\* worker's agent is silent only when no other candidate was left.
ServedBySchedulable ==
    [][\A r \in Requests :
          req[r].got = NoName /\ req'[r].got # NoName =>
              /\ state[req'[r].got] # "gone" => MayServe(req'[r].got)
              /\ req'[r].got \in DownHeads(Roles) => Eligible(req'[r].m, Roles) \subseteq req'[r].tried]_routeVars

\* "deleting unconditionally would erase that fresh pin instead of the stale one we
\* actually looked up": a request drops no pin but the one it read.
FreshPinKept ==
    [][\A r \in Requests, s \in Sessions :
          req[r].pc \in {"look", "check"} /\ req'[r].pc = "route" /\ req[r].s = s
              /\ affinity[s] # NoSessionPin /\ affinity'[s] = NoSessionPin
              => affinity[s].id = req[r].pin.id]_routeVars
=============================================================================
