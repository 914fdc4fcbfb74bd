---------------------------- MODULE NodePool ----------------------------
(***************************************************************************)
(* One node name of the router's pool (internal/router): the health polls   *)
(* of health.go, the registration, removal and URL change of router.go,    *)
(* the warm-residency rows of warmstate.go, the admin handlers and the     *)
(* reload that call them, and a restart of the process.                    *)
(*                                                                         *)
(* Everything the router keeps about a node is keyed by its NAME, while a  *)
(* poll holds a POINTER to the NodeState it was started for.  Several      *)
(* NodeStates of one name succeed each other (removal and re-registration, *)
(* URL change, restart), and polls of old ones are still running.  A       *)
(* NodeState is a number, 1 .. MaxNodes, in order of creation; "address"   *)
(* identifies the registration or URL a NodeState was made for.            *)
(*                                                                         *)
(* A step is one critical section (r.mu, n.mu, vramSeenMu, the lifecycle   *)
(* lock) or one store call.  Runtime auto-detection and a nil probe fail   *)
(* exactly as a failed probe does and are not told apart from one.         *)
(***************************************************************************)
EXTENDS Integers, FiniteSets, TLC

CONSTANTS
    Models,            \* model names a node may have in VRAM
    Admins,            \* concurrent admin requests (add, remove, patch URL, reload)
    Spawned,           \* slots for the polls started by AddNode and UpdateNodeURL
    TickPoll,          \* the poll of the pollAll ticker, at most one at a time
    Nobody,            \* holder of a free lock
    MaxNodes,          \* bound: NodeStates created in a behaviour
    Worlds,            \* what the real node may be: [reach, resident]
    Requests,          \* the kinds of admin request made, see RequestKinds
    Background,        \* what happens by itself in a behaviour, see BackgroundKinds
    FailureThreshold,  \* healthFailureThreshold
    SuccessThreshold   \* healthSuccessThreshold

\* the pollAll ticker, the flush ticker, a crash at any point, a crash
\* while no admin request runs
BackgroundKinds == {"tick", "flush", "crash", "idlecrash"}
RequestKinds == {"add", "patch", "remove", "reload"}

ASSUME ThresholdAssumption ==
    /\ FailureThreshold \in Nat \ {0}
    /\ SuccessThreshold \in Nat \ {0}
    /\ MaxNodes \in Nat
    /\ Worlds \subseteq [reach : BOOLEAN, resident : SUBSET Models]
    /\ Background \subseteq BackgroundKinds
    /\ Requests \subseteq RequestKinds
    /\ TickPoll \notin Spawned /\ Nobody \notin Admins

Polls == Spawned \cup {TickPoll}
NoNode == 0
NodeIds == 1 .. MaxNodes
NodeOrNone == 0 .. MaxNodes

VARIABLES
    pool,      \* the NodeState of this name in r.nodes, or NoNode
    made,      \* NodeStates created so far
    node,      \* node[i]: the fields of NodeState i that this module uses
    prev,      \* r.prevHealthy[name]: "unset", "up" or "down"
    sizes,     \* models with an entry in r.lastKnownVRAM for this name
    rows,      \* rows[m]: address whose residency the warm_state row records, or NoNode
    db,        \* address in the runtime_nodes row of this name, or NoNode
    life,      \* holder of nodeLifecycleMu, or Nobody
    patch,     \* holder of the admin server's nodePatchMu, or Nobody
    poll,      \* poll[p]: program counter and locals of a pollNode call
    adm,       \* adm[a]: program counter and locals of an admin request
    flush,     \* the FlushWarmState call of the 60 s ticker
    boot,      \* the RestoreWarmState call of the boot sequence
    world      \* the real node: reachable or not, and what it has in VRAM

vars == <<pool, made, node, prev, sizes, rows, db, life, patch, poll, adm,
          flush, boot, world>>

\* what no step of a poll changes
otherVars == <<pool, made, db, life, patch, adm, flush, boot, world>>

(***************************************************************************)
(* Records and initial state.                                              *)
(***************************************************************************)
NewNode(address) ==
    [addr |-> address, healthy |-> TRUE, failures |-> 0, successes |-> 0,
     loaded |-> {}, seeded |-> {}]

IdlePoll == [pc |-> "idle", n |-> NoNode, was |-> {}, now |-> {}, up |-> FALSE]
PollOf(i) == [IdlePoll EXCEPT !.pc = "probe", !.n = i]
\* an admin request: its label, the NodeState it polls, the address it
\* registers and the label after the router call it is in
Request(l, i, address, k) == [pc |-> l, n |-> i, addr |-> address, then |-> k]
IdleAdmin == Request("idle", NoNode, NoNode, "idle")
IdleFlush == [pc |-> "idle", n |-> NoNode, models |-> {}]
NoRows == [m \in Models |-> NoNode]
IdleBoot == [pc |-> "idle", n |-> NoNode, rows |-> NoRows]

Init ==
    /\ pool = NoNode
    /\ made = 0
    /\ node = [i \in NodeIds |-> NewNode(NoNode)]
    /\ prev = "unset"
    /\ sizes = {}
    /\ rows = NoRows
    /\ db = NoNode
    /\ life = Nobody
    /\ patch = Nobody
    /\ poll = [p \in Polls |-> IdlePoll]
    /\ adm = [a \in Admins |-> IdleAdmin]
    /\ flush = IdleFlush
    /\ boot = IdleBoot
    /\ world \in Worlds

Exists == pool # NoNode

(***************************************************************************)
(* Warm-state rows.                                                        *)
(***************************************************************************)
RowsWith(models, address) ==
    [m \in Models |-> IF m \in models THEN address ELSE rows[m]]

RowsOnly(r, models) == [m \in Models |-> IF m \in models THEN r[m] ELSE NoNode]

ResidencyDiff(was, now, address) ==
    [m \in Models |-> IF m \in now \ was THEN address
                      ELSE IF m \in was \ now THEN NoNode ELSE rows[m]]

(***************************************************************************)
(* pollNode.  Goto(p, l) moves poll p to label l; a local is cleared after  *)
(* its last use.                                                           *)
(***************************************************************************)
Goto(p, l) == poll' = [poll EXCEPT ![p].pc = l]
EndPoll(p) == poll' = [poll EXCEPT ![p] = IdlePoll]

\* pollAll: the ticker starts a poll unless its previous one is still running.
Tick ==
    /\ "tick" \in Background
    /\ poll[TickPoll].pc = "idle"
    /\ Exists
    /\ poll' = [poll EXCEPT ![TickPoll] = PollOf(pool)]
    /\ UNCHANGED <<node, prev, sizes, rows, otherVars>>

Probe(p) ==
    /\ poll[p].pc = "probe"
    /\ poll' = [poll EXCEPT ![p] =
          IF world.reach THEN [@ EXCEPT !.pc = "apply", !.now = world.resident]
                         ELSE [@ EXCEPT !.pc = "fail", !.now = {}]]
    /\ UNCHANGED <<node, prev, sizes, rows, otherVars>>

\* The fields a successful probe leaves in its NodeState: failures reset, and
\* an unhealthy node comes back only after SuccessThreshold successes in a row.
AfterSuccess(s, models) ==
    LET counted == IF s.healthy THEN s.successes ELSE s.successes + 1 IN
    [s EXCEPT !.loaded = models, !.failures = 0, !.successes = counted,
              !.healthy = s.healthy \/ counted >= SuccessThreshold]

ApplySuccess(p) ==
    LET i == poll[p].n
        after == AfterSuccess(node[i], poll[p].now) IN
    /\ poll[p].pc = "apply"
    /\ node' = [node EXCEPT ![i] = after]
    /\ poll' = [poll EXCEPT ![p] = [@ EXCEPT !.pc = "exists", !.was = node[i].loaded,
                                           !.up = after.healthy]]
    /\ UNCHANGED <<prev, sizes, rows, otherVars>>

\* recordSizes := r.nodeExists(nodeName)
CheckExists(p) ==
    /\ poll[p].pc = "exists"
    /\ Goto(p, IF Exists THEN "sizes" ELSE "diff")
    /\ UNCHANGED <<node, prev, sizes, rows, otherVars>>

RecordSizes(p) ==
    /\ poll[p].pc = "sizes"
    /\ sizes' = sizes \cup poll[p].now
    /\ Goto(p, "undo")
    /\ UNCHANGED <<node, prev, rows, otherVars>>

\* Mutant: sizes recorded for a node that was removed are not undone.
UndoNever(p) ==
    /\ poll[p].pc = "undo"
    /\ Goto(p, "diff")
    /\ UNCHANGED <<node, prev, sizes, rows, otherVars>>

\* undoIfNodeRemoved: the first, unlocked test ...
UndoCheck(p) ==
    /\ poll[p].pc = "undo"
    /\ Goto(p, IF Exists THEN "diff" ELSE "undolock")
    /\ UNCHANGED <<node, prev, sizes, rows, otherVars>>

\* Mutant: the undo trusts the first test.
UndoLockedBlind(p) ==
    /\ poll[p].pc = "undolock"
    /\ life = Nobody
    /\ sizes' = {}
    /\ Goto(p, "diff")
    /\ UNCHANGED <<node, prev, rows, otherVars>>

\* ... and the second under nodeLifecycleMu, with the undo.
UndoLocked(p) ==
    /\ poll[p].pc = "undolock"
    /\ life = Nobody
    /\ sizes' = IF Exists THEN sizes ELSE {}
    /\ Goto(p, "diff")
    /\ UNCHANGED <<node, prev, rows, otherVars>>

PersistResidencyDiff(p) ==
    /\ poll[p].pc = "diff"
    /\ rows' = ResidencyDiff(poll[p].was, poll[p].now, node[poll[p].n].addr)
    /\ poll' = [poll EXCEPT ![p] = [@ EXCEPT !.pc = "reconcile", !.was = {}]]
    /\ UNCHANGED <<node, prev, sizes, otherVars>>

\* Mutant: rows of models that are not resident are left alone.
ReconcileNothing(p) ==
    /\ poll[p].pc = "reconcile"
    /\ poll' = [poll EXCEPT ![p] =
          IF poll[p].up THEN [PollOf(poll[p].n) EXCEPT !.pc = "announce"] ELSE IdlePoll]
    /\ UNCHANGED <<node, prev, sizes, rows, otherVars>>

ReconcileNodeResidency(p) ==
    /\ poll[p].pc = "reconcile"
    /\ rows' = RowsOnly(rows, poll[p].now)
    /\ poll' = [poll EXCEPT ![p] =
          IF poll[p].up THEN [PollOf(poll[p].n) EXCEPT !.pc = "announce"] ELSE IdlePoll]
    /\ UNCHANGED <<node, prev, sizes, otherVars>>

\* Mutant: only the first healthy poll of a name is recorded.
AnnounceUpFirst(p) ==
    /\ poll[p].pc = "announce"
    /\ prev' = IF Exists /\ prev = "unset" THEN "up" ELSE prev
    /\ EndPoll(p)
    /\ UNCHANGED <<node, sizes, rows, otherVars>>

\* The node_up webhook and prevHealthy, guarded by pool membership.
AnnounceUp(p) ==
    /\ poll[p].pc = "announce"
    /\ prev' = IF Exists THEN "up" ELSE prev
    /\ EndPoll(p)
    /\ UNCHANGED <<node, sizes, rows, otherVars>>

\* Mutant: a failed probe resets the successes and is not counted.
AfterFailureUncounted(s) == [s EXCEPT !.successes = 0]

\* markFailure under n.mu.  Failures is capped at the threshold: the code only
\* compares it with >=.
AfterFailure(s) ==
    LET f == IF s.failures < FailureThreshold THEN s.failures + 1 ELSE s.failures IN
    [s EXCEPT !.failures = f, !.successes = 0,
              !.healthy = s.healthy /\ f < FailureThreshold]

MarkFailure(p) ==
    LET i == poll[p].n
        after == AfterFailure(node[i]) IN
    /\ poll[p].pc = "fail"
    /\ node' = [node EXCEPT ![i] = after]
    /\ IF node[i].healthy /\ ~after.healthy THEN Goto(p, "snapshot") ELSE EndPoll(p)
    /\ UNCHANGED <<prev, sizes, rows, otherVars>>

\* snapshotNode: the copy of LoadedModels, then the row writes.
SnapshotRead(p) ==
    /\ poll[p].pc = "snapshot"
    /\ poll' = [poll EXCEPT ![p] = [@ EXCEPT !.pc = "snapwrite",
                                           !.now = node[poll[p].n].loaded]]
    /\ UNCHANGED <<node, prev, sizes, rows, otherVars>>

SnapshotWrite(p) ==
    /\ poll[p].pc = "snapwrite"
    /\ rows' = RowsWith(poll[p].now, node[poll[p].n].addr)
    /\ poll' = [poll EXCEPT ![p] = [@ EXCEPT !.pc = "down", !.now = {}]]
    /\ UNCHANGED <<node, prev, sizes, otherVars>>

AnnounceDown(p) ==
    /\ poll[p].pc = "down"
    /\ prev' = IF Exists THEN "down" ELSE prev
    /\ EndPoll(p)
    /\ UNCHANGED <<node, sizes, rows, otherVars>>

PollStep(p) ==
    \/ Probe(p) \/ ApplySuccess(p) \/ CheckExists(p) \/ RecordSizes(p)
    \/ UndoCheck(p) \/ UndoLocked(p) \/ PersistResidencyDiff(p)
    \/ ReconcileNodeResidency(p) \/ AnnounceUp(p)
    \/ MarkFailure(p) \/ SnapshotRead(p) \/ SnapshotWrite(p) \/ AnnounceDown(p)

(***************************************************************************)
(* AddNode, RemoveNode and UpdateNodeURL, with the admin handlers and the  *)
(* reload around them.  Publish(address) puts a new NodeState in the pool. *)
(***************************************************************************)
Publish(address) ==
    /\ made < MaxNodes
    /\ made' = made + 1
    /\ pool' = made + 1
    /\ node' = [node EXCEPT ![made + 1] = NewNode(address)]

Become(a, request) == adm' = [adm EXCEPT ![a] = request]
Move(a, l) == adm' = [adm EXCEPT ![a].pc = l]
Accept(a, kind) == kind \in Requests /\ adm[a].pc = "idle" /\ boot.pc = "idle"

\* what no admin step changes
restVars == <<flush, boot, world>>

\* AddNode(address), continued at label k.  A new name is published; a known
\* one with another URL is replaced, the lifecycle lock held until its rows
\* are dropped; the same URL only starts a poll.
AddNode(a, address, k) ==
    /\ life = Nobody
    /\ \/ /\ ~Exists
          /\ Publish(address)
          /\ Become(a, Request("spawn", made + 1, address, k))
          /\ UNCHANGED life
       \/ /\ Exists /\ node[pool].addr # address
          /\ Publish(address)
          /\ Become(a, Request("urlrows", made + 1, address, k))
          /\ life' = a
       \/ /\ Exists /\ node[pool].addr = address
          /\ Become(a, Request("spawn", pool, address, k))
          /\ UNCHANGED <<pool, made, node, life>>
    /\ UNCHANGED <<prev, sizes, rows, db, patch, poll, restVars>>

\* deleteWarmStateForURLChange, and the end of AddNode's lifecycle section.
DropURLRows(a) ==
    /\ adm[a].pc = "urlrows"
    /\ rows' = NoRows
    /\ life' = IF life = a THEN Nobody ELSE life
    /\ Move(a, "spawn")
    /\ UNCHANGED <<pool, made, node, prev, sizes, db, patch, poll, restVars>>

\* go r.pollNode(node), in a free slot (a bound).
SpawnPoll(a) ==
    /\ adm[a].pc = "spawn"
    /\ \E p \in Spawned : /\ poll[p].pc = "idle"
                         /\ poll' = [poll EXCEPT ![p] = PollOf(adm[a].n)]
    /\ IF adm[a].then = "idle" THEN Become(a, IdleAdmin) ELSE Move(a, adm[a].then)
    /\ UNCHANGED <<pool, made, node, prev, sizes, rows, db, life, patch, restVars>>

\* handleAddNode: the pool first, the nodes table second, no lock over both.
HandleAddNode(a) ==
    /\ Accept(a, "add")
    /\ \/ AddNode(a, made + 1, "upsert")
       \/ Exists /\ AddNode(a, node[pool].addr, "upsert")

UpsertNodeRow(a) ==
    /\ adm[a].pc = "upsert"
    /\ db' = adm[a].addr
    /\ Become(a, IdleAdmin)
    /\ UNCHANGED <<pool, made, node, prev, sizes, rows, life, patch, poll, restVars>>

\* UpdateNodeURL, which does not take the lifecycle lock.
HandlePatchURL(a) ==
    /\ Accept(a, "patch") /\ patch = Nobody /\ Exists
    /\ patch' = a
    /\ Publish(made + 1)
    /\ Become(a, Request("urlrows", made + 1, made + 1, "urldb"))
    /\ UNCHANGED <<prev, sizes, rows, db, life, poll, restVars>>

UpdateURLRow(a) ==
    /\ adm[a].pc = "urldb"
    /\ db' = IF db = NoNode THEN db ELSE adm[a].addr
    /\ patch' = Nobody
    /\ Become(a, IdleAdmin)
    /\ UNCHANGED <<pool, made, node, prev, sizes, rows, life, poll, restVars>>

\* RemoveNode under r.mu; the sweep and the row delete follow, all of it
\* inside the lifecycle lock.
RemoveNode(a) ==
    /\ life = Nobody
    /\ life' = a
    /\ pool' = NoNode
    /\ prev' = "unset"
    /\ UNCHANGED <<made, node, sizes, rows, db, poll, restVars>>

HandleRemoveNode(a) ==
    /\ Accept(a, "remove") /\ patch = Nobody
    /\ patch' = a
    /\ RemoveNode(a)
    /\ Become(a, Request("sweep", NoNode, NoNode, "delete"))

SweepSizes(a) ==
    /\ adm[a].pc = "sweep"
    /\ sizes' = {}
    /\ Move(a, "rows")
    /\ UNCHANGED <<pool, made, node, prev, rows, db, life, patch, poll, restVars>>

DeleteWarmRows(a) ==
    /\ adm[a].pc = "rows"
    /\ rows' = NoRows
    /\ life' = Nobody
    /\ IF adm[a].then = "idle" THEN Become(a, IdleAdmin) ELSE Move(a, adm[a].then)
    /\ UNCHANGED <<pool, made, node, prev, sizes, db, patch, poll, restVars>>

DeleteNodeRow(a) ==
    /\ adm[a].pc = "delete"
    /\ db' = NoNode
    /\ patch' = Nobody
    /\ Become(a, IdleAdmin)
    /\ UNCHANGED <<pool, made, node, prev, sizes, rows, life, poll, restVars>>

\* ReloadFromStore reads the nodes table, then SyncNodes the pool.
ReloadFromStore(a) ==
    /\ Accept(a, "reload")
    /\ Become(a, Request("sync", NoNode, db, "idle"))
    /\ UNCHANGED <<pool, made, node, prev, sizes, rows, db, life, patch, poll, restVars>>

\* A node that is gone from the table, or has another URL there, is removed;
\* a stored one that was missing or differed is added.
SyncNodes(a) ==
    LET have == IF Exists THEN node[pool].addr ELSE NoNode
        want == adm[a].addr IN
    /\ adm[a].pc = "sync"
    /\ \/ have = want /\ Become(a, IdleAdmin)
       \/ have # want /\ Move(a, IF have = NoNode THEN "syncadd" ELSE "syncremove")
    /\ UNCHANGED <<pool, made, node, prev, sizes, rows, db, life, patch, poll, restVars>>

SyncRemove(a) ==
    /\ adm[a].pc = "syncremove"
    /\ RemoveNode(a)
    /\ Become(a, Request("sweep", NoNode, adm[a].addr,
                         IF adm[a].addr = NoNode THEN "idle" ELSE "syncadd"))
    /\ UNCHANGED patch

SyncAdd(a) ==
    /\ adm[a].pc = "syncadd"
    /\ AddNode(a, adm[a].addr, "idle")

StartRequest(a) ==
    HandleAddNode(a) \/ HandlePatchURL(a) \/ HandleRemoveNode(a) \/ ReloadFromStore(a)

ContinueRequest(a) ==
    \/ DropURLRows(a) \/ SpawnPoll(a) \/ UpsertNodeRow(a) \/ UpdateURLRow(a)
    \/ SweepSizes(a) \/ DeleteWarmRows(a) \/ DeleteNodeRow(a)
    \/ SyncNodes(a) \/ SyncRemove(a) \/ SyncAdd(a)

(***************************************************************************)
(* FlushWarmState: the copy of the node list, of the node's models, and    *)
(* the row writes.                                                         *)
(***************************************************************************)
flushOthers == <<pool, made, node, prev, sizes, db, life, patch, poll, adm, boot, world>>

FlushStart ==
    /\ "flush" \in Background
    /\ flush.pc = "idle" /\ Exists
    /\ flush' = [pc |-> "read", n |-> pool, models |-> {}]
    /\ UNCHANGED <<rows, flushOthers>>

FlushRead ==
    /\ flush.pc = "read"
    /\ flush' = [flush EXCEPT !.pc = "write", !.models = node[flush.n].loaded]
    /\ UNCHANGED <<rows, flushOthers>>

FlushWrite ==
    /\ flush.pc = "write"
    /\ rows' = RowsWith(flush.models, node[flush.n].addr)
    /\ flush' = IdleFlush
    /\ UNCHANGED flushOthers

FlushWarmState == FlushStart \/ FlushRead \/ FlushWrite

(***************************************************************************)
(* A crash and the restart: memory is lost, the stored node is registered  *)
(* again and polled, and its residency is seeded from the rows unless a    *)
(* poll has already established it.                                        *)
(***************************************************************************)
Restart ==
    /\ \/ "crash" \in Background
       \/ "idlecrash" \in Background /\ \A a \in Admins : adm[a] = IdleAdmin
    /\ \/ /\ db # NoNode
          /\ Publish(db)
          /\ boot' = [IdleBoot EXCEPT !.pc = "read", !.n = made + 1]
          /\ \E q \in Spawned : poll' = [p \in Polls |-> IF p = q THEN PollOf(made + 1) ELSE IdlePoll]
       \/ /\ db = NoNode
          /\ pool' = NoNode /\ boot' = IdleBoot
          /\ poll' = [p \in Polls |-> IdlePoll]
          /\ UNCHANGED <<made, node>>
    /\ prev' = "unset" /\ sizes' = {}
    /\ life' = Nobody /\ patch' = Nobody
    /\ adm' = [a \in Admins |-> IdleAdmin]
    /\ flush' = IdleFlush
    /\ UNCHANGED <<rows, db, world>>

\* RestoreWarmState: the rows are read, then seeded.
RestoreRead ==
    /\ boot.pc = "read"
    /\ boot' = [boot EXCEPT !.pc = "seed", !.rows = rows]
    /\ UNCHANGED <<pool, made, node, prev, sizes, rows, db, life, patch, poll, adm, flush, world>>

Seeded(s, r) ==
    LET kept == {m \in Models : r[m] # NoNode} IN
    IF s.loaded = {} THEN [s EXCEPT !.loaded = kept, !.seeded = {r[m] : m \in kept}] ELSE s

RestoreSeed ==
    /\ boot.pc = "seed"
    /\ node' = [node EXCEPT ![boot.n] = Seeded(@, boot.rows)]
    /\ boot' = IdleBoot
    /\ UNCHANGED <<pool, made, prev, sizes, rows, db, life, patch, poll, adm, flush, world>>

RestoreWarmState == RestoreRead \/ RestoreSeed

\* The real node goes up or down and loads or unloads models.
WorldChange ==
    /\ world' \in Worlds
    /\ world' # world
    /\ UNCHANGED <<pool, made, node, prev, sizes, rows, db, life, patch, poll, adm, flush, boot>>

Next ==
    \/ Tick
    \/ \E p \in Polls : PollStep(p)
    \/ \E a \in Admins : StartRequest(a) \/ ContinueRequest(a)
    \/ FlushWarmState
    \/ Restart
    \/ RestoreWarmState
    \/ WorldChange

Spec == Init /\ [][Next]_vars

(***************************************************************************)
(* The goroutines run: a poll that was started ends (its probe has a 5 s   *)
(* timeout), the tickers fire for ever, a request that entered the router  *)
(* returns and the boot sequence finishes.  Nothing is assumed of the      *)
(* operator, of crashes or of the real node.                               *)
(***************************************************************************)
FairSpec ==
    /\ Spec
    /\ WF_vars(Tick)
    /\ \A p \in Polls : WF_vars(PollStep(p))
    /\ \A a \in Admins : WF_vars(ContinueRequest(a))
    /\ WF_vars(FlushWarmState)
    /\ WF_vars(RestoreWarmState)

(***************************************************************************)
(* Properties.                                                             *)
(***************************************************************************)
PollLabels == {"idle", "probe", "apply", "exists", "sizes", "undo", "undolock", "diff",
               "reconcile", "announce", "fail", "snapshot", "snapwrite", "down"}
AdminLabels == {"idle", "spawn", "urlrows", "upsert", "urldb", "sweep", "rows", "delete",
                "sync", "syncadd", "syncremove"}

\* Type invariant: thresholds bound the two health counters, and only an
\* unhealthy node counts successes short of the threshold.
TypeOK ==
    /\ pool \in 0 .. made /\ made \in NodeOrNone
    /\ node \in [NodeIds -> [addr : NodeOrNone, healthy : BOOLEAN,
                              failures : 0 .. FailureThreshold,
                              successes : 0 .. SuccessThreshold,
                              loaded : SUBSET Models, seeded : SUBSET NodeIds]]
    /\ prev \in {"unset", "up", "down"}
    /\ sizes \subseteq Models
    /\ rows \in [Models -> NodeOrNone]
    /\ db \in NodeOrNone
    /\ life \in Admins \cup {Nobody} /\ patch \in Admins \cup {Nobody}
    /\ poll \in [Polls -> [pc : PollLabels, n : NodeOrNone, was : SUBSET Models,
                            now : SUBSET Models, up : BOOLEAN]]
    /\ adm \in [Admins -> [pc : AdminLabels, n : NodeOrNone, addr : NodeOrNone, then : AdminLabels]]
    /\ flush \in [pc : {"idle", "read", "write"}, n : NodeOrNone, models : SUBSET Models]
    /\ boot \in [pc : {"idle", "read", "seed"}, n : NodeOrNone, rows : [Models -> NodeOrNone]]
    /\ world \in Worlds

\* A poll that races RemoveNode cannot bring prevHealthy back: a name that is
\* not in the pool has no entry (markFailure and pollNode test membership
\* under the same r.mu as the write).
NoGhostHealth == ~Exists => prev = "unset"

\* No size hint outlives its node: when the name is not in the pool, an entry
\* of lastKnownVRAM is one that a poll has yet to undo or a removal yet to
\* sweep, however the poll's check, its writes, its undo and RemoveNode
\* interleave.
NoGhostSizes ==
    ~Exists /\ sizes # {} =>
        \/ \E p \in Polls : poll[p].pc \in {"undo", "undolock"}
        \/ \E a \in Admins : adm[a].pc = "sweep"

\* The undo of a late poll, and the sweep of a removal, never wipe the sizes of
\* a node that was registered again under the name (nodeLifecycleMu).
LiveSizesKept ==
    [][~(sizes \subseteq sizes') => pool = NoNode \/ pool' # pool]_vars

\* A reachable node that stays registered is back in rotation for good, and
\* announced, whatever late polls, failures and restarts went before.
Recovers ==
    \A i \in NodeIds :
        <>[](world.reach /\ pool = i) => <>[](node[i].healthy /\ prev = "up")

\* A node that stays unreachable leaves rotation for good: a late success of
\* an earlier poll does not keep it there.
OutageDetected ==
    \A i \in NodeIds : <>[](~world.reach /\ pool = i) => <>[](~node[i].healthy)

\* Once what a node has in VRAM settles, the warm_state rows settle on exactly
\* that, although stale polls, flushes and removals write them unguarded.
RowsConverge ==
    \A i \in NodeIds : \A models \in SUBSET Models :
        <>[](world.reach /\ world.resident = models /\ pool = i) =>
            <>[](rows = [m \in Models |-> IF m \in models THEN node[i].addr ELSE NoNode])

\* What RemoveNode's row delete is for: the residency of a removed node, or of
\* an address the name has left, is not restored on the next start.
RemovedNotRestored ==
    \A i \in NodeIds : \A x \in node[i].seeded : x >= node[i].addr

\* What the router keeps of a node ends with the node: no poll that races a removal
\* leaves the health entry or the model sizes of a name that is not in the pool,
\* but for what the poll or the removal is about to undo.
NoGhosts == TypeOK /\ NoGhostHealth /\ NoGhostSizes

(***************************************************************************)
(* Worlds and symmetry for the runs: admin requests are interchangeable.   *)
(***************************************************************************)
\* Unreachable; reachable with nothing and with everything loaded.
Down == [reach |-> FALSE, resident |-> {}]
Cold == [reach |-> TRUE, resident |-> {}]
Warm == [reach |-> TRUE, resident |-> Models]
WarmOrDown == {Warm, Down}
WarmOrCold == {Warm, Cold}
Symmetry == Permutations(Admins) \cup Permutations(Spawned)
=============================================================================
