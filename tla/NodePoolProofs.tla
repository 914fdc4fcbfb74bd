--------------------------- MODULE NodePoolProofs ---------------------------
(***************************************************************************)
(* Proofs about the node pool, for any number of NodeStates, polls, admin  *)
(* requests and models, any health thresholds, whatever background work    *)
(* and crashes there are: what the router keeps under a node's name does   *)
(* not outlive the node (NoGhosts), and the late undo of a poll never      *)
(* wipes the sizes of the node that was registered again (LiveSizesKept).  *)
(*                                                                         *)
(* Both rest on the lifecycle lock (Locked): a removal that has yet to     *)
(* sweep holds it, so the name cannot come back before the sweep.          *)
(***************************************************************************)
EXTENDS NodePool, TLAPS

-----------------------------------------------------------------------------
(* The invariant. *)

NodeRecord == [addr : NodeOrNone, healthy : BOOLEAN, failures : 0 .. FailureThreshold,
               successes : 0 .. SuccessThreshold, loaded : SUBSET Models,
               seeded : SUBSET NodeIds]
PollRecord == [pc : PollLabels, n : NodeOrNone, was : SUBSET Models, now : SUBSET Models,
               up : BOOLEAN]
AdminRecord == [pc : AdminLabels, n : NodeOrNone, addr : NodeOrNone, then : AdminLabels]

\* A node that is out of rotation has not had its successes yet.
NodeSound(s) ==
    /\ s \in NodeRecord
    /\ s.healthy \/ s.successes < SuccessThreshold

\* What runs holds a NodeState.
PollSound(q) ==
    /\ q \in PollRecord
    /\ q.pc # "idle" => q.n \in NodeIds

AdminSound(q) ==
    /\ q \in AdminRecord
    /\ q.pc \in {"spawn", "urlrows"} => q.n \in NodeIds
    /\ q.then \notin {"sweep", "rows", "spawn", "urlrows"}

NodesSound  == node \in [NodeIds -> NodeRecord] /\ \A i \in NodeIds : NodeSound(node[i])
PollsSound  == poll \in [Polls -> PollRecord] /\ \A p \in Polls : PollSound(poll[p])
AdminsSound == adm \in [Admins -> AdminRecord] /\ \A a \in Admins : AdminSound(adm[a])

\* The tickers' calls hold one, too.
TickersSound ==
    /\ flush \in [pc : {"idle", "read", "write"}, n : NodeOrNone, models : SUBSET Models]
    /\ flush.pc # "idle" => flush.n \in NodeIds
    /\ boot \in [pc : {"idle", "read", "seed"}, n : NodeOrNone, rows : [Models -> NodeOrNone]]
    /\ boot.pc # "idle" => boot.n \in NodeIds

NameSound ==
    /\ pool \in 0 .. made /\ made \in NodeOrNone
    /\ prev \in {"unset", "up", "down"} /\ sizes \subseteq Models
    /\ rows \in [Models -> NodeOrNone] /\ db \in NodeOrNone
    /\ life \in Admins \cup {Nobody} /\ patch \in Admins \cup {Nobody}
    /\ world \in Worlds

\* A removal holds the lifecycle lock until the name's rows are gone, and no node
\* is registered while it has yet to sweep.
Locked ==
    \A a \in Admins : /\ adm[a].pc \in {"sweep", "rows"} => life = a
                      /\ adm[a].pc = "sweep" => pool = NoNode

Typed == NodesSound /\ PollsSound /\ AdminsSound /\ TickersSound /\ NameSound

PoolInv == Typed /\ Locked /\ NoGhostHealth /\ NoGhostSizes

-----------------------------------------------------------------------------
(* Single records. *)

LEMMA BoundTypes ==
    /\ FailureThreshold \in Nat \ {0} /\ SuccessThreshold \in Nat \ {0} /\ MaxNodes \in Nat
    /\ Nobody \notin Admins
BY ThresholdAssumption

LEMMA NewNodeSound == \A address \in NodeOrNone : NodeSound(NewNode(address))
BY BoundTypes DEF NodeSound, NodeRecord, NewNode, NodeOrNone

LEMMA AfterSuccessSound ==
    ASSUME NEW s, NodeSound(s), NEW models \in SUBSET Models
    PROVE  NodeSound(AfterSuccess(s, models))
<1>. DEFINE counted == IF s.healthy THEN s.successes ELSE s.successes + 1
            h == s.healthy \/ counted >= SuccessThreshold
<1>1. counted \in 0 .. SuccessThreshold /\ h \in BOOLEAN
  BY BoundTypes DEF NodeSound, NodeRecord
<1>2. h \/ counted < SuccessThreshold
  BY <1>1, BoundTypes
<1>3. AfterSuccess(s, models) =
          [s EXCEPT !.loaded = models, !.failures = 0, !.successes = counted, !.healthy = h]
  BY DEF AfterSuccess
<1>. HIDE DEF counted, h
<1>4. 0 \in 0 .. FailureThreshold
  BY BoundTypes
<1>. QED
  BY <1>1, <1>2, <1>3, <1>4 DEF NodeSound, NodeRecord

LEMMA AfterFailureSound ==
    ASSUME NEW s, NodeSound(s)
    PROVE  NodeSound(AfterFailure(s))
<1>. DEFINE f == IF s.failures < FailureThreshold THEN s.failures + 1 ELSE s.failures
            h == s.healthy /\ f < FailureThreshold
<1>1. f \in 0 .. FailureThreshold /\ h \in BOOLEAN
  BY BoundTypes DEF NodeSound, NodeRecord
<1>2. 0 \in 0 .. SuccessThreshold /\ 0 < SuccessThreshold
  BY BoundTypes
<1>3. AfterFailure(s) = [s EXCEPT !.failures = f, !.successes = 0, !.healthy = h]
  BY DEF AfterFailure
<1>. HIDE DEF f, h
<1>. QED
  BY <1>1, <1>2, <1>3 DEF NodeSound, NodeRecord

LEMMA SeededSound ==
    ASSUME NEW s, NodeSound(s), NEW r \in [Models -> NodeOrNone]
    PROVE  NodeSound(Seeded(s, r))
<1>. DEFINE kept == {m \in Models : r[m] # NoNode}
            from == {r[m] : m \in kept}
<1>1. kept \subseteq Models /\ from \subseteq NodeIds
  BY BoundTypes DEF NodeOrNone, NodeIds, NoNode
<1>2. Seeded(s, r) = IF s.loaded = {} THEN [s EXCEPT !.loaded = kept, !.seeded = from] ELSE s
  BY DEF Seeded
<1>. HIDE DEF kept, from
<1>. QED
  BY <1>1, <1>2 DEF NodeSound, NodeRecord

LEMMA PollsStart ==
    /\ PollSound(IdlePoll)
    /\ \A i \in NodeIds : PollSound(PollOf(i))
<1>1. NoNode \in NodeOrNone /\ \A i \in NodeIds : i \in NodeOrNone
  BY BoundTypes DEF NodeOrNone, NodeIds, NoNode
<1>2. PollSound(IdlePoll)
  BY <1>1 DEF PollSound, PollRecord, IdlePoll, PollLabels
<1>. QED
  BY <1>1, <1>2 DEF PollSound, PollRecord, IdlePoll, PollOf, PollLabels

LEMMA AdminsStart ==
    /\ AdminSound(IdleAdmin)
    /\ \A l \in AdminLabels, i \in NodeOrNone, x \in NodeOrNone, k \in AdminLabels :
           /\ l \in {"spawn", "urlrows"} => i \in NodeIds
           /\ k \notin {"sweep", "rows", "spawn", "urlrows"}
           => AdminSound(Request(l, i, x, k))
BY BoundTypes DEF AdminSound, AdminRecord, IdleAdmin, Request, AdminLabels, NodeOrNone, NoNode

LEMMA NodesMove ==
    ASSUME NodesSound, NEW i \in NodeIds, NEW s, NodeSound(s), node' = [node EXCEPT ![i] = s]
    PROVE  NodesSound'
BY DEF NodesSound, NodeSound

LEMMA PollsMove ==
    ASSUME PollsSound, NEW p \in Polls, NEW q, PollSound(q), poll' = [poll EXCEPT ![p] = q]
    PROVE  PollsSound'
BY DEF PollsSound, PollSound

LEMMA AdminsMove ==
    ASSUME AdminsSound, NEW a \in Admins, NEW q, AdminSound(q), adm' = [adm EXCEPT ![a] = q]
    PROVE  AdminsSound'
BY DEF AdminsSound, AdminSound

\* Goto and Move keep a record sound where the label asks for no more than it has.
LEMMA PollGoes ==
    ASSUME PollsSound, NEW p \in Polls, poll[p].pc # "idle", NEW l \in PollLabels, Goto(p, l)
    PROVE  PollsSound'
<1>1. PollSound([poll[p] EXCEPT !.pc = l])
  BY DEF PollsSound, PollSound, PollRecord
<1>. QED
  BY <1>1, PollsMove DEF Goto

LEMMA AdminGoes ==
    ASSUME AdminsSound, NEW a \in Admins, NEW l \in AdminLabels, Move(a, l),
           l \in {"spawn", "urlrows"} => adm[a].n \in NodeIds
    PROVE  AdminsSound'
<1>1. AdminSound([adm[a] EXCEPT !.pc = l])
  BY DEF AdminsSound, AdminSound, AdminRecord
<1>. QED
  BY <1>1, AdminsMove DEF Move

LEMMA PoolTypes ==
    ASSUME NameSound
    PROVE  /\ pool # NoNode => pool \in NodeIds
           /\ made < MaxNodes => made + 1 \in NodeIds /\ made + 1 \in NodeOrNone
BY BoundTypes DEF NameSound, NodeIds, NodeOrNone, NoNode

-----------------------------------------------------------------------------
(* Steps keep the variables in their domains. *)

LEMMA PublishSound ==
    ASSUME NodesSound, NameSound, NEW address, Publish(address),
           address \in NodeOrNone
    PROVE  NodesSound'
<1>1. made + 1 \in NodeIds /\ NodeSound(NewNode(address))
  BY PoolTypes, NewNodeSound DEF Publish
<1>. QED
  BY <1>1, NodesMove DEF Publish

\* An address that AddNode, a URL change or a restart registers is one of a NodeState.
LEMMA Addresses ==
    ASSUME Typed
    PROVE  /\ db \in NodeOrNone
           /\ \A a \in Admins : adm[a].addr \in NodeOrNone
           /\ pool # NoNode => node[pool].addr \in NodeOrNone
           /\ made < MaxNodes => made + 1 \in NodeOrNone
<1>1. pool # NoNode => pool \in NodeIds
  BY PoolTypes DEF Typed
<1>. QED
  BY <1>1, PoolTypes DEF Typed, NameSound, AdminsSound, AdminSound, AdminRecord, NodesSound,
     NodeSound, NodeRecord

\* AddNode leaves the NodeStates sound.
LEMMA AddNodeSound ==
    ASSUME Typed, NEW a, NEW address, NEW k, AddNode(a, address, k),
           made < MaxNodes => address \in NodeOrNone
    PROVE  NodesSound'
<1>1. CASE Publish(address)
  BY <1>1, PublishSound DEF Typed, Publish
<1>2. CASE UNCHANGED node
  BY <1>2 DEF Typed, NodesSound
<1>. QED
  BY <1>1, <1>2 DEF AddNode

LEMMA StepNodes == Typed /\ [Next]_vars => NodesSound'
<1>. SUFFICES ASSUME Typed, [Next]_vars PROVE NodesSound'
  OBVIOUS
<1>1. ASSUME NEW p \in Polls, ApplySuccess(p) PROVE NodesSound'
  <2>. DEFINE i == poll[p].n
              after == AfterSuccess(node[i], poll[p].now)
  <2>1. i \in NodeIds /\ NodeSound(node[i]) /\ poll[p].now \in SUBSET Models
    BY <1>1 DEF ApplySuccess, Typed, PollsSound, PollSound, PollRecord, NodesSound
  <2>2. NodeSound(after)
    BY <2>1, AfterSuccessSound
  <2>3. node' = [node EXCEPT ![i] = after]
    BY <1>1 DEF ApplySuccess
  <2>. QED
    BY <2>1, <2>2, <2>3, NodesMove DEF Typed
<1>2. ASSUME NEW p \in Polls, MarkFailure(p) PROVE NodesSound'
  <2>. DEFINE i == poll[p].n
  <2>1. i \in NodeIds /\ NodeSound(node[i])
    BY <1>2 DEF MarkFailure, Typed, PollsSound, PollSound, PollRecord, NodesSound
  <2>2. NodeSound(AfterFailure(node[i]))
    BY <2>1, AfterFailureSound
  <2>3. node' = [node EXCEPT ![i] = AfterFailure(node[i])]
    BY <1>2 DEF MarkFailure
  <2>. QED
    BY <2>1, <2>2, <2>3, NodesMove DEF Typed
<1>3. ASSUME NEW p \in Polls,
             Probe(p) \/ CheckExists(p) \/ RecordSizes(p) \/ UndoCheck(p) \/
                UndoLocked(p) \/ PersistResidencyDiff(p) \/ ReconcileNodeResidency(p) \/
                AnnounceUp(p) \/ SnapshotRead(p) \/ SnapshotWrite(p) \/ AnnounceDown(p)
      PROVE  NodesSound'
  <2>1. UNCHANGED node
    BY <1>3 DEF Probe, otherVars, CheckExists, Goto, RecordSizes, UndoCheck, UndoLocked,
       PersistResidencyDiff, ReconcileNodeResidency, AnnounceUp, EndPoll, SnapshotRead,
       SnapshotWrite, AnnounceDown
  <2>. QED
    BY <2>1 DEF Typed, NodesSound
<1>4. ASSUME NEW a \in Admins, HandleAddNode(a) PROVE NodesSound'
  BY <1>4, Addresses, AddNodeSound DEF HandleAddNode, Exists
<1>5. ASSUME NEW a \in Admins, HandlePatchURL(a) PROVE NodesSound'
  BY <1>5, Addresses, PublishSound DEF HandlePatchURL, Publish, Typed
<1>6. ASSUME NEW a \in Admins, SyncAdd(a) PROVE NodesSound'
  BY <1>6, Addresses, AddNodeSound DEF SyncAdd
<1>7. ASSUME NEW a \in Admins,
             HandleRemoveNode(a) \/ ReloadFromStore(a) \/ DropURLRows(a) \/ SpawnPoll(a)
                \/ UpsertNodeRow(a) \/ UpdateURLRow(a) \/ SweepSizes(a) \/ DeleteWarmRows(a)
                \/ DeleteNodeRow(a) \/ SyncNodes(a) \/ SyncRemove(a)
      PROVE  NodesSound'
  <2>1. UNCHANGED node
    BY <1>7 DEF HandleRemoveNode, Accept, RemoveNode, Become, Request, restVars,
       ReloadFromStore, DropURLRows, Move, SpawnPoll, UpsertNodeRow, UpdateURLRow,
       SweepSizes, DeleteWarmRows, DeleteNodeRow, SyncNodes, SyncRemove
  <2>. QED
    BY <2>1 DEF Typed, NodesSound
<1>8. ASSUME Restart PROVE NodesSound'
  <2>1. CASE Publish(db)
    BY <2>1, Addresses, PublishSound DEF Typed
  <2>2. CASE UNCHANGED node
    BY <2>2 DEF Typed, NodesSound
  <2>. QED
    BY <1>8, <2>1, <2>2 DEF Restart
<1>9. ASSUME RestoreSeed PROVE NodesSound'
  <2>. DEFINE i == boot.n
  <2>1. i \in NodeIds /\ NodeSound(node[i]) /\ boot.rows \in [Models -> NodeOrNone]
    BY <1>9 DEF RestoreSeed, Typed, TickersSound, NodesSound
  <2>2. NodeSound(Seeded(node[i], boot.rows))
    BY <2>1, SeededSound
  <2>3. node' = [node EXCEPT ![i] = Seeded(node[i], boot.rows)]
    BY <1>9 DEF RestoreSeed
  <2>. QED
    BY <2>1, <2>2, <2>3, NodesMove DEF Typed
<1>10. ASSUME Tick \/ FlushStart \/ FlushRead \/ FlushWrite \/ RestoreRead \/ WorldChange
      PROVE  NodesSound'
  <2>1. UNCHANGED node
    BY <1>10 DEF Tick, otherVars, FlushStart, flushOthers, FlushRead, FlushWrite,
       RestoreRead, WorldChange
  <2>. QED
    BY <2>1 DEF Typed, NodesSound
<1>11. ASSUME UNCHANGED vars PROVE NodesSound'
  <2>1. UNCHANGED node
    BY <1>11 DEF vars
  <2>. QED
    BY <2>1 DEF Typed, NodesSound
<1>. QED
  BY <1>1, <1>2, <1>3, <1>4, <1>5, <1>6, <1>7, <1>8, <1>9, <1>10, <1>11 DEF Next,
     PollStep, StartRequest, ContinueRequest, FlushWarmState, RestoreWarmState

LEMMA StepPolls == Typed /\ [Next]_vars => PollsSound'
<1>. SUFFICES ASSUME Typed, [Next]_vars PROVE PollsSound'
  OBVIOUS
<1>1. ASSUME NEW p \in Polls, Probe(p) PROVE PollsSound'
  <2>. DEFINE up   == [poll[p] EXCEPT !.pc = "apply", !.now = world.resident]
              down == [poll[p] EXCEPT !.pc = "fail", !.now = {}]
  <2>1. PollSound(poll[p]) /\ poll[p].pc # "idle" /\ world.resident \in SUBSET Models
    BY <1>1, ThresholdAssumption DEF Probe, Typed, PollsSound, NameSound
  <2>2. PollSound(up) /\ PollSound(down)
    BY <2>1 DEF PollSound, PollRecord, PollLabels
  <2>3. \/ poll' = [poll EXCEPT ![p] = up]
        \/ poll' = [poll EXCEPT ![p] = down]
    BY <1>1 DEF Probe
  <2>. QED
    BY <2>2, <2>3, PollsMove DEF Typed
<1>2. ASSUME NEW p \in Polls, ApplySuccess(p) PROVE PollsSound'
  <2>. DEFINE i == poll[p].n
              h == AfterSuccess(node[i], poll[p].now).healthy
              q == [poll[p] EXCEPT !.pc = "exists", !.was = node[i].loaded, !.up = h]
  <2>1. PollSound(poll[p]) /\ i \in NodeIds /\ NodeSound(node[i])
    BY <1>2 DEF ApplySuccess, Typed, PollsSound, PollSound, PollRecord, NodesSound
  <2>2. h \in BOOLEAN /\ node[i].loaded \in SUBSET Models
    BY <2>1, AfterSuccessSound DEF PollSound, PollRecord, NodeSound, NodeRecord
  <2>3. poll' = [poll EXCEPT ![p] = q]
    BY <1>2 DEF ApplySuccess
  <2>. HIDE DEF h, i
  <2>4. PollSound(q)
    BY <2>1, <2>2 DEF PollSound, PollRecord, PollLabels, i
  <2>. QED
    BY <2>3, <2>4, PollsMove DEF Typed
<1>3. ASSUME NEW p \in Polls, CheckExists(p) PROVE PollsSound'
  BY <1>3, PollGoes DEF CheckExists, Typed, PollLabels
<1>4. ASSUME NEW p \in Polls, RecordSizes(p) PROVE PollsSound'
  BY <1>4, PollGoes DEF RecordSizes, Typed, PollLabels
<1>5. ASSUME NEW p \in Polls, UndoCheck(p) PROVE PollsSound'
  BY <1>5, PollGoes DEF UndoCheck, Typed, PollLabels
<1>6. ASSUME NEW p \in Polls, UndoLocked(p) PROVE PollsSound'
  BY <1>6, PollGoes DEF UndoLocked, Typed, PollLabels
<1>7. ASSUME NEW p \in Polls, PersistResidencyDiff(p) PROVE PollsSound'
  <2>1. PollSound(poll[p]) /\ poll[p].pc # "idle"
    BY <1>7 DEF PersistResidencyDiff, Typed, PollsSound
  <2>2. PollSound([poll[p] EXCEPT !.pc = "reconcile", !.was = {}])
    BY <2>1 DEF PollSound, PollRecord, PollLabels
  <2>3. poll' = [poll EXCEPT ![p] = [poll[p] EXCEPT !.pc = "reconcile", !.was = {}]]
    BY <1>7 DEF PersistResidencyDiff
  <2>. QED
    BY <2>2, <2>3, PollsMove DEF Typed
<1>8. ASSUME NEW p \in Polls, ReconcileNodeResidency(p) PROVE PollsSound'
  <2>1. poll[p].n \in NodeIds
    BY <1>8 DEF ReconcileNodeResidency, Typed, PollsSound, PollSound, PollRecord
  <2>2. PollSound([PollOf(poll[p].n) EXCEPT !.pc = "announce"])
    BY <2>1, PollsStart DEF PollSound, PollRecord, PollOf, IdlePoll, PollLabels
  <2>3. \/ poll' = [poll EXCEPT ![p] = [PollOf(poll[p].n) EXCEPT !.pc = "announce"]]
        \/ poll' = [poll EXCEPT ![p] = IdlePoll]
    BY <1>8 DEF ReconcileNodeResidency
  <2>. QED
    BY <2>2, <2>3, PollsStart, PollsMove DEF Typed
<1>9. ASSUME NEW p \in Polls, AnnounceUp(p) PROVE PollsSound'
  BY <1>9, PollsStart, PollsMove DEF AnnounceUp, EndPoll, Typed
<1>10. ASSUME NEW p \in Polls, MarkFailure(p) PROVE PollsSound'
  <2>1. CASE Goto(p, "snapshot")
    BY <1>10, <2>1, PollGoes DEF MarkFailure, Typed, PollLabels
  <2>2. CASE EndPoll(p)
    BY <2>2, PollsStart, PollsMove DEF EndPoll, Typed
  <2>. QED
    BY <1>10, <2>1, <2>2 DEF MarkFailure
<1>11. ASSUME NEW p \in Polls, SnapshotRead(p) PROVE PollsSound'
  <2>1. PollSound(poll[p]) /\ poll[p].pc # "idle"
        /\ node[poll[p].n].loaded \in SUBSET Models
    BY <1>11 DEF SnapshotRead, Typed, PollsSound, PollSound, PollRecord, NodesSound,
       NodeSound, NodeRecord
  <2>2. PollSound([poll[p] EXCEPT !.pc = "snapwrite", !.now = node[poll[p].n].loaded])
    BY <2>1 DEF PollSound, PollRecord, PollLabels
  <2>3. poll' = [poll EXCEPT ![p] = [poll[p] EXCEPT !.pc = "snapwrite", !.now = node[poll[p].n].loaded]]
    BY <1>11 DEF SnapshotRead
  <2>. QED
    BY <2>2, <2>3, PollsMove DEF Typed
<1>12. ASSUME NEW p \in Polls, SnapshotWrite(p) PROVE PollsSound'
  <2>1. PollSound(poll[p]) /\ poll[p].pc # "idle"
    BY <1>12 DEF SnapshotWrite, Typed, PollsSound
  <2>2. PollSound([poll[p] EXCEPT !.pc = "down", !.now = {}])
    BY <2>1 DEF PollSound, PollRecord, PollLabels
  <2>3. poll' = [poll EXCEPT ![p] = [poll[p] EXCEPT !.pc = "down", !.now = {}]]
    BY <1>12 DEF SnapshotWrite
  <2>. QED
    BY <2>2, <2>3, PollsMove DEF Typed
<1>13. ASSUME NEW p \in Polls, AnnounceDown(p) PROVE PollsSound'
  BY <1>13, PollsStart, PollsMove DEF AnnounceDown, EndPoll, Typed
<1>14. ASSUME NEW a \in Admins, SpawnPoll(a) PROVE PollsSound'
  <2>1. PICK p \in Spawned : poll' = [poll EXCEPT ![p] = PollOf(adm[a].n)]
    BY <1>14 DEF SpawnPoll
  <2>2. adm[a].n \in NodeIds
    BY <1>14 DEF SpawnPoll, Typed, AdminsSound, AdminSound, AdminRecord
  <2>. QED
    BY <2>1, <2>2, PollsStart, PollsMove DEF Typed, Polls
<1>15. ASSUME NEW a \in Admins,
             HandleAddNode(a) \/ HandlePatchURL(a) \/ HandleRemoveNode(a) \/
                ReloadFromStore(a) \/ DropURLRows(a) \/ UpsertNodeRow(a) \/ UpdateURLRow(a)
                \/ SweepSizes(a) \/ DeleteWarmRows(a) \/ DeleteNodeRow(a) \/ SyncNodes(a) \/
                SyncRemove(a) \/ SyncAdd(a)
      PROVE  PollsSound'
  <2>1. UNCHANGED poll
    BY <1>15 DEF HandleAddNode, Accept, AddNode, Publish, Become, Request, restVars,
       HandlePatchURL, HandleRemoveNode, RemoveNode, ReloadFromStore, DropURLRows, Move,
       UpsertNodeRow, UpdateURLRow, SweepSizes, DeleteWarmRows, DeleteNodeRow, SyncNodes,
       SyncRemove, SyncAdd
  <2>. QED
    BY <2>1 DEF Typed, PollsSound
<1>16. ASSUME Tick PROVE PollsSound'
  <2>1. pool \in NodeIds /\ TickPoll \in Polls
    BY <1>16, PoolTypes DEF Tick, Exists, Typed, Polls
  <2>. QED
    BY <1>16, <2>1, PollsStart, PollsMove DEF Tick, Typed
<1>17. ASSUME Restart PROVE PollsSound'
  <2>1. made < MaxNodes => PollSound(PollOf(made + 1))
    BY PoolTypes, PollsStart DEF Typed
  <2>2. CASE poll' = [p \in Polls |-> IdlePoll]
    BY <2>2, PollsStart DEF PollsSound, PollSound
  <2>3. ASSUME made < MaxNodes, NEW q \in Spawned,
               poll' = [p \in Polls |-> IF p = q THEN PollOf(made + 1) ELSE IdlePoll]
        PROVE  PollsSound'
    BY <2>1, <2>3, PollsStart DEF PollsSound, PollSound
  <2>. QED
    BY <1>17, <2>2, <2>3 DEF Restart, Publish
<1>18. ASSUME FlushStart \/ FlushRead \/ FlushWrite \/ RestoreRead \/ RestoreSeed \/
             WorldChange
      PROVE  PollsSound'
  <2>1. UNCHANGED poll
    BY <1>18 DEF FlushStart, flushOthers, FlushRead, FlushWrite, RestoreRead, RestoreSeed,
       WorldChange
  <2>. QED
    BY <2>1 DEF Typed, PollsSound
<1>19. ASSUME UNCHANGED vars PROVE PollsSound'
  <2>1. UNCHANGED poll
    BY <1>19 DEF vars
  <2>. QED
    BY <2>1 DEF Typed, PollsSound
<1>. QED
  BY <1>1, <1>2, <1>3, <1>4, <1>5, <1>6, <1>7, <1>8, <1>9, <1>10, <1>11, <1>12, <1>13,
     <1>14, <1>15, <1>16, <1>17, <1>18, <1>19 DEF Next, PollStep, StartRequest,
     ContinueRequest, FlushWarmState, RestoreWarmState

\* What AddNode continues with is sound, and it starts a poll of a NodeState.
LEMMA AddNodeMoves ==
    ASSUME Typed, NEW a \in Admins, NEW address, NEW k, AddNode(a, address, k),
           k \in {"idle", "upsert"}, made < MaxNodes => address \in NodeOrNone
    PROVE  AdminsSound'
<1>1. made < MaxNodes => made + 1 \in NodeIds /\ made + 1 \in NodeOrNone /\ address \in NodeOrNone
  BY PoolTypes DEF Typed
<1>2. pool # NoNode => pool \in NodeIds /\ pool \in NodeOrNone /\ node[pool].addr \in NodeOrNone
  BY PoolTypes, Addresses DEF Typed, NodeIds, NodeOrNone, NameSound
<1>3. k \in AdminLabels /\ {"spawn", "urlrows"} \subseteq AdminLabels
  BY DEF AdminLabels
<1>4. \A l \in {"spawn", "urlrows"} :
          made < MaxNodes => AdminSound(Request(l, made + 1, address, k))
  BY <1>1, <1>3, AdminsStart
<1>5. pool # NoNode /\ node[pool].addr = address => AdminSound(Request("spawn", pool, address, k))
  BY <1>2, <1>3, AdminsStart
<1>6. \/ \E l \in {"spawn", "urlrows"} :
            made < MaxNodes /\ adm' = [adm EXCEPT ![a] = Request(l, made + 1, address, k)]
      \/ /\ pool # NoNode /\ node[pool].addr = address
         /\ adm' = [adm EXCEPT ![a] = Request("spawn", pool, address, k)]
  BY DEF AddNode, Publish, Become, Exists
<1>. QED
  BY <1>4, <1>5, <1>6, AdminsMove DEF Typed

LEMMA StepAdmins == Typed /\ [Next]_vars => AdminsSound'
<1>. SUFFICES ASSUME Typed, [Next]_vars PROVE AdminsSound'
  OBVIOUS
<1>1. ASSUME NEW p \in Polls,
             Probe(p) \/ ApplySuccess(p) \/ CheckExists(p) \/ RecordSizes(p) \/
                UndoCheck(p) \/ UndoLocked(p) \/ PersistResidencyDiff(p) \/
                ReconcileNodeResidency(p) \/ AnnounceUp(p) \/ MarkFailure(p) \/
                SnapshotRead(p) \/ SnapshotWrite(p) \/ AnnounceDown(p)
      PROVE  AdminsSound'
  <2>1. UNCHANGED adm
    BY <1>1 DEF Probe, otherVars, ApplySuccess, CheckExists, Goto, RecordSizes, UndoCheck,
       UndoLocked, PersistResidencyDiff, ReconcileNodeResidency, AnnounceUp, EndPoll,
       MarkFailure, SnapshotRead, SnapshotWrite, AnnounceDown
  <2>. QED
    BY <2>1 DEF Typed, AdminsSound
<1>2. ASSUME NEW a \in Admins, HandleAddNode(a) PROVE AdminsSound'
  BY <1>2, Addresses, AddNodeMoves DEF HandleAddNode, Exists
<1>3. ASSUME NEW a \in Admins, HandlePatchURL(a) PROVE AdminsSound'
  <2>1. made + 1 \in NodeIds /\ made + 1 \in NodeOrNone
    BY <1>3, PoolTypes DEF HandlePatchURL, Publish, Typed
  <2>2. AdminSound(Request("urlrows", made + 1, made + 1, "urldb"))
    BY <2>1, AdminsStart DEF AdminLabels
  <2>. QED
    BY <1>3, <2>2, AdminsMove DEF HandlePatchURL, Become, Typed
<1>4. ASSUME NEW a \in Admins, HandleRemoveNode(a) PROVE AdminsSound'
  <2>1. NoNode \in NodeOrNone /\ db \in NodeOrNone /\ adm[a].addr \in NodeOrNone
    BY Addresses, BoundTypes DEF NodeOrNone, NoNode
  <2>2. AdminSound(Request("sweep", NoNode, NoNode, "delete"))
    BY <2>1, AdminsStart DEF AdminLabels
  <2>. QED
    BY <1>4, <2>2, AdminsMove DEF HandleRemoveNode, Become, Typed
<1>5. ASSUME NEW a \in Admins, ReloadFromStore(a) PROVE AdminsSound'
  <2>1. NoNode \in NodeOrNone /\ db \in NodeOrNone /\ adm[a].addr \in NodeOrNone
    BY Addresses, BoundTypes DEF NodeOrNone, NoNode
  <2>2. AdminSound(Request("sync", NoNode, db, "idle"))
    BY <2>1, AdminsStart DEF AdminLabels
  <2>. QED
    BY <1>5, <2>2, AdminsMove DEF ReloadFromStore, Become, Typed
<1>6. ASSUME NEW a \in Admins, DropURLRows(a) PROVE AdminsSound'
  BY <1>6, AdminGoes DEF DropURLRows, Typed, AdminLabels, AdminsSound, AdminSound, AdminRecord
<1>7. ASSUME NEW a \in Admins, SpawnPoll(a) PROVE AdminsSound'
  <2>1. CASE Become(a, IdleAdmin)
    BY <2>1, AdminsStart, AdminsMove DEF Become, Typed
  <2>2. CASE Move(a, adm[a].then)
    <3>1. adm[a].then \in AdminLabels /\ adm[a].then \notin {"spawn", "urlrows"}
      BY DEF Typed, AdminsSound, AdminSound, AdminRecord
    <3>. QED
      BY <2>2, <3>1, AdminGoes DEF Typed
  <2>. QED
    BY <1>7, <2>1, <2>2 DEF SpawnPoll
<1>8. ASSUME NEW a \in Admins, UpsertNodeRow(a) PROVE AdminsSound'
  BY <1>8, AdminsStart, AdminsMove DEF UpsertNodeRow, Become, Typed
<1>9. ASSUME NEW a \in Admins, UpdateURLRow(a) PROVE AdminsSound'
  BY <1>9, AdminsStart, AdminsMove DEF UpdateURLRow, Become, Typed
<1>10. ASSUME NEW a \in Admins, SweepSizes(a) PROVE AdminsSound'
  BY <1>10, AdminGoes DEF SweepSizes, Typed, AdminLabels
<1>11. ASSUME NEW a \in Admins, DeleteWarmRows(a) PROVE AdminsSound'
  <2>1. CASE Become(a, IdleAdmin)
    BY <2>1, AdminsStart, AdminsMove DEF Become, Typed
  <2>2. CASE Move(a, adm[a].then)
    <3>1. adm[a].then \in AdminLabels /\ adm[a].then \notin {"spawn", "urlrows"}
      BY DEF Typed, AdminsSound, AdminSound, AdminRecord
    <3>. QED
      BY <2>2, <3>1, AdminGoes DEF Typed
  <2>. QED
    BY <1>11, <2>1, <2>2 DEF DeleteWarmRows
<1>12. ASSUME NEW a \in Admins, DeleteNodeRow(a) PROVE AdminsSound'
  BY <1>12, AdminsStart, AdminsMove DEF DeleteNodeRow, Become, Typed
<1>13. ASSUME NEW a \in Admins, SyncNodes(a) PROVE AdminsSound'
  <2>1. CASE Become(a, IdleAdmin)
    BY <2>1, AdminsStart, AdminsMove DEF Become, Typed
  <2>2. ASSUME NEW l \in {"syncadd", "syncremove"}, Move(a, l) PROVE AdminsSound'
    BY <2>2, AdminGoes DEF Typed, AdminLabels
  <2>. QED
    BY <1>13, <2>1, <2>2 DEF SyncNodes
<1>14. ASSUME NEW a \in Admins, SyncRemove(a) PROVE AdminsSound'
  <2>1. NoNode \in NodeOrNone /\ db \in NodeOrNone /\ adm[a].addr \in NodeOrNone
    BY Addresses, BoundTypes DEF NodeOrNone, NoNode
  <2>2. AdminSound(Request("sweep", NoNode, adm[a].addr,
                          IF adm[a].addr = NoNode THEN "idle" ELSE "syncadd"))
    BY <2>1, AdminsStart DEF AdminLabels
  <2>. QED
    BY <1>14, <2>2, AdminsMove DEF SyncRemove, Become, Typed
<1>15. ASSUME NEW a \in Admins, SyncAdd(a) PROVE AdminsSound'
  BY <1>15, Addresses, AddNodeMoves DEF SyncAdd
<1>16. ASSUME Restart PROVE AdminsSound'
  BY <1>16, AdminsStart DEF Restart, AdminsSound, AdminSound
<1>17. ASSUME Tick \/ FlushStart \/ FlushRead \/ FlushWrite \/ RestoreRead \/ RestoreSeed \/
             WorldChange
      PROVE  AdminsSound'
  <2>1. UNCHANGED adm
    BY <1>17 DEF Tick, otherVars, FlushStart, flushOthers, FlushRead, FlushWrite,
       RestoreRead, RestoreSeed, WorldChange
  <2>. QED
    BY <2>1 DEF Typed, AdminsSound
<1>18. ASSUME UNCHANGED vars PROVE AdminsSound'
  <2>1. UNCHANGED adm
    BY <1>18 DEF vars
  <2>. QED
    BY <2>1 DEF Typed, AdminsSound
<1>. QED
  BY <1>1, <1>2, <1>3, <1>4, <1>5, <1>6, <1>7, <1>8, <1>9, <1>10, <1>11, <1>12, <1>13,
     <1>14, <1>15, <1>16, <1>17, <1>18 DEF Next, PollStep, StartRequest, ContinueRequest,
     FlushWarmState, RestoreWarmState

LEMMA StepTickers == Typed /\ [Next]_vars => TickersSound'
<1>. SUFFICES ASSUME Typed, [Next]_vars PROVE TickersSound'
  OBVIOUS
<1>1. ASSUME NEW p \in Polls,
             Probe(p) \/ ApplySuccess(p) \/ CheckExists(p) \/ RecordSizes(p) \/
                UndoCheck(p) \/ UndoLocked(p) \/ PersistResidencyDiff(p) \/
                ReconcileNodeResidency(p) \/ AnnounceUp(p) \/ MarkFailure(p) \/
                SnapshotRead(p) \/ SnapshotWrite(p) \/ AnnounceDown(p)
      PROVE  TickersSound'
  <2>1. UNCHANGED <<flush, boot>>
    BY <1>1 DEF Probe, otherVars, ApplySuccess, CheckExists, Goto, RecordSizes, UndoCheck,
       UndoLocked, PersistResidencyDiff, ReconcileNodeResidency, AnnounceUp, EndPoll,
       MarkFailure, SnapshotRead, SnapshotWrite, AnnounceDown
  <2>. QED
    BY <2>1 DEF Typed, TickersSound
<1>2. ASSUME NEW a \in Admins,
             HandleAddNode(a) \/ HandlePatchURL(a) \/ HandleRemoveNode(a) \/
                ReloadFromStore(a) \/ DropURLRows(a) \/ SpawnPoll(a) \/ UpsertNodeRow(a) \/
                UpdateURLRow(a) \/ SweepSizes(a) \/ DeleteWarmRows(a) \/ DeleteNodeRow(a) \/
                SyncNodes(a) \/ SyncRemove(a) \/ SyncAdd(a)
      PROVE  TickersSound'
  <2>1. UNCHANGED <<flush, boot>>
    BY <1>2 DEF HandleAddNode, Accept, AddNode, Publish, Become, Request, restVars,
       HandlePatchURL, HandleRemoveNode, RemoveNode, ReloadFromStore, DropURLRows, Move,
       SpawnPoll, UpsertNodeRow, UpdateURLRow, SweepSizes, DeleteWarmRows, DeleteNodeRow,
       SyncNodes, SyncRemove, SyncAdd
  <2>. QED
    BY <2>1 DEF Typed, TickersSound
<1>3. ASSUME FlushStart PROVE TickersSound'
  <2>1. pool \in NodeIds /\ pool \in NodeOrNone
    BY <1>3, PoolTypes DEF FlushStart, Exists, Typed, NodeIds, NodeOrNone
  <2>. QED
    BY <1>3, <2>1 DEF FlushStart, flushOthers, Typed, TickersSound
<1>4. ASSUME FlushRead PROVE TickersSound'
  <2>1. node[flush.n].loaded \in SUBSET Models
    BY <1>4 DEF FlushRead, Typed, TickersSound, NodesSound, NodeSound, NodeRecord
  <2>. QED
    BY <1>4, <2>1 DEF FlushRead, flushOthers, Typed, TickersSound
<1>5. ASSUME FlushWrite PROVE TickersSound'
  BY <1>5, BoundTypes DEF FlushWrite, flushOthers, IdleFlush, NodeOrNone, NoNode, Typed,
     TickersSound
<1>6. ASSUME Restart PROVE TickersSound'
  <2>1. IdleFlush \in [pc : {"idle", "read", "write"}, n : NodeOrNone, models : SUBSET Models]
    BY BoundTypes DEF IdleFlush, NodeOrNone, NoNode
  <2>2. IdleBoot \in [pc : {"idle", "read", "seed"}, n : NodeOrNone, rows : [Models -> NodeOrNone]]
    BY BoundTypes DEF IdleBoot, NoRows, NodeOrNone, NoNode
  <2>3. made < MaxNodes => made + 1 \in NodeIds /\ made + 1 \in NodeOrNone
    BY PoolTypes DEF Typed
  <2>4. flush' = IdleFlush
    BY <1>6 DEF Restart
  <2>5. \/ boot' = IdleBoot
        \/ made < MaxNodes /\ boot' = [IdleBoot EXCEPT !.pc = "read", !.n = made + 1]
    BY <1>6, Zenon DEF Restart, Publish
  <2>. QED
    BY <2>1, <2>2, <2>3, <2>4, <2>5 DEF TickersSound, IdleFlush, IdleBoot
<1>7. ASSUME RestoreRead PROVE TickersSound'
  BY <1>7 DEF RestoreRead, Typed, TickersSound, NameSound
<1>8. ASSUME RestoreSeed PROVE TickersSound'
  BY <1>8, BoundTypes DEF RestoreSeed, Typed, TickersSound, IdleBoot, NoRows, NodeOrNone, NoNode
<1>9. ASSUME Tick \/ WorldChange
      PROVE  TickersSound'
  <2>1. UNCHANGED <<flush, boot>>
    BY <1>9 DEF Tick, otherVars, WorldChange
  <2>. QED
    BY <2>1 DEF Typed, TickersSound
<1>10. ASSUME UNCHANGED vars PROVE TickersSound'
  <2>1. UNCHANGED <<flush, boot>>
    BY <1>10 DEF vars
  <2>. QED
    BY <2>1 DEF Typed, TickersSound
<1>. QED
  BY <1>1, <1>2, <1>3, <1>4, <1>5, <1>6, <1>7, <1>8, <1>9, <1>10 DEF Next, PollStep,
     StartRequest, ContinueRequest, FlushWarmState, RestoreWarmState

LEMMA RowTypes ==
    ASSUME NameSound
    PROVE  /\ NoRows \in [Models -> NodeOrNone]
           /\ \A models : \A x \in NodeOrNone : RowsWith(models, x) \in [Models -> NodeOrNone]
           /\ \A was, now : \A x \in NodeOrNone : ResidencyDiff(was, now, x) \in [Models -> NodeOrNone]
           /\ \A models : RowsOnly(rows, models) \in [Models -> NodeOrNone]
<1>1. NoNode \in NodeOrNone /\ rows \in [Models -> NodeOrNone]
  BY BoundTypes DEF NameSound, NodeOrNone, NoNode
<1>. QED
  BY <1>1 DEF NoRows, RowsWith, ResidencyDiff, RowsOnly

LEMMA StepName == Typed /\ [Next]_vars => NameSound'
<1>. SUFFICES ASSUME Typed, [Next]_vars PROVE NameSound'
  OBVIOUS
<1>1. ASSUME NEW p \in Polls, RecordSizes(p) PROVE NameSound'
  BY <1>1 DEF RecordSizes, Goto, otherVars, Typed, NameSound, PollsSound, PollSound, PollRecord
<1>2. ASSUME NEW p \in Polls, UndoLocked(p) PROVE NameSound'
  BY <1>2 DEF UndoLocked, Goto, otherVars, Typed, NameSound
<1>3. ASSUME NEW p \in Polls, PersistResidencyDiff(p) PROVE NameSound'
  <2>1. node[poll[p].n].addr \in NodeOrNone
    BY <1>3 DEF PersistResidencyDiff, Typed, PollsSound, PollSound, PollRecord, NodesSound,
       NodeSound, NodeRecord
  <2>2. rows' \in [Models -> NodeOrNone]
    BY <1>3, <2>1, RowTypes DEF PersistResidencyDiff, Typed
  <2>. QED
    BY <1>3, <2>2 DEF PersistResidencyDiff, otherVars, Typed, NameSound
<1>4. ASSUME NEW p \in Polls, ReconcileNodeResidency(p) PROVE NameSound'
  <2>1. rows' \in [Models -> NodeOrNone]
    BY <1>4, RowTypes DEF ReconcileNodeResidency, Typed
  <2>. QED
    BY <1>4, <2>1 DEF ReconcileNodeResidency, otherVars, Typed, NameSound
<1>5. ASSUME NEW p \in Polls, AnnounceUp(p) PROVE NameSound'
  BY <1>5 DEF AnnounceUp, EndPoll, otherVars, Typed, NameSound
<1>6. ASSUME NEW p \in Polls, SnapshotWrite(p) PROVE NameSound'
  <2>1. node[poll[p].n].addr \in NodeOrNone
    BY <1>6 DEF SnapshotWrite, Typed, PollsSound, PollSound, PollRecord, NodesSound,
       NodeSound, NodeRecord
  <2>2. rows' \in [Models -> NodeOrNone]
    BY <1>6, <2>1, RowTypes DEF SnapshotWrite, Typed
  <2>. QED
    BY <1>6, <2>2 DEF SnapshotWrite, otherVars, Typed, NameSound
<1>7. ASSUME NEW p \in Polls, AnnounceDown(p) PROVE NameSound'
  BY <1>7 DEF AnnounceDown, EndPoll, otherVars, Typed, NameSound
<1>8. ASSUME NEW p \in Polls,
             Probe(p) \/ ApplySuccess(p) \/ CheckExists(p) \/ UndoCheck(p) \/
                MarkFailure(p) \/ SnapshotRead(p)
      PROVE  NameSound'
  <2>1. UNCHANGED <<pool, made, prev, sizes, rows, db, life, patch, world>>
    BY <1>8 DEF Probe, otherVars, ApplySuccess, CheckExists, Goto, UndoCheck, MarkFailure,
       EndPoll, SnapshotRead
  <2>. QED
    BY <2>1 DEF Typed, NameSound
<1>9. ASSUME NEW a \in Admins, HandleAddNode(a) PROVE NameSound'
  BY <1>9, BoundTypes DEF HandleAddNode, Accept, AddNode, Publish, Become, Request,
     restVars, Typed, NameSound, NodeOrNone, NoNode, NodeIds, Exists
<1>10. ASSUME NEW a \in Admins, HandlePatchURL(a) PROVE NameSound'
  BY <1>10, BoundTypes DEF HandlePatchURL, Accept, Publish, Become, Request, restVars,
     Typed, NameSound, NodeOrNone, NoNode, NodeIds, Exists
<1>11. ASSUME NEW a \in Admins, HandleRemoveNode(a) PROVE NameSound'
  BY <1>11, BoundTypes DEF HandleRemoveNode, Accept, RemoveNode, Become, Request, restVars,
     Typed, NameSound, NodeOrNone, NoNode, NodeIds, Exists
<1>12. ASSUME NEW a \in Admins, DropURLRows(a) PROVE NameSound'
  BY <1>12, RowTypes DEF DropURLRows, restVars, Typed, NameSound
<1>13. ASSUME NEW a \in Admins, UpsertNodeRow(a) PROVE NameSound'
  BY <1>13, Addresses DEF UpsertNodeRow, restVars, Typed, NameSound
<1>14. ASSUME NEW a \in Admins, UpdateURLRow(a) PROVE NameSound'
  BY <1>14, Addresses DEF UpdateURLRow, restVars, Typed, NameSound
<1>15. ASSUME NEW a \in Admins, SweepSizes(a) PROVE NameSound'
  BY <1>15 DEF SweepSizes, Move, restVars, Typed, NameSound
<1>16. ASSUME NEW a \in Admins, DeleteWarmRows(a) PROVE NameSound'
  BY <1>16, RowTypes DEF DeleteWarmRows, restVars, Typed, NameSound
<1>17. ASSUME NEW a \in Admins, DeleteNodeRow(a) PROVE NameSound'
  BY <1>17, BoundTypes DEF DeleteNodeRow, Become, restVars, Typed, NameSound, NodeOrNone, NoNode
<1>18. ASSUME NEW a \in Admins, SyncRemove(a) PROVE NameSound'
  BY <1>18, BoundTypes DEF SyncRemove, RemoveNode, Become, Request, restVars, Typed,
     NameSound, NodeOrNone, NoNode, NodeIds, Exists
<1>19. ASSUME NEW a \in Admins, SyncAdd(a) PROVE NameSound'
  BY <1>19, BoundTypes DEF SyncAdd, AddNode, Publish, Become, Request, restVars, Typed,
     NameSound, NodeOrNone, NoNode, NodeIds, Exists
<1>20. ASSUME NEW a \in Admins,
             ReloadFromStore(a) \/ SpawnPoll(a) \/ SyncNodes(a)
      PROVE  NameSound'
  <2>1. UNCHANGED <<pool, made, prev, sizes, rows, db, life, patch, world>>
    BY <1>20 DEF ReloadFromStore, Accept, Become, Request, restVars, SpawnPoll, Move,
       SyncNodes
  <2>. QED
    BY <2>1 DEF Typed, NameSound
<1>21. ASSUME FlushWrite PROVE NameSound'
  <2>1. node[flush.n].addr \in NodeOrNone
    BY <1>21 DEF FlushWrite, Typed, TickersSound, PollRecord, NodesSound, NodeSound, NodeRecord
  <2>2. rows' \in [Models -> NodeOrNone]
    BY <1>21, <2>1, RowTypes DEF FlushWrite, Typed
  <2>. QED
    BY <1>21, <2>2 DEF FlushWrite, flushOthers, Typed, NameSound
<1>22. ASSUME Restart PROVE NameSound'
  BY <1>22, BoundTypes DEF Restart, Publish, Typed, NameSound, NodeOrNone, NoNode, NodeIds,
     Exists
<1>23. ASSUME WorldChange PROVE NameSound'
  BY <1>23 DEF WorldChange, Typed, NameSound
<1>24. ASSUME Tick \/ FlushStart \/ FlushRead \/ RestoreRead \/ RestoreSeed
      PROVE  NameSound'
  <2>1. UNCHANGED <<pool, made, prev, sizes, rows, db, life, patch, world>>
    BY <1>24 DEF Tick, otherVars, FlushStart, flushOthers, FlushRead, RestoreRead,
       RestoreSeed
  <2>. QED
    BY <2>1 DEF Typed, NameSound
<1>25. ASSUME UNCHANGED vars PROVE NameSound'
  <2>1. UNCHANGED <<pool, made, prev, sizes, rows, db, life, patch, world>>
    BY <1>25 DEF vars
  <2>. QED
    BY <2>1 DEF Typed, NameSound
<1>. QED
  BY <1>1, <1>2, <1>3, <1>4, <1>5, <1>6, <1>7, <1>8, <1>9, <1>10, <1>11, <1>12, <1>13,
     <1>14, <1>15, <1>16, <1>17, <1>18, <1>19, <1>20, <1>21, <1>22, <1>23, <1>24, <1>25 DEF
     Next, PollStep, StartRequest, ContinueRequest, FlushWarmState, RestoreWarmState

LEMMA StepTyped == Typed /\ [Next]_vars => Typed'
BY StepNodes, StepPolls, StepAdmins, StepTickers, StepName DEF Typed

-----------------------------------------------------------------------------
(* The lifecycle lock. *)

\* A step of one request leaves the sweep of another alone: that one holds the lock.
LEMMA LockedMoves ==
    ASSUME AdminsSound, Locked, NEW a \in Admins, NEW q, adm' = [adm EXCEPT ![a] = q],
           q.pc \in {"sweep", "rows"} => life' = a,
           q.pc = "sweep" => pool' = NoNode,
           life' = life \/ life \in {a, Nobody},
           pool' \in {pool, NoNode} \/ pool # NoNode \/ life \in {a, Nobody}
    PROVE  Locked'
<1>1. ASSUME NEW b \in Admins
      PROVE  /\ adm'[b].pc \in {"sweep", "rows"} => life' = b
             /\ adm'[b].pc = "sweep" => pool' = NoNode
  <2>1. CASE b = a
    BY <2>1 DEF AdminsSound
  <2>2. CASE b # a
    <3>1. adm'[b] = adm[b]
      BY <2>2 DEF AdminsSound
    <3>2. adm[b].pc \in {"sweep", "rows"} => life = b /\ life' = b
      BY <2>2, BoundTypes DEF Locked
    <3>3. adm[b].pc = "sweep" => pool' = NoNode
      BY <2>2, <3>2, BoundTypes DEF Locked
    <3>. QED
      BY <3>1, <3>2, <3>3
  <2>. QED
    BY <2>1, <2>2
<1>. QED
  BY <1>1 DEF Locked

LEMMA LockedGoes ==
    ASSUME AdminsSound, Locked, NEW a \in Admins, NEW l, Move(a, l), l # "sweep",
           l = "rows" => life' = a, UNCHANGED pool, life' = life \/ life \in {a, Nobody}
    PROVE  Locked'
<1>1. ([adm[a] EXCEPT !.pc = l]).pc = l
  BY DEF AdminsSound, AdminSound, AdminRecord
<1>. QED
  BY <1>1, LockedMoves DEF Move

LEMMA StepLocked == Typed /\ Locked /\ [Next]_vars => Locked'
<1>. SUFFICES ASSUME Typed /\ Locked, [Next]_vars PROVE Locked'
  OBVIOUS
<1>a. AdminsSound /\ Locked /\ NameSound
  BY DEF Typed
<1>1. ASSUME NEW p \in Polls,
             Probe(p) \/ ApplySuccess(p) \/ CheckExists(p) \/ RecordSizes(p) \/
                UndoCheck(p) \/ UndoLocked(p) \/ PersistResidencyDiff(p) \/
                ReconcileNodeResidency(p) \/ AnnounceUp(p) \/ MarkFailure(p) \/
                SnapshotRead(p) \/ SnapshotWrite(p) \/ AnnounceDown(p)
      PROVE  Locked'
  <2>1. UNCHANGED <<adm, life, pool>>
    BY <1>1 DEF Probe, otherVars, ApplySuccess, CheckExists, Goto, RecordSizes, UndoCheck,
       UndoLocked, PersistResidencyDiff, ReconcileNodeResidency, AnnounceUp, EndPoll,
       MarkFailure, SnapshotRead, SnapshotWrite, AnnounceDown
  <2>. QED
    BY <1>a, <2>1 DEF Locked
<1>2. ASSUME NEW a \in Admins, HandleAddNode(a) PROVE Locked'
  <2>1. life = Nobody /\ life' \in {a, life}
    BY <1>2 DEF HandleAddNode, AddNode
  <2>2. PICK l, i, x, k : /\ l \in {"spawn", "urlrows"}
                           /\ adm' = [adm EXCEPT ![a] = Request(l, i, x, k)]
    BY <1>2 DEF HandleAddNode, AddNode, Become
  <2>3. Request(l, i, x, k).pc \notin {"sweep", "rows"}
    BY <2>2 DEF Request
  <2>. QED
    BY <1>a, <2>1, <2>2, <2>3, LockedMoves
<1>3. ASSUME NEW a \in Admins, HandlePatchURL(a) PROVE Locked'
  BY <1>a, <1>3, LockedMoves DEF HandlePatchURL, Become, Request, Exists
<1>4. ASSUME NEW a \in Admins, HandleRemoveNode(a) PROVE Locked'
  BY <1>a, <1>4, LockedMoves DEF HandleRemoveNode, RemoveNode, Become, Request
<1>5. ASSUME NEW a \in Admins, ReloadFromStore(a) PROVE Locked'
  BY <1>a, <1>5, LockedMoves DEF ReloadFromStore, Become, Request
<1>6. ASSUME NEW a \in Admins, DropURLRows(a) PROVE Locked'
  BY <1>a, <1>6, LockedGoes DEF DropURLRows
<1>7. ASSUME NEW a \in Admins, SpawnPoll(a) PROVE Locked'
  <2>1. life' = life \/ life = a
    BY <1>a, <1>7 DEF SpawnPoll, Locked
  <2>2. CASE Become(a, IdleAdmin)
    BY <1>a, <1>7, <2>1, <2>2, LockedMoves DEF SpawnPoll, Become, IdleAdmin, Request
  <2>3. ASSUME NEW l, l \notin {"sweep", "rows"}, Move(a, l) PROVE Locked'
    BY <1>a, <1>7, <2>1, <2>3, LockedGoes DEF SpawnPoll
  <2>. QED
    BY <1>a, <1>7, <2>2, <2>3 DEF SpawnPoll, AdminsSound, AdminSound, AdminRecord
<1>8. ASSUME NEW a \in Admins, UpsertNodeRow(a) PROVE Locked'
  BY <1>a, <1>8, LockedMoves DEF UpsertNodeRow, Become, IdleAdmin, Request
<1>9. ASSUME NEW a \in Admins, UpdateURLRow(a) PROVE Locked'
  BY <1>a, <1>9, LockedMoves DEF UpdateURLRow, Become, IdleAdmin, Request
<1>10. ASSUME NEW a \in Admins, SweepSizes(a) PROVE Locked'
  BY <1>a, <1>10, LockedGoes DEF SweepSizes, Locked
<1>11. ASSUME NEW a \in Admins, DeleteWarmRows(a) PROVE Locked'
  <2>1. life' = life \/ life = a
    BY <1>a, <1>11 DEF DeleteWarmRows, Locked
  <2>2. CASE Become(a, IdleAdmin)
    BY <1>a, <1>11, <2>1, <2>2, LockedMoves DEF DeleteWarmRows, Become, IdleAdmin, Request
  <2>3. ASSUME NEW l, l \notin {"sweep", "rows"}, Move(a, l) PROVE Locked'
    BY <1>a, <1>11, <2>1, <2>3, LockedGoes DEF DeleteWarmRows
  <2>. QED
    BY <1>a, <1>11, <2>2, <2>3 DEF DeleteWarmRows, AdminsSound, AdminSound, AdminRecord
<1>12. ASSUME NEW a \in Admins, DeleteNodeRow(a) PROVE Locked'
  BY <1>a, <1>12, LockedMoves DEF DeleteNodeRow, Become, IdleAdmin, Request
<1>13. ASSUME NEW a \in Admins, SyncNodes(a) PROVE Locked'
  <2>1. life' = life \/ life = a
    BY <1>a, <1>13 DEF SyncNodes, Locked
  <2>2. CASE Become(a, IdleAdmin)
    BY <1>a, <1>13, <2>1, <2>2, LockedMoves DEF SyncNodes, Become, IdleAdmin, Request
  <2>3. ASSUME NEW l, l \notin {"sweep", "rows"}, Move(a, l) PROVE Locked'
    BY <1>a, <1>13, <2>1, <2>3, LockedGoes DEF SyncNodes
  <2>. QED
    BY <1>a, <1>13, <2>2, <2>3 DEF SyncNodes, AdminsSound, AdminSound, AdminRecord
<1>14. ASSUME NEW a \in Admins, SyncRemove(a) PROVE Locked'
  BY <1>a, <1>14, LockedMoves DEF SyncRemove, RemoveNode, Become, Request
<1>15. ASSUME NEW a \in Admins, SyncAdd(a) PROVE Locked'
  <2>1. life = Nobody /\ life' \in {a, life}
    BY <1>15 DEF SyncAdd, AddNode
  <2>2. PICK l, i, x, k : /\ l \in {"spawn", "urlrows"}
                           /\ adm' = [adm EXCEPT ![a] = Request(l, i, x, k)]
    BY <1>15 DEF SyncAdd, AddNode, Become
  <2>3. Request(l, i, x, k).pc \notin {"sweep", "rows"}
    BY <2>2 DEF Request
  <2>. QED
    BY <1>a, <2>1, <2>2, <2>3, LockedMoves
<1>16. ASSUME Restart PROVE Locked'
  BY <1>16 DEF Restart, IdleAdmin, Request, Locked
<1>17. ASSUME Tick \/ FlushStart \/ FlushRead \/ FlushWrite \/ RestoreRead \/ RestoreSeed \/
             WorldChange
      PROVE  Locked'
  <2>1. UNCHANGED <<adm, life, pool>>
    BY <1>17 DEF Tick, otherVars, FlushStart, flushOthers, FlushRead, FlushWrite,
       RestoreRead, RestoreSeed, WorldChange
  <2>. QED
    BY <1>a, <2>1 DEF Locked
<1>18. ASSUME UNCHANGED vars PROVE Locked'
  <2>1. UNCHANGED <<adm, life, pool>>
    BY <1>18 DEF vars
  <2>. QED
    BY <1>a, <2>1 DEF Locked
<1>. QED
  BY <1>1, <1>2, <1>3, <1>4, <1>5, <1>6, <1>7, <1>8, <1>9, <1>10, <1>11, <1>12, <1>13,
     <1>14, <1>15, <1>16, <1>17, <1>18 DEF Next, PollStep, StartRequest, ContinueRequest,
     FlushWarmState, RestoreWarmState

-----------------------------------------------------------------------------
(* What outlives a node. *)

LEMMA StepHealth == Typed /\ NoGhostHealth /\ [Next]_vars => NoGhostHealth'
<1>. SUFFICES ASSUME Typed /\ NoGhostHealth, [Next]_vars PROVE NoGhostHealth'
  OBVIOUS
<1>1. ASSUME NEW p \in Polls, AnnounceUp(p) PROVE NoGhostHealth'
  BY <1>1 DEF AnnounceUp, otherVars, Exists, NoGhostHealth
<1>2. ASSUME NEW p \in Polls, AnnounceDown(p) PROVE NoGhostHealth'
  BY <1>2 DEF AnnounceDown, otherVars, Exists, NoGhostHealth
<1>3. ASSUME NEW p \in Polls,
             Probe(p) \/ ApplySuccess(p) \/ CheckExists(p) \/ RecordSizes(p) \/
                UndoCheck(p) \/ UndoLocked(p) \/ PersistResidencyDiff(p) \/
                ReconcileNodeResidency(p) \/ MarkFailure(p) \/ SnapshotRead(p) \/
                SnapshotWrite(p)
      PROVE  NoGhostHealth'
  <2>1. UNCHANGED <<pool, prev>>
    BY <1>3 DEF Probe, otherVars, ApplySuccess, CheckExists, Goto, RecordSizes, UndoCheck,
       UndoLocked, PersistResidencyDiff, ReconcileNodeResidency, MarkFailure, EndPoll,
       SnapshotRead, SnapshotWrite
  <2>. QED
    BY <2>1 DEF NoGhostHealth, Exists
<1>4. ASSUME NEW a \in Admins, HandleAddNode(a) PROVE NoGhostHealth'
  BY <1>4, PoolTypes, BoundTypes DEF HandleAddNode, Accept, AddNode, Publish, Become,
     Request, restVars, Exists, NoGhostHealth, Typed, NameSound, NodeOrNone, NoNode
<1>5. ASSUME NEW a \in Admins, HandlePatchURL(a) PROVE NoGhostHealth'
  BY <1>5, PoolTypes, BoundTypes DEF HandlePatchURL, Accept, Publish, Become, Request,
     restVars, Exists, NoGhostHealth, Typed, NameSound, NodeOrNone, NoNode
<1>6. ASSUME NEW a \in Admins, HandleRemoveNode(a) PROVE NoGhostHealth'
  BY <1>6 DEF HandleRemoveNode, RemoveNode, Exists, NoGhostHealth
<1>7. ASSUME NEW a \in Admins, SyncRemove(a) PROVE NoGhostHealth'
  BY <1>7 DEF SyncRemove, RemoveNode, Exists, NoGhostHealth
<1>8. ASSUME NEW a \in Admins, SyncAdd(a) PROVE NoGhostHealth'
  BY <1>8, PoolTypes, BoundTypes DEF SyncAdd, AddNode, Publish, Become, Request, restVars,
     Exists, NoGhostHealth, Typed, NameSound, NodeOrNone, NoNode
<1>9. ASSUME NEW a \in Admins,
             ReloadFromStore(a) \/ DropURLRows(a) \/ SpawnPoll(a) \/ UpsertNodeRow(a) \/
                UpdateURLRow(a) \/ SweepSizes(a) \/ DeleteWarmRows(a) \/ DeleteNodeRow(a) \/
                SyncNodes(a)
      PROVE  NoGhostHealth'
  <2>1. UNCHANGED <<pool, prev>>
    BY <1>9 DEF ReloadFromStore, Accept, Become, Request, restVars, DropURLRows, Move,
       SpawnPoll, UpsertNodeRow, UpdateURLRow, SweepSizes, DeleteWarmRows, DeleteNodeRow,
       SyncNodes
  <2>. QED
    BY <2>1 DEF NoGhostHealth, Exists
<1>10. ASSUME Restart PROVE NoGhostHealth'
  BY <1>10 DEF Restart, NoGhostHealth
<1>11. ASSUME Tick \/ FlushStart \/ FlushRead \/ FlushWrite \/ RestoreRead \/ RestoreSeed \/
             WorldChange
      PROVE  NoGhostHealth'
  <2>1. UNCHANGED <<pool, prev>>
    BY <1>11 DEF Tick, otherVars, FlushStart, flushOthers, FlushRead, FlushWrite,
       RestoreRead, RestoreSeed, WorldChange
  <2>. QED
    BY <2>1 DEF NoGhostHealth, Exists
<1>12. ASSUME UNCHANGED vars PROVE NoGhostHealth'
  <2>1. UNCHANGED <<pool, prev>>
    BY <1>12 DEF vars
  <2>. QED
    BY <2>1 DEF NoGhostHealth, Exists
<1>. QED
  BY <1>1, <1>2, <1>3, <1>4, <1>5, <1>6, <1>7, <1>8, <1>9, <1>10, <1>11, <1>12 DEF Next,
     PollStep, StartRequest, ContinueRequest, FlushWarmState, RestoreWarmState

LEMMA GhostsSame ==
    ASSUME NoGhostSizes, UNCHANGED <<pool, sizes>>,
           \A p \in Polls : poll[p].pc \in {"undo", "undolock"} => poll'[p].pc \in {"undo", "undolock"},
           \A a \in Admins : adm[a].pc = "sweep" => adm'[a].pc = "sweep"
    PROVE  NoGhostSizes'
BY DEF NoGhostSizes, Exists

\* A step of a poll that is not at its undo, or of a request that has no sweep
\* before it, changes nothing about what is owed.
LEMMA GhostsPoll ==
    ASSUME NoGhostSizes, PollsSound, UNCHANGED <<pool, sizes, adm>>, NEW p \in Polls, NEW q,
           poll[p].pc \notin {"undo", "undolock"}, poll' = [poll EXCEPT ![p] = q]
    PROVE  NoGhostSizes'
BY GhostsSame DEF PollsSound

LEMMA GhostsAdmin ==
    ASSUME NoGhostSizes, AdminsSound, UNCHANGED <<pool, sizes>>, NEW a \in Admins, NEW q,
           adm[a].pc # "sweep", adm' = [adm EXCEPT ![a] = q],
           \A p \in Polls : poll[p].pc \in {"undo", "undolock"} => poll'[p].pc \in {"undo", "undolock"}
    PROVE  NoGhostSizes'
BY GhostsSame DEF AdminsSound

LEMMA StepSizes == Typed /\ NoGhostSizes /\ [Next]_vars => NoGhostSizes'
<1>. SUFFICES ASSUME Typed /\ NoGhostSizes, [Next]_vars PROVE NoGhostSizes'
  OBVIOUS
<1>a. PollsSound /\ AdminsSound /\ NoGhostSizes
  BY DEF Typed
<1>1. ASSUME NEW p \in Polls, Probe(p) PROVE NoGhostSizes'
  BY <1>a, <1>1, GhostsPoll DEF Probe, otherVars
<1>2. ASSUME NEW p \in Polls, ApplySuccess(p) PROVE NoGhostSizes'
  BY <1>a, <1>2, GhostsPoll DEF ApplySuccess, otherVars
<1>3. ASSUME NEW p \in Polls, CheckExists(p) PROVE NoGhostSizes'
  BY <1>a, <1>3, GhostsPoll DEF CheckExists, Goto, otherVars
<1>4. ASSUME NEW p \in Polls, RecordSizes(p) PROVE NoGhostSizes'
  <2>1. poll' = [poll EXCEPT ![p] = [poll[p] EXCEPT !.pc = "undo"]]
    BY <1>4 DEF RecordSizes, Goto
  <2>2. poll'[p].pc = "undo"
    BY <1>a, <2>1 DEF PollsSound, PollSound, PollRecord
  <2>. QED
    BY <2>2 DEF NoGhostSizes
<1>5. ASSUME NEW p \in Polls, UndoCheck(p) PROVE NoGhostSizes'
  <2>1. CASE Exists
    BY <1>5, <2>1 DEF UndoCheck, otherVars, NoGhostSizes, Exists
  <2>2. CASE ~Exists
    <3>1. poll' = [poll EXCEPT ![p] = [poll[p] EXCEPT !.pc = "undolock"]]
      BY <1>5, <2>2 DEF UndoCheck, Goto
    <3>2. poll'[p].pc = "undolock"
      BY <1>a, <3>1 DEF PollsSound, PollSound, PollRecord
    <3>. QED
      BY <3>2 DEF NoGhostSizes
  <2>. QED
    BY <2>1, <2>2
<1>6. ASSUME NEW p \in Polls, UndoLocked(p) PROVE NoGhostSizes'
  BY <1>6 DEF UndoLocked, otherVars, Exists, NoGhostSizes
<1>7. ASSUME NEW p \in Polls, PersistResidencyDiff(p) PROVE NoGhostSizes'
  BY <1>a, <1>7, GhostsPoll DEF PersistResidencyDiff, otherVars
<1>8. ASSUME NEW p \in Polls, ReconcileNodeResidency(p) PROVE NoGhostSizes'
  BY <1>a, <1>8, GhostsPoll DEF ReconcileNodeResidency, otherVars
<1>9. ASSUME NEW p \in Polls, AnnounceUp(p) PROVE NoGhostSizes'
  BY <1>a, <1>9, GhostsPoll DEF AnnounceUp, EndPoll, otherVars
<1>10. ASSUME NEW p \in Polls, MarkFailure(p) PROVE NoGhostSizes'
  BY <1>a, <1>10, GhostsPoll DEF MarkFailure, Goto, EndPoll, otherVars
<1>11. ASSUME NEW p \in Polls, SnapshotRead(p) PROVE NoGhostSizes'
  BY <1>a, <1>11, GhostsPoll DEF SnapshotRead, otherVars
<1>12. ASSUME NEW p \in Polls, SnapshotWrite(p) PROVE NoGhostSizes'
  BY <1>a, <1>12, GhostsPoll DEF SnapshotWrite, otherVars
<1>13. ASSUME NEW p \in Polls, AnnounceDown(p) PROVE NoGhostSizes'
  BY <1>a, <1>13, GhostsPoll DEF AnnounceDown, EndPoll, otherVars
<1>14. ASSUME NEW a \in Admins, HandleAddNode(a) PROVE NoGhostSizes'
  <2>1. CASE UNCHANGED <<pool, made, node, life>>
    BY <1>a, <1>14, <2>1, GhostsAdmin DEF HandleAddNode, Accept, AddNode, Become
  <2>2. ASSUME NEW address, Publish(address) PROVE NoGhostSizes'
    BY <2>2, PoolTypes, BoundTypes DEF Publish, NoGhostSizes, Exists, Typed, NameSound,
       NodeOrNone, NoNode
  <2>. QED
    BY <1>14, <2>1, <2>2 DEF HandleAddNode, AddNode
<1>15. ASSUME NEW a \in Admins, HandlePatchURL(a) PROVE NoGhostSizes'
  BY <1>15, PoolTypes, BoundTypes DEF HandlePatchURL, Publish, NoGhostSizes, Exists, Typed,
     NameSound, NodeOrNone, NoNode
<1>16. ASSUME NEW a \in Admins, HandleRemoveNode(a) PROVE NoGhostSizes'
  <2>1. adm'[a].pc = "sweep"
    BY <1>a, <1>16 DEF HandleRemoveNode, Become, Request, AdminsSound
  <2>. QED
    BY <2>1 DEF NoGhostSizes
<1>17. ASSUME NEW a \in Admins, ReloadFromStore(a) PROVE NoGhostSizes'
  BY <1>a, <1>17, GhostsAdmin DEF ReloadFromStore, Accept, Become, Request, restVars
<1>18. ASSUME NEW a \in Admins, DropURLRows(a) PROVE NoGhostSizes'
  BY <1>a, <1>18, GhostsAdmin DEF DropURLRows, Move, restVars
<1>19. ASSUME NEW a \in Admins, SpawnPoll(a) PROVE NoGhostSizes'
  <2>1. \A p \in Polls : poll[p].pc \in {"undo", "undolock"} => poll'[p] = poll[p]
    BY <1>a, <1>19 DEF SpawnPoll, PollsSound
  <2>. QED
    BY <1>a, <1>19, <2>1, GhostsAdmin DEF SpawnPoll, Become, Move, restVars
<1>20. ASSUME NEW a \in Admins, UpsertNodeRow(a) PROVE NoGhostSizes'
  BY <1>a, <1>20, GhostsAdmin DEF UpsertNodeRow, Become, restVars
<1>21. ASSUME NEW a \in Admins, UpdateURLRow(a) PROVE NoGhostSizes'
  BY <1>a, <1>21, GhostsAdmin DEF UpdateURLRow, Become, restVars
<1>22. ASSUME NEW a \in Admins, SweepSizes(a) PROVE NoGhostSizes'
  BY <1>22 DEF SweepSizes, NoGhostSizes
<1>23. ASSUME NEW a \in Admins, DeleteWarmRows(a) PROVE NoGhostSizes'
  BY <1>a, <1>23, GhostsAdmin DEF DeleteWarmRows, Become, Move, restVars
<1>24. ASSUME NEW a \in Admins, DeleteNodeRow(a) PROVE NoGhostSizes'
  BY <1>a, <1>24, GhostsAdmin DEF DeleteNodeRow, Become, restVars
<1>25. ASSUME NEW a \in Admins, SyncNodes(a) PROVE NoGhostSizes'
  BY <1>a, <1>25, GhostsAdmin DEF SyncNodes, Become, Move, restVars
<1>26. ASSUME NEW a \in Admins, SyncRemove(a) PROVE NoGhostSizes'
  <2>1. adm'[a].pc = "sweep"
    BY <1>a, <1>26 DEF SyncRemove, Become, Request, AdminsSound
  <2>. QED
    BY <2>1 DEF NoGhostSizes
<1>27. ASSUME NEW a \in Admins, SyncAdd(a) PROVE NoGhostSizes'
  <2>1. CASE UNCHANGED <<pool, made, node, life>>
    BY <1>a, <1>27, <2>1, GhostsAdmin DEF SyncAdd, Accept, AddNode, Become
  <2>2. ASSUME NEW address, Publish(address) PROVE NoGhostSizes'
    BY <2>2, PoolTypes, BoundTypes DEF Publish, NoGhostSizes, Exists, Typed, NameSound,
       NodeOrNone, NoNode
  <2>. QED
    BY <1>27, <2>1, <2>2 DEF SyncAdd, AddNode
<1>28. ASSUME Tick PROVE NoGhostSizes'
  BY <1>a, <1>28, GhostsPoll DEF Tick, otherVars, Polls
<1>29. ASSUME Restart PROVE NoGhostSizes'
  BY <1>29 DEF Restart, NoGhostSizes
<1>30. ASSUME FlushStart \/ FlushRead \/ FlushWrite \/ RestoreRead \/ RestoreSeed \/
             WorldChange
      PROVE  NoGhostSizes'
  <2>1. UNCHANGED <<pool, sizes, poll, adm>>
    BY <1>30 DEF FlushStart, flushOthers, FlushRead, FlushWrite, RestoreRead, RestoreSeed,
       WorldChange
  <2>. QED
    BY <1>a, <2>1, GhostsSame
<1>31. ASSUME UNCHANGED vars PROVE NoGhostSizes'
  <2>1. UNCHANGED <<pool, sizes, poll, adm>>
    BY <1>31 DEF vars
  <2>. QED
    BY <1>a, <2>1, GhostsSame
<1>. QED
  BY <1>1, <1>2, <1>3, <1>4, <1>5, <1>6, <1>7, <1>8, <1>9, <1>10, <1>11, <1>12, <1>13,
     <1>14, <1>15, <1>16, <1>17, <1>18, <1>19, <1>20, <1>21, <1>22, <1>23, <1>24, <1>25,
     <1>26, <1>27, <1>28, <1>29, <1>30, <1>31 DEF Next, PollStep, StartRequest,
     ContinueRequest, FlushWarmState, RestoreWarmState

-----------------------------------------------------------------------------
(* The invariant holds, and what follows from it. *)

LEMMA InitHolds == Init => PoolInv
<1>. SUFFICES ASSUME Init PROVE PoolInv
  OBVIOUS
<1>1. NodesSound
  <2>1. NoNode \in NodeOrNone
    BY BoundTypes DEF NodeOrNone, NoNode
  <2>. QED
    BY <2>1, NewNodeSound DEF Init, NodesSound, NodeSound
<1>2. PollsSound /\ AdminsSound
  BY PollsStart, AdminsStart DEF Init, PollsSound, AdminsSound, PollSound, AdminSound
<1>3. TickersSound /\ NameSound
  BY BoundTypes DEF Init, TickersSound, NameSound, IdleFlush, IdleBoot, NoRows, NodeOrNone,
     NoNode
<1>4. Locked /\ NoGhostHealth /\ NoGhostSizes
  BY DEF Init, IdleAdmin, Request, Locked, NoGhostHealth, NoGhostSizes
<1>. QED
  BY <1>1, <1>2, <1>3, <1>4 DEF PoolInv, Typed

LEMMA StepHolds == PoolInv /\ [Next]_vars => PoolInv'
BY StepTyped, StepLocked, StepHealth, StepSizes DEF PoolInv

LEMMA Invariance == Spec => []PoolInv
BY InitHolds, StepHolds, PTL DEF Spec

LEMMA NoGhostsImplied == PoolInv => NoGhosts
<1>. SUFFICES ASSUME PoolInv PROVE NoGhosts
  OBVIOUS
<1>1. node \in [NodeIds -> [addr : NodeOrNone, healthy : BOOLEAN, failures : 0 .. FailureThreshold,
                            successes : 0 .. SuccessThreshold, loaded : SUBSET Models,
                            seeded : SUBSET NodeIds]]
  BY DEF PoolInv, Typed, NodesSound, NodeSound, NodeRecord
<1>2. poll \in [Polls -> [pc : PollLabels, n : NodeOrNone, was : SUBSET Models,
                          now : SUBSET Models, up : BOOLEAN]]
  BY DEF PoolInv, Typed, PollsSound, PollSound, PollRecord
<1>3. adm \in [Admins -> [pc : AdminLabels, n : NodeOrNone, addr : NodeOrNone, then : AdminLabels]]
  BY DEF PoolInv, Typed, AdminsSound, AdminSound, AdminRecord
<1>4. TypeOK
  BY <1>1, <1>2, <1>3 DEF PoolInv, Typed, TickersSound, NameSound, TypeOK
<1>. QED
  BY <1>4 DEF PoolInv, NoGhosts

\* Sizes go away with the node only: the sweep of a removal runs before the name can
\* be registered again, and a late undo tests for it under the same lock.
LEMMA SizesKept ==
    ASSUME PoolInv, [Next]_vars, ~(sizes \subseteq sizes')
    PROVE  pool = NoNode \/ pool' # pool
<1>1. ASSUME NEW p \in Polls, PollStep(p) PROVE pool = NoNode
  <2>1. ASSUME NEW q \in Polls, UndoLocked(q) PROVE pool = NoNode
    BY <2>1 DEF UndoLocked, Exists
  <2>2. RecordSizes(p) => FALSE
    BY DEF RecordSizes
  <2>3. CASE UNCHANGED sizes
    BY <2>3
  <2>. QED
    BY <1>1, <2>1, <2>2, <2>3 DEF PollStep, Probe, otherVars, ApplySuccess, CheckExists,
       Goto, UndoCheck, PersistResidencyDiff,
      ReconcileNodeResidency, AnnounceUp, EndPoll, MarkFailure, SnapshotRead, SnapshotWrite,
      AnnounceDown
<1>2. ASSUME NEW a \in Admins, StartRequest(a) \/ ContinueRequest(a) PROVE pool = NoNode
  <2>1. ASSUME SweepSizes(a) PROVE pool = NoNode
    BY <2>1 DEF SweepSizes, PoolInv, Locked
  <2>2. CASE UNCHANGED sizes
    BY <2>2
  <2>. QED
    BY <1>2, <2>1, <2>2 DEF StartRequest, ContinueRequest, HandleAddNode, Accept, AddNode,
       Publish, Become, Request, restVars, HandlePatchURL,
      HandleRemoveNode, RemoveNode, ReloadFromStore, DropURLRows, Move, SpawnPoll,
      UpsertNodeRow, UpdateURLRow, DeleteWarmRows, DeleteNodeRow, SyncNodes, SyncRemove,
      SyncAdd
<1>3. ASSUME Restart PROVE pool = NoNode \/ pool' # pool
  BY <1>3, BoundTypes DEF Restart, Publish, PoolInv, Typed, NameSound, NodeOrNone, NoNode
<1>4. Tick \/ FlushWarmState \/ RestoreWarmState \/ WorldChange \/ UNCHANGED vars => UNCHANGED sizes
  BY DEF Tick, otherVars, FlushStart, flushOthers, FlushRead, FlushWrite, RestoreRead,
     RestoreSeed, WorldChange, FlushWarmState, RestoreWarmState, vars
<1>. QED
  BY <1>1, <1>2, <1>3, <1>4 DEF Next

\* For any number of polls, requests and NodeStates: the health entry and the sizes of
\* a name end with its node, but for what a poll or the removal has yet to undo
\* (health.go, router.go RemoveNode).
THEOREM GhostsGone == Spec => []NoGhosts
BY Invariance, NoGhostsImplied, PTL

\* The sweep of a removal and the undo of a late poll spare the sizes of a node that
\* was registered again (nodeLifecycleMu).
THEOREM SizesOutlivePolls == Spec => LiveSizesKept
<1>1. PoolInv /\ [Next]_vars => [~(sizes \subseteq sizes') => pool = NoNode \/ pool' # pool]_vars
  BY SizesKept
<1>. QED
  BY <1>1, Invariance, PTL DEF Spec, LiveSizesKept

=============================================================================
