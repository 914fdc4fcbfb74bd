---------------------------- MODULE NodeDrain ----------------------------
(***************************************************************************)
(* The drain flag of one node: NodeState.Draining in memory and its row in *)
(* node_drain.  It is written by the thermal watchdog (from the local poll *)
(* of health.go and from the agent poll through thermal.go), by the admin  *)
(* handlers and by schedules (scheduler.go).  Each of them writes memory   *)
(* first and the row afterwards, and no lock spans the two writes; the     *)
(* row's write may fail, which is logged or ignored.  The boot sequence    *)
(* reads the rows.                                                         *)
(*                                                                         *)
(* The node may also be removed, registered again or given another URL,    *)
(* which replaces its NodeState (router.go).  The reason and the grace     *)
(* period travel with the flag and are left out.                           *)
(***************************************************************************)
EXTENDS Integers

CONSTANTS
    Watchdogs,   \* the poll that reads nvidia-smi and the agent poll: "local", "agent"
    Operators,   \* concurrent admin requests and the schedule runner
    MaxChurn,    \* bound: registrations, removals, URL changes and restarts in a behaviour
    BreachLimit  \* thermalBreachLimit(): hot polls in a row that drain a node

ASSUME DrainAssumption ==
    /\ BreachLimit \in Nat \ {0} /\ MaxChurn \in Nat
    /\ Watchdogs \subseteq {"local", "agent"}
    /\ Operators \cap Watchdogs = {}

Writers == Watchdogs \cup Operators

VARIABLES
    present,   \* the node is in the pool (and in the nodes table)
    draining,  \* NodeState.Draining
    breaches,  \* NodeState.ThermalBreaches, counted up to BreachLimit + 1
    row,       \* node_drain.draining for the name, FALSE without a row
    local,     \* the node's VRAMSource is the local nvidia-smi
    heat,      \* what a temperature reading shows: "hot", "cool" or "unknown"
    writer,    \* writer[w]: "idle", "drain" (decided), "set" or "clear" (row pending)
    churn,     \* registrations, removals, URL changes and restarts so far
    excused    \* history: memory and row may differ, see Crosses, SetNodeDrain and AddNode

vars == <<present, draining, breaches, row, local, heat, writer, churn, excused>>

Init ==
    /\ present = FALSE /\ draining = FALSE /\ row = FALSE
    /\ breaches = 0
    /\ local \in BOOLEAN /\ heat \in {"hot", "cool", "unknown"}
    /\ writer = [w \in Writers |-> "idle"]
    /\ churn = 0
    /\ excused = FALSE

(***************************************************************************)
(* Memory, then the row.                                                   *)
(***************************************************************************)
Pending(w) == writer[w] \in {"set", "clear"}

\* Bookkeeping for the properties: a write that starts now may cross one of
\* the other value that has not reached the store; one that meets none ends
\* any disagreement, if its own row is written.
Crosses(w, value) ==
    excused' = \/ \E v \in Writers \ {w} : Pending(v) /\ writer[v] # value
               \/ excused /\ \E v \in Writers \ {w} : Pending(v)

\* DrainNode and UndrainNode on a node that exists, the store call pending.
DrainNode(w) ==
    /\ draining' = TRUE
    /\ writer' = [writer EXCEPT ![w] = "set"]
    /\ Crosses(w, "set")
    /\ UNCHANGED <<present, breaches, row, local, heat, churn>>

UndrainNode(w) ==
    /\ draining' = FALSE
    /\ writer' = [writer EXCEPT ![w] = "clear"]
    /\ Crosses(w, "clear")
    /\ UNCHANGED <<present, breaches, row, local, heat, churn>>

\* Nobody takes the flag in memory back when the store fails.
SetNodeDrain(w) ==
    /\ Pending(w)
    /\ \/ row' = (writer[w] = "set") /\ UNCHANGED excused
       \/ excused' = TRUE /\ UNCHANGED row
    /\ writer' = [writer EXCEPT ![w] = "idle"]
    /\ UNCHANGED <<present, draining, breaches, local, heat, churn>>

(***************************************************************************)
(* The thermal watchdog.                                                   *)
(***************************************************************************)
Decides(count) == count >= BreachLimit /\ ~draining

\* A reading that is not hot ends the streak.
Cooled == 0

\* One more hot reading; the count only matters up to the limit.
Counted == IF breaches <= BreachLimit THEN breaches + 1 ELSE breaches

\* One hot or cool reading of watchdog w under n.mu, and its decision.
TrackHeat(w) ==
    LET count == IF heat = "hot" THEN Counted ELSE Cooled IN
    /\ breaches' = count
    /\ writer' = [writer EXCEPT ![w] = IF heat = "hot" /\ Decides(count) THEN "drain" ELSE "idle"]
    /\ UNCHANGED <<present, draining, row, local, heat, churn, excused>>

\* pollNode: without a fresh nvidia-smi reading nothing is counted.
LocalPoll ==
    /\ "local" \in Watchdogs /\ writer["local"] = "idle"
    /\ present /\ local /\ heat # "unknown"
    /\ TrackHeat("local")

\* trackAgentThermalLocked: an unknown reading ends the streak; nothing is
\* counted while the local nvidia-smi is the source.
AgentPoll ==
    /\ "agent" \in Watchdogs /\ writer["agent"] = "idle"
    /\ present /\ ~local
    /\ TrackHeat("agent")

\* thermalDrain: nothing is persisted for a node removed since the poll.
ThermalDrain(w) ==
    /\ writer[w] = "drain"
    /\ \/ present /\ DrainNode(w)
       \/ /\ ~present
          /\ writer' = [writer EXCEPT ![w] = "idle"]
          /\ UNCHANGED <<present, draining, breaches, row, local, heat, churn, excused>>

(***************************************************************************)
(* Operators and schedules.                                                *)
(***************************************************************************)
OperatorDrain(w) == writer[w] = "idle" /\ present /\ DrainNode(w)

OperatorUndrain(w) == writer[w] = "idle" /\ present /\ UndrainNode(w)

Churn == churn < MaxChurn /\ churn' = churn + 1

\* AddNode and RemoveNode: the node_drain row is neither read nor deleted, so
\* a leftover row disagrees with the new node until the next write or start.
AddNode ==
    /\ Churn /\ ~present
    /\ present' = TRUE /\ draining' = FALSE /\ breaches' = 0
    /\ excused' = (row \/ \E w \in Writers : Pending(w))
    /\ UNCHANGED <<row, local, heat, writer>>

RemoveNode ==
    /\ Churn /\ present
    /\ present' = FALSE /\ draining' = FALSE /\ breaches' = 0
    /\ UNCHANGED <<row, local, heat, writer, excused>>

\* Mutant: the replacement of a URL change starts undrained.
ReplaceNodeUndrained ==
    /\ Churn /\ present
    /\ breaches' = 0 /\ draining' = FALSE
    /\ UNCHANGED <<present, row, local, heat, writer, excused>>

\* A URL change: the replacement NodeState carries the flag over.
ReplaceNode ==
    /\ Churn /\ present
    /\ breaches' = 0
    /\ UNCHANGED <<present, draining, row, local, heat, writer, excused>>

\* A crash loses the pending row writes; the boot sequence drains by the rows.
Restart ==
    /\ Churn
    /\ draining' = (present /\ row)
    /\ breaches' = 0
    /\ writer' = [w \in Writers |-> "idle"]
    /\ excused' = FALSE
    /\ UNCHANGED <<present, row, local, heat>>

WorldChange ==
    /\ local' \in BOOLEAN /\ heat' \in {"hot", "cool", "unknown"}
    /\ <<local', heat'>> # <<local, heat>>
    /\ UNCHANGED <<present, draining, breaches, row, writer, churn, excused>>

Next ==
    \/ LocalPoll \/ AgentPoll
    \/ \E w \in Watchdogs : ThermalDrain(w)
    \/ \E w \in Operators : OperatorDrain(w) \/ OperatorUndrain(w)
    \/ \E w \in Writers : SetNodeDrain(w)
    \/ AddNode \/ RemoveNode \/ ReplaceNode \/ Restart
    \/ WorldChange

Spec == Init /\ [][Next]_vars

\* The two poll tickers fire for ever, and a writer that decided or changed
\* memory goes on to the store.
FairSpec ==
    /\ Spec
    /\ WF_vars(LocalPoll) /\ WF_vars(AgentPoll)
    /\ \A w \in Writers : WF_vars(SetNodeDrain(w))
    /\ \A w \in Watchdogs : WF_vars(ThermalDrain(w))

-----------------------------------------------------------------------------
\* Type invariant; the breach count stays in its range.
TypeOK ==
    /\ present \in BOOLEAN /\ draining \in BOOLEAN /\ row \in BOOLEAN
    /\ breaches \in 0 .. BreachLimit + 1
    /\ local \in BOOLEAN /\ heat \in {"hot", "cool", "unknown"}
    /\ writer \in [Writers -> {"idle", "drain", "set", "clear"}]
    /\ churn \in 0 .. MaxChurn /\ excused \in BOOLEAN

Quiet == \A w \in Writers : ~Pending(w)

\* Once no row write is pending, memory and row agree, so that a restart
\* neither undrains a node nor takes one out of rotation: whatever drains,
\* undrains, URL changes, removals and restarts came before, unless a drain
\* and an undrain crossed, a row could not be written since the last drain or
\* undrain that met no other, or the node was registered over a leftover row.
DrainAgrees == Quiet /\ present /\ ~excused => draining = row

\* A node that stays hot, to one of its two sources, is drained again after
\* every undrain: the streak is not spent by the first drain.
HotIsDrained ==
    /\ <>[](present /\ heat = "hot" /\ local) => []<>draining
    /\ <>[](present /\ heat = "hot" /\ ~local) => []<>draining

\* What thermalDrain's comment promises: the drain of a hot GPU is persisted,
\* so that no restart undrains it.
ThermalPersisted == Quiet /\ present /\ draining => row
=============================================================================
