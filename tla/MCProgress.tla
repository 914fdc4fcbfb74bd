----------------------------- MODULE MCProgress -----------------------------
(* The parts with work that must end, side by side: each behaviour exercises *)
(* the one part `focus` names while the others rest.  They share no state    *)
(* here, so one run checks their safety, their progress and the refinement   *)
(* of the audit log.                                                         *)
EXTENDS NodeDrain, AgentPoll, AuditLog, ModelJobs, CloudStream

VARIABLE focus

progressVars == <<focus, vars, agentVars, auditVars, jobVars, streamVars>>

-----------------------------------------------------------------------------
(* Constants. *)

\* A node with its VRAM read locally, nothing declared.
MCNodeKinds == {<<TRUE, FALSE>>}

\* The two nodes form one replica, of which "a" is the head.
MCReplicaOf == [n \in JobNodes |-> JobNodes]
MCReplicaHead == [n \in JobNodes |-> "a"]

-----------------------------------------------------------------------------
(* One part at a time. *)

ProgressInit ==
    /\ focus \in {"drain", "agent", "audit", "jobs", "stream"}
    /\ Init /\ (focus # "drain" => local /\ heat = "cool")
    /\ AgentInit /\ (focus # "agent" => \A h \in Hosts : agentWorld[h].answer = "silent")
    /\ AuditInit /\ (focus # "audit" => enabled)
    /\ JobsInit /\ (focus # "jobs" => files = {})
    /\ StreamInit
    /\ focus # "stream" => via = [provider |-> "openai", path |-> "/api/tags", stream |-> FALSE,
                                  mode |-> "body"]

\* The parts other than p rest.
Only(p) ==
    /\ focus = p
    /\ UNCHANGED focus
    /\ IF p = "drain" THEN TRUE ELSE UNCHANGED vars
    /\ IF p = "agent" THEN TRUE ELSE UNCHANGED agentVars
    /\ IF p = "audit" THEN TRUE ELSE UNCHANGED auditVars
    /\ IF p = "jobs" THEN TRUE ELSE UNCHANGED jobVars
    /\ IF p = "stream" THEN TRUE ELSE UNCHANGED streamVars

ProgressNext ==
    \/ Only("drain") /\ Next
    \/ Only("agent") /\ AgentNext
    \/ Only("audit") /\ AuditNext
    \/ Only("jobs") /\ JobsNext
    \/ Only("stream") /\ StreamNext

\* The fairness each module states, for the behaviours of its part.
ProgressFairness ==
    /\ WF_vars(focus = "drain" /\ LocalPoll) /\ WF_vars(focus = "drain" /\ AgentPoll)
    /\ \A w \in Writers : WF_vars(focus = "drain" /\ SetNodeDrain(w))
    /\ \A w \in Watchdogs : WF_vars(focus = "drain" /\ ThermalDrain(w))
    /\ WF_agentVars(focus = "agent" /\ StartCycle)
    /\ WF_agentVars(focus = "agent" /\ CycleStep)
    /\ WF_auditVars(focus = "audit" /\ Writer)
    /\ \A e \in Entries : WF_auditVars(focus = "audit" /\ (CheckAndSend(e) \/ RecordDrop(e)))
    /\ \A c \in Closers : WF_auditVars(focus = "audit" /\ (SignalDone(c) \/ CloseReturns(c)))
    /\ \A j \in JobIds : WF_jobVars(focus = "jobs" /\ Goroutine(j))
    /\ \A j \in JobIds : WF_jobVars(focus = "jobs" /\ AgentKillsDownload(j))
    /\ WF_streamVars(focus = "stream" /\ StreamSystem)
    /\ WF_streamVars(focus = "stream" /\ ProviderStops)

ProgressSpec == ProgressInit /\ [][ProgressNext]_progressVars /\ ProgressFairness

-----------------------------------------------------------------------------
\* The records of a node agree with what lasts, its VRAM figure with an agent that
\* is present; and the audit log's books balance: an entry is a row, on its way, or
\* a counted drop, and none is left behind by Close.
RecordsTrue ==
    /\ focus = "drain" => TypeOK
    /\ focus = "agent" => AgentTypeOK /\ AgentVRAMBacked
    /\ focus = "audit" => AuditTypeOK /\ NothingStranded /\ DropsCounted

\* A client is told that an answer is whole only if it is.
AnswersWhole == focus = "stream" => DoneMeansWhole /\ WholeIsKept

\* A hot node is drained again, the records of the nodes converge on what their
\* agents say.
NodesSettle == HotIsDrained /\ AgentsConverge

\* Every accepted entry is settled, Close returns, every pull and its download
\* end, and the goroutines of a stream return.
WorkEnds == AcceptedIsSettled /\ CloseEnds /\ PullsEnd /\ GoroutinesReturn
=============================================================================
