----------------------------- MODULE AgentPoll -----------------------------
(***************************************************************************)
(* The poll of the host agents (internal/router/agent_poll.go), the host   *)
(* evidence it records (host_evidence.go) and the part of the health poll  *)
(* that shares a node's VRAM source with it (health.go).                   *)
(*                                                                         *)
(* One cycle at a time runs (agentPollInFlight).  It takes a snapshot of   *)
(* the nodes and of the configured agents under r.mu and then works on the *)
(* snapshot, one lock at a time, while the admin API registers, replaces   *)
(* and removes nodes and switches agents on and off, and while the health  *)
(* poll writes the same node records.  Hosts are polled in parallel.       *)
(*                                                                         *)
(* A node record is an object with an identity: a URL change makes a new   *)
(* one (replacementNodeState), and the cycle may still hold the old one.   *)
(***************************************************************************)
EXTENDS Naturals

CONSTANTS
    Hosts,              \* bare host names the nodes live on
    Names,              \* node names
    RuntimeIds,         \* identities of the runtimes an agent reports
    NodeKinds,          \* <<local GPU, VRAM declared>> pairs a node may have
    Certificates,       \* certificates an agent may present, other than CA-signed
    Ports,              \* ports of runtimes and of node URLs
    MaxNodeObjects,     \* bound on the node records ever made
    AgentThreshold,     \* healthFailureThreshold
    MaxWorldChanges,    \* bound on the changes of agents and runtimes
    MaxAgentEdits       \* bound on the operator's requests

ASSUME AgentPollAssumption ==
    /\ Hosts # {} /\ Names # {} /\ NodeKinds \subseteq BOOLEAN \X BOOLEAN
    /\ AgentThreshold \in Nat \ {0}
    /\ MaxNodeObjects \in Nat \ {0}

Objects == 1 .. MaxNodeObjects
NoPort == 0
NoId == "none"
Sources == {"nvidia", "agent", "declared", "api", "none"}
NoPin == "nopin"
CaSigned == "ca"
\* What a host's agent answers: a report, one too large to read, no answer or one
\* that is no agent report (looksLikeAgentReport).
Answers == {"report", "oversize", "silent", "foreign"}
\* Whether the GPU block of a report carries VRAM figures: a missing block, one
\* without devices and one without figures all count as none.
GpuBlocks == {"none", "vram"}

VARIABLES
    fleet,      \* r.nodes: the registered node records
    objects,    \* how many node records were made
    agentNode,  \* the agent-derived fields of every node record
    agentsOn,   \* r.marborAgents: hosts with an enabled agent
    prevAgent,  \* r.prevAgentPresent by name: "unseen", "up", "down"
    evidence,   \* r.hostEvidence: hosts with a recorded report
    cycle,      \* the running poll cycle
    member,     \* per host, the goroutine that polls it
    agentWorld, \* what each host's agent answers and where its runtimes listen
    agentSpent  \* world changes and operator requests used up

agentVars == <<fleet, objects, agentNode, agentsOn, prevAgent, evidence, cycle,
               member, agentWorld, agentSpent>>

FreshNode(nm, h, p, gpu, decl, src, fp) ==
    [name |-> nm, host |-> h, port |-> p, local |-> gpu, declared |-> decl,
     source |-> src, fingerprint |-> fp, present |-> FALSE, failures |-> 0, stale |-> FALSE,
     unknown |-> FALSE, mismatch |-> FALSE, live |-> FALSE, detected |-> FALSE,
     pin |-> NoId, polled |-> FALSE]

IdleHost == [pc |-> "idle", left |-> {}, at |-> 1, answer |-> "silent",
             runtimes |-> [r \in RuntimeIds |-> NoPort], gpu |-> "none"]
IdleCycle == [pc |-> "idle", clear |-> {}, groups |-> [h \in Hosts |-> {}]]

AgentInit ==
    /\ fleet = {}
    /\ objects = 0
    /\ agentNode = [o \in Objects |->
                      FreshNode(CHOOSE nm \in Names : TRUE, CHOOSE h \in Hosts : TRUE,
                                NoPort, FALSE, FALSE, "none", NoPin)]
    /\ agentsOn = {}
    /\ prevAgent = [nm \in Names |-> "unseen"]
    /\ evidence = {}
    /\ cycle = IdleCycle
    /\ member = [h \in Hosts |-> IdleHost]
    /\ \E w \in [Hosts -> {"silent", "report"}] :
         agentWorld = [h \in Hosts |-> [answer |-> w[h], gpu |-> "vram", cert |-> CaSigned,
                                        runtimes |-> [r \in RuntimeIds |-> NoPort]]]
    /\ agentSpent = [world |-> 0, edits |-> 0]

ByName(nm) == {o \in fleet : agentNode[o].name = nm}

-----------------------------------------------------------------------------
\* What the handlers do to one node record, each under the record's lock.

\* fallBackAgentVRAM: an agent figure gives way to the declared one, or none.
FallBackAgentVRAM(n) == [n EXCEPT !.source = IF n.declared THEN "declared" ELSE "none"]
DropAgentVRAM(n) == IF n.source = "agent" THEN FallBackAgentVRAM(n) ELSE n

\* clearLiveReadings: every per-poll reading.
ClearLiveReadings(n) == [n EXCEPT !.live = FALSE]

\* clearAgentTelemetry forgets presence, identity, the pin and every reading,
\* but neither the stale nor the mismatch flag.
ClearAgentTelemetry(n) ==
    DropAgentVRAM([ClearLiveReadings(n) EXCEPT
        !.failures = 0, !.present = FALSE, !.unknown = FALSE, !.detected = FALSE, !.pin = NoId])

\* applyOversizeTelemetry: present, but no reading can be trusted.
ApplyOversizeTelemetry(n) ==
    DropAgentVRAM([ClearLiveReadings(n) EXCEPT
        !.failures = 0, !.present = TRUE, !.stale = FALSE, !.unknown = TRUE])

\* matchRuntime: the pinned runtime while it is still reported, else the one on
\* the node's own port, else none.
MatchRuntime(n, runtimes) ==
    LET onPort == {r \in RuntimeIds : runtimes[r] # NoPort /\ runtimes[r] = n.port} IN
    CASE n.pin # NoId /\ runtimes[n.pin] # NoPort -> n.pin
      [] (n.pin = NoId \/ runtimes[n.pin] = NoPort) /\ onPort # {}
           -> CHOOSE r \in onPort : TRUE
      [] OTHER -> NoId

\* matchDeploymentForHost: a report of the pinned runtime or of the node's port.
MatchDeployment(n, runtimes) ==
    \/ n.pin # NoId /\ runtimes[n.pin] # NoPort
    \/ \E r \in RuntimeIds : runtimes[r] # NoPort /\ runtimes[r] = n.port

\* The GPU block: the agent's figures count only without a local nvidia-smi, and
\* a block with no figures ends an earlier agent figure.
ReportedVRAM(n, gpu) ==
    CASE n.source = "nvidia" -> n
      [] n.source # "nvidia" /\ gpu = "vram" -> [n EXCEPT !.source = "agent"]
      [] OTHER -> DropAgentVRAM(n)

\* The runtime entry pins its identity, or the pin goes with it; the deployment
\* report is matched by the pin the node had before.
ReportedRuntime(n, runtimes) ==
    [n EXCEPT !.pin = MatchRuntime(n, runtimes), !.detected = MatchDeployment(n, runtimes)]

\* applyAgentTelemetryLocked: one critical section decides the VRAM source and
\* the runtime pin and writes them.
ApplyAgentTelemetry(n, runtimes, gpu) ==
    LET seen == [n EXCEPT !.failures = 0, !.present = TRUE, !.stale = FALSE,
                          !.unknown = FALSE, !.live = TRUE] IN
    ReportedRuntime(ReportedVRAM(seen, gpu), runtimes)

\* The VRAM branch of pollNode: a local GPU reading wins, and an agent's figure
\* is left alone.
HealthVRAM(n, hasGPU, psUsed) ==
    CASE hasGPU -> [n EXCEPT !.source = "nvidia"]
      [] ~hasGPU /\ n.source # "agent" ->
           [n EXCEPT !.source = CASE n.declared -> "declared"
                                  [] ~n.declared /\ psUsed -> "api"
                                  [] OTHER -> "none"]
      [] OTHER -> n

UpdateNode(o, n) == agentNode' = [agentNode EXCEPT ![o] = n]

-----------------------------------------------------------------------------
\* pollAgentHosts: the snapshot under r.mu, and the nodes without an agent.

StartCycle ==
    /\ cycle.pc = "idle"
    /\ LET on(o) == agentNode[o].host \in agentsOn IN
       /\ cycle' = [pc |-> "clear", clear |-> {o \in fleet : ~on(o)},
                    groups |-> [h \in Hosts |-> {o \in fleet : on(o) /\ agentNode[o].host = h}]]
    /\ UNCHANGED <<fleet, objects, agentNode, agentsOn, prevAgent, evidence, member,
                   agentWorld, agentSpent>>

\* A node whose host has no agent: readings and both flags go, then the entry
\* of prevAgentPresent under r.mu.
ClearUngrouped(o) ==
    /\ cycle.pc = "clear" /\ o \in cycle.clear
    /\ UpdateNode(o, [ClearAgentTelemetry(agentNode[o]) EXCEPT !.stale = FALSE,
                                                               !.mismatch = FALSE,
                                                               !.polled = TRUE])
    /\ prevAgent' = [prevAgent EXCEPT ![agentNode[o].name] = "unseen"]
    /\ cycle' = [cycle EXCEPT !.clear = @ \ {o}]
    /\ UNCHANGED <<fleet, objects, agentsOn, evidence, member, agentWorld, agentSpent>>

\* One goroutine per host with members.
StartHosts ==
    /\ cycle.pc = "clear" /\ cycle.clear = {}
    /\ cycle' = [cycle EXCEPT !.pc = "poll"]
    /\ member' = [h \in Hosts |->
                    IF cycle.groups[h] = {} THEN IdleHost
                    ELSE [IdleHost EXCEPT !.pc = "ask", !.left = cycle.groups[h]]]
    /\ UNCHANGED <<fleet, objects, agentNode, agentsOn, prevAgent, evidence, agentWorld,
                   agentSpent>>

\* pinnedFingerprintFor, at dial time and not from the snapshot: the pins of the
\* nodes registered on the host now, none once its agent is switched off.
PinsOf(h) ==
    {agentNode[o].fingerprint : o \in {i \in fleet : agentNode[i].host = h /\ h \in agentsOn}}
      \ {NoPin}

\* dialTLSContext: two pins are refused, one must match, none leaves the
\* ordinary verification.
Dial(h) ==
    LET cert == agentWorld[h].cert IN
    CASE \E p, q \in PinsOf(h) : p # q -> "refused"
      [] PinsOf(h) = {} -> IF cert = CaSigned THEN "connected" ELSE "refused"
      [] OTHER -> IF PinsOf(h) = {cert} THEN "connected" ELSE "mismatch"

\* pollAgentHost: the request, bounded by its five seconds, and its answer.
AskAgent(h) ==
    /\ member[h].pc = "ask"
    /\ LET got == IF Dial(h) = "connected" THEN agentWorld[h].answer ELSE Dial(h) IN
       member' = [member EXCEPT ![h] = [@ EXCEPT
                    !.pc = CASE got = "report" -> "record"
                             [] got = "oversize" -> "forget"
                             [] OTHER -> "failed",
                    !.answer = got,
                    !.runtimes = agentWorld[h].runtimes, !.gpu = agentWorld[h].gpu]]
    /\ UNCHANGED <<fleet, objects, agentNode, agentsOn, prevAgent, evidence, cycle,
                   agentWorld, agentSpent>>

\* RecordHostEvidence before any member is updated; dropHostEvidenceOnly for a
\* reply that is too large.
RecordHostEvidence(h) ==
    /\ member[h].pc = "record"
    /\ evidence' = evidence \cup {h}
    /\ member' = [member EXCEPT ![h].pc = "apply"]
    /\ UNCHANGED <<fleet, objects, agentNode, agentsOn, prevAgent, cycle, agentWorld,
                   agentSpent>>

DropHostEvidenceOnly(h) ==
    /\ member[h].pc = "forget"
    /\ evidence' = evidence \ {h}
    /\ member' = [member EXCEPT ![h].pc = "apply"]
    /\ UNCHANGED <<fleet, objects, agentNode, agentsOn, prevAgent, cycle, agentWorld,
                   agentSpent>>

\* One member: the mismatch flag, the telemetry, then agentReachable.
ApplyToMember(h, o) ==
    /\ member[h].pc = "apply" /\ o \in member[h].left
    /\ LET n == [agentNode[o] EXCEPT !.mismatch = FALSE, !.polled = TRUE] IN
       UpdateNode(o, IF member[h].answer = "report"
                     THEN ApplyAgentTelemetry(n, member[h].runtimes, member[h].gpu)
                     ELSE ApplyOversizeTelemetry(n))
    /\ member' = [member EXCEPT ![h] = [@ EXCEPT !.pc = "reachable", !.at = o,
                                             !.left = member[h].left \ {o}]]
    /\ UNCHANGED <<fleet, objects, agentsOn, prevAgent, evidence, cycle, agentWorld, agentSpent>>

\* agentReachable writes by name, and only for a name that is still registered.
AgentReachable(h) ==
    /\ member[h].pc = "reachable"
    /\ LET nm == agentNode[member[h].at].name IN
       prevAgent' = IF ByName(nm) # {} THEN [prevAgent EXCEPT ![nm] = "up"] ELSE prevAgent
    /\ member' = [member EXCEPT ![h].pc = "apply"]
    /\ UNCHANGED <<fleet, objects, agentNode, agentsOn, evidence, cycle, agentWorld, agentSpent>>

\* agentUnreachable: the failure is counted; at the threshold the evidence of
\* the node's host goes, the telemetry is cleared and the node is stale.
AgentUnreachable(h, o) ==
    /\ member[h].pc = "failed" /\ o \in member[h].left
    /\ LET n == [agentNode[o] EXCEPT !.mismatch = (member[h].answer = "mismatch"),
                                     !.failures = @ + 1]
           dark == n.failures >= AgentThreshold
           nm == n.name IN
       /\ UpdateNode(o, IF dark THEN [ClearAgentTelemetry(n) EXCEPT !.stale = TRUE, !.polled = TRUE]
                        ELSE n)
       /\ evidence' = IF dark THEN evidence \ {n.host} ELSE evidence
       /\ prevAgent' = IF dark /\ ByName(nm) # {} /\ prevAgent[nm] = "up"
                       THEN [prevAgent EXCEPT ![nm] = "down"] ELSE prevAgent
       /\ member' = [member EXCEPT ![h].left = @ \ {o}]
    /\ UNCHANGED <<fleet, objects, agentsOn, cycle, agentWorld, agentSpent>>

HostDone(h) ==
    /\ member[h].pc \in {"apply", "failed"} /\ member[h].left = {}
    /\ member' = [member EXCEPT ![h] = IdleHost]
    /\ UNCHANGED <<fleet, objects, agentNode, agentsOn, prevAgent, evidence, cycle,
                   agentWorld, agentSpent>>

\* After wg.Wait: dropHostEvidenceNotIn(groups).
EndCycleKeeping ==
    /\ cycle.pc = "poll" /\ \A h \in Hosts : member[h].pc = "idle"
    /\ cycle' = IdleCycle
    /\ UNCHANGED <<fleet, objects, agentNode, agentsOn, prevAgent, evidence, member,
                   agentWorld, agentSpent>>
EndCycle ==
    /\ cycle.pc = "poll" /\ \A h \in Hosts : member[h].pc = "idle"
    /\ evidence' = {h \in evidence : cycle.groups[h] # {}}
    /\ cycle' = IdleCycle
    /\ UNCHANGED <<fleet, objects, agentNode, agentsOn, prevAgent, member, agentWorld,
                   agentSpent>>

CycleStep ==
    \/ \E o \in Objects : ClearUngrouped(o)
    \/ StartHosts \/ EndCycle
    \/ \E h \in Hosts : \/ AskAgent(h) \/ RecordHostEvidence(h) \/ DropHostEvidenceOnly(h)
                        \/ AgentReachable(h) \/ HostDone(h)
                        \/ \E o \in Objects : ApplyToMember(h, o) \/ AgentUnreachable(h, o)

-----------------------------------------------------------------------------
\* The health poll writes the VRAM source of a registered node.
HealthPoll(o) ==
    /\ o \in fleet
    /\ \E hasGPU \in (IF agentNode[o].local THEN BOOLEAN ELSE {FALSE}), psUsed \in BOOLEAN :
         UpdateNode(o, HealthVRAM(agentNode[o], hasGPU, psUsed))
    /\ UNCHANGED <<fleet, objects, agentsOn, prevAgent, evidence, cycle, member, agentWorld,
                   agentSpent>>

\* The operator.
Edit == agentSpent' = [agentSpent EXCEPT !.edits = @ + 1]
MayEdit == agentSpent.edits < MaxAgentEdits

\* AddNode of a new name.
RegisterNode(nm, h, p, kind, fp) ==
    /\ MayEdit /\ Edit /\ objects < MaxNodeObjects /\ ByName(nm) = {}
    /\ objects' = objects + 1
    /\ fleet' = fleet \cup {objects'}
    /\ UpdateNode(objects', FreshNode(nm, h, p, kind[1], kind[2],
                                     IF kind[2] THEN "declared" ELSE "none", fp))
    /\ UNCHANGED <<agentsOn, prevAgent, evidence, cycle, member, agentWorld>>

\* AddNode or PatchNode with another URL: a new record that keeps the VRAM
\* source of the old one and none of its agent fields.
ReplacePolled(o, h, p) ==
    /\ MayEdit /\ Edit /\ objects < MaxNodeObjects /\ o \in fleet
    /\ <<h, p>> # <<agentNode[o].host, agentNode[o].port>>
    /\ objects' = objects + 1
    /\ fleet' = (fleet \ {o}) \cup {objects'}
    /\ LET old == agentNode[o] IN
       UpdateNode(objects', FreshNode(old.name, h, p, old.local, old.declared, old.source,
                                     old.fingerprint))
    /\ UNCHANGED <<agentsOn, prevAgent, evidence, cycle, member, agentWorld>>

\* RemoveNode: the last node of a host takes the host's agent setting with it.
RemovePolled(o) ==
    /\ MayEdit /\ Edit /\ o \in fleet
    /\ fleet' = fleet \ {o}
    /\ prevAgent' = [prevAgent EXCEPT ![agentNode[o].name] = "unseen"]
    /\ agentsOn' = IF \E i \in fleet' : agentNode[i].host = agentNode[o].host
                   THEN agentsOn ELSE agentsOn \ {agentNode[o].host}
    /\ UNCHANGED <<objects, agentNode, evidence, cycle, member, agentWorld>>

\* SetMarborAgent.
SetMarborAgent(h) ==
    /\ MayEdit /\ Edit
    /\ agentsOn' = IF h \in agentsOn THEN agentsOn \ {h} ELSE agentsOn \cup {h}
    /\ UNCHANGED <<fleet, objects, agentNode, prevAgent, evidence, cycle, member, agentWorld>>

\* The world: an agent starts, stops, or reports something else.
AgentChanges(h) ==
    /\ agentSpent.world < MaxWorldChanges
    /\ agentSpent' = [agentSpent EXCEPT !.world = @ + 1]
    /\ \E a \in Answers, g \in GpuBlocks, c \in Certificates \cup {CaSigned},
          rs \in [RuntimeIds -> Ports \cup {NoPort}] :
         /\ \A r, s \in RuntimeIds : r # s /\ rs[r] = rs[s] => rs[r] = NoPort
         /\ a # "report" => /\ g = "none" /\ rs = agentWorld[h].runtimes
                            /\ c = agentWorld[h].cert
         /\ agentWorld' = [agentWorld EXCEPT ![h] = [answer |-> a, gpu |-> g, cert |-> c,
                                                            runtimes |-> rs]]
    /\ UNCHANGED <<fleet, objects, agentNode, agentsOn, prevAgent, evidence, cycle, member>>

Operator ==
    \/ \E nm \in Names, h \in Hosts, p \in Ports, kind \in NodeKinds,
          fp \in Certificates \cup {NoPin} : RegisterNode(nm, h, p, kind, fp)
    \/ \E o \in fleet : RemovePolled(o) \/ \E h \in Hosts, p \in Ports : ReplacePolled(o, h, p)
    \/ \E h \in Hosts : SetMarborAgent(h)

AgentNext ==
    \/ StartCycle \/ CycleStep \/ Operator
    \/ \E o \in Objects : HealthPoll(o)
    \/ \E h \in Hosts : AgentChanges(h)

AgentSpec == AgentInit /\ [][AgentNext]_agentVars

\* The ticker starts a cycle again and again, and every request of a cycle ends
\* within its timeout.
AgentFairness == WF_agentVars(StartCycle) /\ WF_agentVars(CycleStep)
FairAgentSpec == AgentSpec /\ AgentFairness

-----------------------------------------------------------------------------
\* Every variable has its shape.
AgentTypeOK ==
    /\ fleet \subseteq 1 .. objects /\ objects \in 0 .. MaxNodeObjects
    /\ agentsOn \subseteq Hosts /\ evidence \subseteq Hosts
    /\ prevAgent \in [Names -> {"unseen", "up", "down"}]
    /\ \A o \in Objects : /\ agentNode[o].source \in Sources
                          /\ agentNode[o].failures \in 0 .. AgentThreshold
                          /\ agentNode[o].pin \in RuntimeIds \cup {NoId}
    /\ cycle.pc \in {"idle", "clear", "poll"}
    /\ \A h \in Hosts : member[h].pc \in
         {"idle", "ask", "record", "forget", "apply", "reachable", "failed"}

\* An agent's VRAM figure is only kept for a node whose agent is present with a
\* readable report: a node whose agent was once heard or given up on (not one just
\* made by a URL change, which inherits the source) never routes on a figure of an agent that
\* is gone, whatever the health poll writes in between.
AgentVRAMBacked ==
    \A o \in fleet : agentNode[o].polled /\ agentNode[o].source = "agent"
                       => agentNode[o].present /\ ~agentNode[o].unknown

\* Once the operator and the hosts leave things alone, the records converge on
\* what the agents say: no readings, flags or evidence without an agent, live
\* readings and evidence with one that reports, the stale alert with one that
\* does not answer.
Settled(o) ==
    LET n == agentNode[o]
        a == IF Dial(n.host) = "connected" THEN agentWorld[n.host].answer ELSE Dial(n.host) IN
    IF n.host \notin agentsOn
    THEN ~n.present /\ ~n.stale /\ ~n.mismatch /\ n.host \notin evidence
    ELSE CASE a = "report" -> n.present /\ ~n.stale /\ n.live /\ n.host \in evidence
           [] a = "oversize" -> n.present /\ n.unknown /\ n.host \notin evidence
           [] OTHER -> /\ n.stale /\ ~n.present /\ n.host \notin evidence
                       /\ n.mismatch = (a = "mismatch")
AgentsConverge == <>[](\A o \in fleet : Settled(o))
=============================================================================
