------------------------------ MODULE MCFleet ------------------------------
(* The parts of the router, of its agents and of the model jobs that look    *)
(* after the fleet, side by side: each behaviour exercises the one part      *)
(* `focus` names, with every writer, poller or request of that part, while   *)
(* the others rest.  They share no state here, so one run explores them all. *)
EXTENDS WarmLoads, AgentReport, NodeScore, SessionRouting, PrefixLocality, ModelBook,
        ModelJobs, AgentService

VARIABLE focus

fleetVars == <<focus, warmVars, reportVars, scoreVars, routeVars, prefixVars, bookVars, jobVars,
               serviceVars>>

-----------------------------------------------------------------------------
(* Constants. *)

\* The walk starts from nodes whose health follows their success rate and of which
\* only the healthy Ollama ones may cool down or be stale, not both.
MCScoreStart(a) ==
    /\ a.health = a.success /\ ~(a.cooling /\ a.stale)
    /\ a.cooling \/ a.stale => ~a.static /\ a.health = 1

\* Three nodes and three declarations, of which two overlap.
MCFleetNodes == <<"a", "b", "c">>
MCDecls == {[members |-> {"a", "b"}, head |-> "a"], [members |-> {"b", "c"}, head |-> "b"],
            [members |-> {"a", "b", "c"}, head |-> "a"]}

\* A first turn, the turn that continues it and another first turn.
MCHistories == {<<1>>, <<1, 2>>, <<2>>}

\* Every model takes one unit.
MCSizeOf == [m \in WarmModels |-> 1]

\* A tensor-parallel vLLM on two GPUs, one in a container whose device list is
\* not the host's, and a worker process of a third.
Process(rt, port, arg) ==
    [rt |-> rt, port |-> port, arg |-> arg, topo |-> "none", par |-> FALSE, parent |-> 0,
     readable |-> TRUE, envKey |-> "none", env |-> [idx |-> {}, other |-> {}], holds |-> {},
     boxed |-> FALSE, publishes |-> {}, inside |-> 0, hostnet |-> FALSE, devices |-> {},
     gauges |-> [running |-> <<>>, waiting |-> <<>>, kv |-> <<>>, kvLegacy |-> <<>>]]
OnGPUs(S) == [idx |-> S, other |-> {}]
MCKinds ==
    {[Process("vllm", 1, 1) EXCEPT
        !.envKey = "CUDA_VISIBLE_DEVICES", !.env = OnGPUs({0, 1}), !.holds = {0, 1},
        !.par = TRUE, !.gauges.kv = <<60, 60>>, !.gauges.running = <<1>>],
     [Process("vllm", 2, 0) EXCEPT
        !.envKey = "CUDA_VISIBLE_DEVICES", !.env = OnGPUs({0}), !.holds = {1},
        !.boxed = TRUE, !.publishes = {2}],
     [Process("vllm", 0, 0) EXCEPT !.topo = "worker", !.parent = 1, !.holds = {2}]}
Unit(name, exact, active) ==
    [tier |-> "unit", name |-> name, matches |-> TRUE, self |-> FALSE, exact |-> exact,
     active |-> active]
MCUnits == <<Unit("vllm-x", FALSE, TRUE), Unit("vllm", TRUE, FALSE)>>
MCPorts == <<1, 2>>

\* The two nodes form one replica, of which "a" is the head.
MCReplicaOf == [n \in JobNodes |-> JobNodes]
MCReplicaHead == [n \in JobNodes |-> "a"]

-----------------------------------------------------------------------------
(* One part at a time. *)

Parts == {"warm", "report", "score", "route", "prefix", "book", "jobs", "service"}

ScoreRests ==
    /\ node = <<>> /\ prefixOn = FALSE /\ preferred = NoNode /\ left = {}
    /\ scored = <<>> /\ best = NoNode /\ booked = {} /\ outcomes = 0

FleetInit ==
    /\ focus \in Parts
    /\ WarmInit /\ (focus # "warm" => gpu = {})
    /\ ReportInit /\ (focus # "report" => psWorks)
    /\ IF focus = "score" THEN ScoreInit ELSE ScoreRests
    /\ RoutingInit /\ (focus # "route" => \A n \in FleetNodes : decl[n] = NoDecl)
    /\ PrefixInit /\ (focus # "prefix" => enabled)
    /\ BookInit /\ (focus # "book" => which = "used")
    /\ JobsInit /\ (focus # "jobs" => files = {})
    /\ ServiceInit /\ (focus # "service" => platform = "linux")

\* The parts other than p rest.
Only(p) ==
    /\ focus = p
    /\ UNCHANGED focus
    /\ IF p = "warm" THEN TRUE ELSE UNCHANGED warmVars
    /\ IF p = "report" THEN TRUE ELSE UNCHANGED reportVars
    /\ IF p = "score" THEN TRUE ELSE UNCHANGED scoreVars
    /\ IF p = "route" THEN TRUE ELSE UNCHANGED routeVars
    /\ IF p = "prefix" THEN TRUE ELSE UNCHANGED prefixVars
    /\ IF p = "book" THEN TRUE ELSE UNCHANGED bookVars
    /\ IF p = "jobs" THEN TRUE ELSE UNCHANGED jobVars
    /\ IF p = "service" THEN TRUE ELSE UNCHANGED serviceVars

FleetNext ==
    \/ Only("warm") /\ WarmNext
    \/ Only("report") /\ ReportNext
    \/ Only("score") /\ ScoreNext
    \/ Only("route") /\ RoutingNext
    \/ Only("prefix") /\ PrefixNext
    \/ Only("book") /\ BookNext
    \/ Only("jobs") /\ JobsNext
    \/ Only("service") /\ ServiceNext

FleetSpec == FleetInit /\ [][FleetNext]_fleetVars

-----------------------------------------------------------------------------
\* What the router believes of a node's memory is kept by everyone who loads and
\* unloads: concurrent warmups reserve what they load, one pass unloads per
\* cooldown, and the per-node books of models agree with their counters.
LoadsSound ==
    /\ focus = "warm" => WarmTypeOK /\ ReservedLoadsFit /\ OnePassPerCooldown
    /\ focus = "book" => BookTypeOK /\ BooksBalanced

\* What an agent reports can be relied upon: a runtime keeps its identity, and no
\* report claims GPUs it cannot back; and whatever commands fail or are killed, the
\* agent keeps the certificate the server pinned and its registration a key pair.
AgentsSound ==
    /\ focus = "report" => ReportTypeOK /\ IdentityKept /\ ReportSound
    /\ focus = "service" => ServiceTypeOK /\ PinSurvives /\ UnitHasPair

\* A pull's outcome is what the node did, and a probe's key ends with the probe.
JobsSound == focus = "jobs" => JobsTypeOK /\ ProbeKeysEphemeral /\ PullOutcomeTrue

\* A request is placed on the best candidate the walk saw, replica roles follow
\* the declarations, and the prefix table can always be evicted.
RoutesSound ==
    /\ focus = "score" => ScoreTypeOK /\ PlacedOnBest /\ WarmBeatsCold
    /\ focus = "route" => RoutingTypeOK /\ RolesSound
    /\ focus = "prefix" => PrefixTypeOK /\ PrefixEvictable

\* No step unloads a model that serves, reloads one an operator unloaded, sends a
\* session to a node that may not be scheduled, or reports a command of the agent's
\* service as done that is not.
FleetSteps == ServingKept /\ SuppressedStaysCold /\ ServedBySchedulable /\ ToldIsDone
=============================================================================
