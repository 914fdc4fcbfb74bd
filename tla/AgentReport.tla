----------------------------- MODULE AgentReport -----------------------------
(***************************************************************************)
(* What a Marbor agent reports about its machine (internal/marboragent):   *)
(* the refresh cycle of Scheduler.refresh reads the runtimes' ports, the    *)
(* runtimes themselves, the process list and the GPU process list one      *)
(* after another, while runtimes start, stop and take or free GPUs; the    *)
(* ids of runtimes live in a file, in the memory of the scheduler and, as  *)
(* long as the first refresh runs, in that of one-off schedulers made for  *)
(* early status requests.                                                  *)
(***************************************************************************)
EXTENDS Integers, Sequences, FiniteSets, SequencesExt, FiniteSetsExt, Relation

CONSTANTS
    ProcIds,            \* process ids
    ProcKinds,          \* the runtime processes that may run (records, below)
    ProbedPorts,        \* localRuntimePorts, in order
    Schedulers,         \* "main", and one-off schedulers
    Units,              \* what systemd, docker and the pid files know of
    ReadsEnv,           \* --read-runtime-env
    MaxListLen,         \* maxTelemetryListLen on the server
    MaxMachineChanges,  \* bound: processes started, stopped or missed, saves that
                        \* fail, early status requests
    MaxIds              \* bound: runtime ids minted

VARIABLES
    procs,      \* process id -> kind, for the processes that run
    psWorks,    \* ps can list them; otherwise docker is asked
    file,       \* runtimes.json
    registry,   \* each scheduler's copy of it
    refresh,      \* each scheduler's refresh: step and what it has read so far
    published,  \* the main scheduler has made its first refresh
    report,     \* what the server made of the last status of the main scheduler
    minted, changes,
    saved,      \* history: the file holds what the main scheduler last assigned
    idOf,       \* history: the ids under which the main scheduler reports a process
    heldThen    \* history: the GPU list the last report was made from
reportVars == <<procs, psWorks, file, registry, refresh, published, report, minted, changes,
                saved, idOf, heldThen>>

NoCycle == [pc |-> "off", det |-> <<>>, infos |-> <<>>, listed |-> <<>>]
NoReport == [infos |-> <<>>, deps |-> <<>>, control |-> <<>>]

ReportInit ==
    /\ procs = <<>> /\ psWorks \in BOOLEAN
    /\ file = <<>> /\ registry = [s \in Schedulers |-> <<>>]
    /\ refresh = [s \in Schedulers |-> NoCycle]
    /\ published = FALSE /\ report = NoReport /\ minted = 0 /\ changes = 0
    /\ saved = TRUE /\ idOf = <<>> /\ heldThen = <<>>

With(f, x, v) == [y \in DOMAIN f \cup {x} |-> IF y = x THEN v ELSE f[y]]
Less(f, S) == [y \in DOMAIN f \ S |-> f[y]]

----------------------------------------------------------------------------
(* The machine.                                                               *)

StartProcess(p, k) ==
    /\ changes < MaxMachineChanges /\ changes' = changes + 1
    /\ p \notin DOMAIN procs
    /\ k.port # 0 => \A q \in DOMAIN procs : procs[q].port # k.port
    /\ procs' = With(procs, p, k)
    /\ UNCHANGED <<psWorks, file, registry, refresh, published, report, minted, saved, idOf, heldThen>>

StopProcess(p) ==
    /\ changes < MaxMachineChanges /\ changes' = changes + 1
    /\ p \in DOMAIN procs
    /\ procs' = Less(procs, {p})
    /\ idOf' = Less(idOf, {p})
    /\ UNCHANGED <<psWorks, file, registry, refresh, published, report, minted, saved, heldThen>>

----------------------------------------------------------------------------
(* Runtime identity (runtime_identity.go): by port, else by a name only one   *)
(* entry has, else a new id.                                                  *)

First(S) == CHOOSE j \in S : \A k \in S : j <= k

Assign(acc, i, j, d) ==
    [acc EXCEPT !.entries[j] = [id |-> @.id, name |-> d.name, port |-> d.port],
                !.claimed = @ \cup {j},
                !.out[i] = [name |-> d.name, port |-> d.port, id |-> acc.entries[j].id]]

FreeIds(acc) == DOMAIN acc.entries \ acc.claimed

ByPort(det, acc, i) ==
    LET js == {j \in FreeIds(acc) : acc.entries[j].port = det[i].port}
    IN  IF acc.out[i].id = 0 /\ js # {} THEN Assign(acc, i, First(js), det[i]) ELSE acc

ByRuntimeName(det, acc, i) ==
    LET js == {j \in FreeIds(acc) : acc.entries[j].name = det[i].name}
    IN  IF acc.out[i].id = 0 /\ Cardinality(js) = 1 THEN Assign(acc, i, First(js), det[i]) ELSE acc

Mint(det, acc, i) ==
    IF acc.out[i].id # 0 THEN acc
    ELSE Assign([acc EXCEPT !.entries = Append(@, [id |-> acc.minted + 1, name |-> "", port |-> 0]),
                            !.minted = @ + 1],
                i, Len(acc.entries) + 1, det[i])

\* Mutant: names are compared before ports.
ReconcileNamesFirst(entries, det, n) ==
    LET idx == [i \in DOMAIN det |-> i]
        start == [entries |-> entries, claimed |-> {}, minted |-> n,
                  out |-> [i \in DOMAIN det |-> [name |-> "", port |-> 0, id |-> 0]]]
        one == FoldLeft(LAMBDA acc, i : ByRuntimeName(det, acc, i), start, idx)
        two == FoldLeft(LAMBDA acc, i : ByPort(det, acc, i), one, idx)
    IN  FoldLeft(LAMBDA acc, i : Mint(det, acc, i), two, idx)

Reconcile(entries, det, n) ==
    LET idx == [i \in DOMAIN det |-> i]
        start == [entries |-> entries, claimed |-> {}, minted |-> n,
                  out |-> [i \in DOMAIN det |-> [name |-> "", port |-> 0, id |-> 0]]]
        one == FoldLeft(LAMBDA acc, i : ByPort(det, acc, i), start, idx)
        two == FoldLeft(LAMBDA acc, i : ByRuntimeName(det, acc, i), one, idx)
    IN  FoldLeft(LAMBDA acc, i : Mint(det, acc, i), two, idx)

----------------------------------------------------------------------------
(* Scheduler.refresh, first half: ports and runtimes.                         *)

Listening(port) == {p \in DOMAIN procs : procs[p].port = port}

\* DetectAll over the probed ports; a runtime in missed does not answer.
DetectAll(missed) ==
    LET seen == SelectSeq(ProbedPorts, LAMBDA q : Listening(q) \ missed # {})
    IN  [i \in DOMAIN seen |-> [name |-> procs[First(Listening(seen[i]))].rt, port |-> seen[i]]]

Served == {p \in DOMAIN procs : procs[p].port \in Range(ProbedPorts)}

\* NewScheduler reads the ids, none from a file that does not parse; the main
\* scheduler is made at start, a one-off one for a status request that finds no
\* published scheduler.
NewScheduler(s) ==
    /\ refresh[s].pc = "off"
    /\ IF s = "main" THEN UNCHANGED changes
       ELSE /\ refresh["main"].pc # "off" /\ ~published
            /\ changes < MaxMachineChanges /\ changes' = changes + 1
    /\ registry' = [registry EXCEPT ![s] = file]
    /\ refresh' = [refresh EXCEPT ![s].pc = "tick"]
    /\ saved' = (saved \/ s = "main")
    /\ idOf' = IF s = "main" /\ ~saved THEN <<>> ELSE idOf
    /\ UNCHANGED <<procs, psWorks, file, published, report, minted, heldThen>>

\* Saving is best effort: the file cannot be opened and stays as it is, or is
\* emptied first and written next.
Refresh(s, missed, opens) ==
    LET det == DetectAll(missed)
        rec == Reconcile(registry[s], det, minted)
        faults == Cardinality(missed) + IF opens THEN 0 ELSE 1
        saves == det # <<>> /\ opens
    IN  /\ refresh[s].pc = "tick" /\ changes + faults <= MaxMachineChanges
        /\ rec.minted <= MaxIds /\ (det = <<>> => opens)
        /\ changes' = changes + faults
        /\ minted' = rec.minted
        /\ registry' = [registry EXCEPT ![s] = rec.entries]
        /\ file' = IF saves THEN <<>> ELSE file
        /\ saved' = (saved /\ (det = <<>> \/ (s # "main" /\ ~opens)))
        /\ refresh' = [refresh EXCEPT ![s] = [pc |-> IF saves THEN "save" ELSE "probe",
                                             det |-> det, infos |-> rec.out, listed |-> <<>>]]
        /\ idOf' = IF s = "main" THEN Less(idOf, missed) ELSE idOf
        /\ UNCHANGED <<procs, psWorks, published, report, heldThen>>

\* The write of the emptied file may be cut short, or meet that of another scheduler;
\* the file then does not parse.
SaveRegistry(s, whole) ==
    /\ refresh[s].pc = "save" /\ (whole \/ changes < MaxMachineChanges)
    /\ changes' = IF whole THEN changes ELSE changes + 1
    /\ file' = IF whole THEN registry[s] ELSE <<>>
    /\ saved' = (s = "main" /\ whole)
    /\ refresh' = [refresh EXCEPT ![s].pc = "probe"]
    /\ UNCHANGED <<procs, psWorks, registry, published, report, minted, idOf, heldThen>>

\* collectEngineState: the samples of a metric add up; no sample, no reading.
Unknown == -1
SumSamples(vals) == IF vals = <<>> THEN Unknown ELSE FoldLeft(LAMBDA a, b : a + b, 0, vals)
ClampPercent(v) == IF v = Unknown THEN Unknown ELSE IF v > 100 THEN 100 ELSE v
CollectEngineState(k) ==
    CASE k.rt = "vllm" ->
           [running |-> SumSamples(k.gauges.running), waiting |-> SumSamples(k.gauges.waiting),
            kv |-> ClampPercent(SumSamples(IF k.gauges.kv # <<>> THEN k.gauges.kv ELSE k.gauges.kvLegacy))]
      [] k.rt = "tgi" ->
           [running |-> SumSamples(k.gauges.running), waiting |-> SumSamples(k.gauges.waiting), kv |-> Unknown]
      [] OTHER -> [running |-> Unknown, waiting |-> Unknown, kv |-> Unknown]

\* The runtime probe of each detected port, by now maybe down or another one.
ProbeRuntimes(s) ==
    /\ refresh[s].pc = "probe"
    /\ LET Up(d) == \E p \in Listening(d.port) : procs[p].rt = d.name
           At(d) == procs[First(Listening(d.port))]
       IN  refresh' = [refresh EXCEPT ![s].pc = "list", ![s].infos =
               [i \in DOMAIN @ |->
                   [name |-> @[i].name, port |-> @[i].port, id |-> @[i].id,
                    up |-> Up(refresh[s].det[i]),
                    engine |-> IF Up(refresh[s].det[i]) THEN CollectEngineState(At(refresh[s].det[i]))
                               ELSE CollectEngineState([rt |-> "none"])]]]
    /\ UNCHANGED <<procs, psWorks, file, registry, published, report, minted, changes, saved, idOf, heldThen>>

----------------------------------------------------------------------------
(* GPU scope (gpuscope.go): what the environment names, checked against what  *)
(* the process holds.                                                         *)

NoScope == [key |-> "nil", idx |-> {}, other |-> {}, checked |-> FALSE]
Scope(key, idx, other) == [key |-> key, idx |-> idx, other |-> other, checked |-> FALSE]
NVIDIAKeys == {"CUDA_VISIBLE_DEVICES", "NVIDIA_VISIBLE_DEVICES"}
NamesIn(sc) == sc.idx # {} \/ sc.other # {}

\* The indices alone, unless a token of another kind is listed with them.
ParseGPUScope(key, v) == [scope |-> Scope(key, v.idx, v.other), group |-> IF v.other = {} THEN v.idx ELSE {}]
Nothing == [scope |-> NoScope, group |-> {}]

ScopeFromProcessEnv(k) ==
    IF ~k.readable THEN [scope |-> Scope("", {}, {}), group |-> {}]
    ELSE IF k.envKey = "none" THEN [scope |-> Scope("environ", {}, {}), group |-> {}]
    ELSE ParseGPUScope(k.envKey, k.env)

\* Only full ids and known indices resolve.
Resolves(sc, gpus) == NamesIn(sc) /\ sc.other = {} /\ sc.idx \subseteq gpus

ApplyCrossCheck(found, probe, held) ==
    LET sc == found.scope
        observed == [scope |-> Scope("nvidia-compute-apps", held, {}), group |-> {}]
    IN  IF ~probe THEN found
        ELSE IF sc.key = "nil" THEN IF held = {} THEN Nothing ELSE observed
        ELSE IF ~NamesIn(sc) /\ sc.key \in NVIDIAKeys \cup {"", "environ"} /\ held # {} THEN observed
        ELSE IF sc.key \notin NVIDIAKeys \/ ~Resolves(sc, 0 .. 7) THEN found
        ELSE IF sc.idx # held THEN [found EXCEPT !.group = {}]
        ELSE [scope |-> [sc EXCEPT !.checked = TRUE], group |-> held]

\* withDescendants: the process tree comes from ps too.
WithDescendants(listed, p) ==
    LET child == [a, b \in DOMAIN listed |-> listed[b].parent = a]
    IN  IF psWorks THEN {q \in DOMAIN listed : ReflexiveTransitiveClosure(child, DOMAIN listed)[p, q]} ELSE {p}
Held(listed, p) == UNION {procs[q].holds : q \in WithDescendants(listed, p) \cap DOMAIN procs}

----------------------------------------------------------------------------
(* Deployments (deployment_collect.go).                                       *)

\* buildTopology
Topology(k) ==
    CASE k.rt = "vllm" -> k.topo
      [] k.rt = "llamacpp" /\ k.topo = "rpcEnv" -> IF ~ReadsEnv THEN "none" ELSE IF k.readable THEN "rpc" ELSE "unreadable"
      [] k.rt = "llamacpp" -> k.topo
      [] OTHER -> "none"

Det(det, port) == {i \in DOMAIN det : det[i].port = port}

\* One process: its port is on its command line, or it is the one runtime found.
FromProcess(det, listed, p, probe) ==
    LET k == listed[p]
        port == IF k.arg # 0 THEN k.arg
                ELSE IF Len(det) = 1 /\ Topology(k) # "worker" /\ det[1].name = k.rt THEN det[1].port ELSE 0
        rt == IF k.arg # 0 /\ Det(det, port) # {} THEN det[First(Det(det, port))].name ELSE k.rt
        env == IF ReadsEnv THEN ScopeFromProcessEnv(k) ELSE Nothing
        gpu == ApplyCrossCheck(env, probe, Held(listed, p))
    IN  [pid |-> p, rt |-> rt, port |-> port, par |-> k.par, topo |-> Topology(k),
         scope |-> gpu.scope, group |-> gpu.group, id |-> 0]

Richer(new, old) == (~old.par /\ new.par) \/ (old.topo = "none" /\ new.topo # "none")

AppendDeduped(reps, rep) ==
    LET same == {i \in DOMAIN reps : reps[i].port = rep.port /\ reps[i].rt = rep.rt}
    IN  IF same = {} THEN Append(reps, rep)
        ELSE IF Richer(rep, reps[First(same)]) THEN [reps EXCEPT ![First(same)] = rep] ELSE reps

CollectFromPS(det, listed, probe) ==
    FoldLeft(LAMBDA reps, p : AppendDeduped(reps, FromProcess(det, listed, p, probe)),
             <<>>, SetToSortSeq(DOMAIN listed, <))

\* dockerHostPort: the host port the argument is published on, or the argument
\* itself with host networking, or the only published port.
DockerHostPort(k) ==
    LET to == {hp \in k.publishes : k.arg = k.inside}
    IN  IF k.arg # 0 THEN IF to # {} THEN Min(to) ELSE IF k.hostnet THEN k.arg ELSE 0
        ELSE IF Cardinality(k.publishes) = 1 THEN First(k.publishes) ELSE 0

DockerGPUScope(k) ==
    LET env == IF k.envKey = "none" THEN Nothing ELSE ParseGPUScope(k.envKey, k.env)
    IN  IF env.scope.key = "CUDA_VISIBLE_DEVICES" /\ NamesIn(env.scope) THEN env
        ELSE IF k.devices # {} THEN ParseGPUScope("NVIDIA_VISIBLE_DEVICES", [idx |-> k.devices, other |-> {}])
        ELSE env

FromContainer(listed, p, probe) ==
    LET k == listed[p]
        gpu == ApplyCrossCheck(DockerGPUScope(k), probe, Held(listed, p))
    IN  [pid |-> p, rt |-> k.rt, port |-> DockerHostPort(k), par |-> k.par, topo |-> Topology(k),
         scope |-> gpu.scope, group |-> gpu.group, id |-> 0]

FilterToDetected(reps, det) ==
    LET near == SelectSeq(reps, LAMBDA r : r.port = 0 \/ Det(det, r.port) # {})
    IN  IF det = <<>> \/ near = <<>> THEN reps ELSE near

CollectFromDockerSocket(det, listed, probe) ==
    LET boxed == SetToSortSeq({p \in DOMAIN listed : listed[p].boxed}, <)
    IN  FilterToDetected([i \in DOMAIN boxed |-> FromContainer(listed, boxed[i], probe)], det)

Collect(det, listed, probe) ==
    LET fromPS == IF psWorks THEN CollectFromPS(det, listed, probe) ELSE <<>>
    IN  IF fromPS # <<>> THEN fromPS ELSE CollectFromDockerSocket(det, listed, probe)

\* A report on a detected port gets that runtime's id.
WithId(dep, infos) ==
    LET same == {i \in DOMAIN infos : infos[i].port = dep.port}
    IN  IF same = {} THEN dep ELSE [dep EXCEPT !.id = infos[Max(same)].id]

----------------------------------------------------------------------------
(* What controls the runtime (control/discovery.go): the first tier that      *)
(* knows it, and in a tier the best candidate.                                *)

Named(tier) == SelectSeq(Units, LAMBDA u : u.tier = tier /\ u.matches /\ ~u.self)

SelectBestCandidate(cs) ==
    LET exact == {i \in DOMAIN cs : cs[i].exact}
        active == {i \in DOMAIN cs : cs[i].active}
        best == CHOOSE S \in {exact \cap active, exact, active, DOMAIN cs} :
                    /\ S # {}
                    /\ exact \cap active # {} => S = exact \cap active
                    /\ exact \cap active = {} /\ exact # {} => S = exact
                    /\ exact = {} /\ active # {} => S = active
    IN  IF cs = <<>> THEN <<>> ELSE <<cs[First(best)]>>

\* Loaded units first; a unit file counts when its unit is not loaded.
SystemdProbe ==
    LET files == SelectSeq(Named("unit-file"), LAMBDA f : \A i \in DOMAIN Named("unit") : Named("unit")[i].name # f.name)
    IN  SelectBestCandidate(Named("unit") \o [i \in DOMAIN files |-> [files[i] EXCEPT !.active = FALSE]])
LaunchdProbe == SelectBestCandidate(Named("launchd"))
WindowsServiceProbe == SelectBestCandidate(Named("service"))
DockerProbe == SelectBestCandidate(Named("container"))
\* The first pid file of a live process.
ProcessProbe == LET live == SelectSeq(Units, LAMBDA u : u.tier = "pid-file" /\ u.active)
                IN  IF live = <<>> THEN <<>> ELSE <<Head(live)>>

Discover ==
    LET tiers == SelectSeq(<<SystemdProbe, LaunchdProbe, WindowsServiceProbe, DockerProbe, ProcessProbe>>,
                           LAMBDA r : r # <<>>)
    IN  IF tiers = <<>> THEN <<>> ELSE Head(tiers)

----------------------------------------------------------------------------
(* The server bounds what it takes over (router/agent_sanitize.go): lists are *)
(* cut, but a GPU list that is too long is dropped, not cut.                  *)

Cut(seq) == IF Len(seq) > MaxListLen THEN SubSeq(seq, 1, MaxListLen) ELSE seq
ClampIndices(S) == IF Cardinality(S) > MaxListLen THEN {} ELSE S
SanitizeDeployment(d) == [d EXCEPT !.group = ClampIndices(@), !.scope.idx = ClampIndices(@)]
SanitizeTelemetry(t) ==
    [infos |-> Cut(t.infos), control |-> t.control,
     deps |-> [i \in DOMAIN Cut(t.deps) |-> SanitizeDeployment(t.deps[i])]]

----------------------------------------------------------------------------
(* Scheduler.refresh, second half: process list, then the GPU list.           *)

ListProcesses(s) ==
    /\ refresh[s].pc = "list"
    /\ refresh' = [refresh EXCEPT ![s].pc = "gpus", ![s].listed = procs]
    /\ UNCHANGED <<procs, psWorks, file, registry, published, report, minted, changes, saved, idOf, heldThen>>

\* The rest of Collect and the snapshot; a one-off scheduler answers its request
\* and is dropped, the main one waits for the next tick.
Publish(s, probe) ==
    LET c == refresh[s]
        deps == Collect(c.det, c.listed, probe)
        shown == [infos |-> c.infos, control |-> IF c.det = <<>> THEN <<>> ELSE Discover,
                  deps |-> [i \in DOMAIN deps |-> IF deps[i].port = 0 THEN deps[i] ELSE WithId(deps[i], c.infos)]]
        named == {p \in DOMAIN procs : \E i \in DOMAIN c.infos : c.infos[i].port = procs[p].port
                                            /\ p \in DOMAIN c.listed /\ c.infos[i].name = procs[p].rt}
    IN  /\ c.pc = "gpus"
        /\ refresh' = [refresh EXCEPT ![s] = [NoCycle EXCEPT !.pc = IF s = "main" THEN "tick" ELSE "off"]]
        /\ published' = (published \/ s = "main")
        /\ report' = SanitizeTelemetry(shown)
        /\ heldThen' = [p \in DOMAIN c.listed |-> IF probe THEN [known |-> TRUE, gpus |-> Held(c.listed, p)]
                                                  ELSE [known |-> FALSE, gpus |-> {}]]
        /\ idOf' = IF s # "main" THEN idOf
                   ELSE [p \in DOMAIN idOf \cup named |->
                      (IF p \in DOMAIN idOf THEN idOf[p] ELSE {})
                      \cup {c.infos[i].id : i \in {x \in DOMAIN c.infos : p \in named /\ c.infos[x].port = procs[p].port}}]
        /\ UNCHANGED <<procs, psWorks, file, registry, minted, changes, saved>>

AgentCrash ==
    /\ changes < MaxMachineChanges /\ changes' = changes + 1
    /\ refresh["main"].pc # "off"
    /\ refresh' = [s \in Schedulers |-> NoCycle]
    /\ registry' = [s \in Schedulers |-> <<>>]
    /\ published' = FALSE
    /\ UNCHANGED <<procs, psWorks, file, report, minted, saved, idOf, heldThen>>

ReportNext ==
    \/ \E p \in ProcIds, k \in ProcKinds : StartProcess(p, k)
    \/ \E p \in ProcIds : StopProcess(p)
    \/ \E s \in Schedulers :
         \/ NewScheduler(s)
         \/ \E missed \in SUBSET Served, opens \in BOOLEAN : Refresh(s, missed, opens)
         \/ \E whole \in BOOLEAN : SaveRegistry(s, whole)
         \/ ProbeRuntimes(s) \/ ListProcesses(s)
         \/ \E probe \in BOOLEAN : Publish(s, probe)
    \/ AgentCrash

ReportSpec == ReportInit /\ [][ReportNext]_reportVars

----------------------------------------------------------------------------
ReportTypeOK ==
    /\ DOMAIN procs \subseteq ProcIds
    /\ minted \in 0 .. MaxIds /\ changes \in 0 .. MaxMachineChanges
    /\ \A s \in Schedulers : refresh[s].pc \in {"off", "tick", "save", "probe", "list", "gpus"}

(* A runtime that stays up on its port is reported by the main scheduler      *)
(* under one id, whatever other runtimes start, stop or move meanwhile and    *)
(* whichever saves fail, as long as no detection misses it; and however often *)
(* the agent restarts, as long as the file then holds the main scheduler's    *)
(* last assignments (runtimeRegistry.Reconcile, persist).                     *)
IdentityKept == \A p \in DOMAIN idOf : Cardinality(idOf[p]) <= 1

(* What a placement may be built on: ids are not shared; a GPU group is the    *)
(* exact set the processes of that runtime held, whenever the GPU list could  *)
(* be read, was named by an NVIDIA variable and was not cut to fit (and never *)
(* an unconfirmed one, applyCrossCheck, clampIndices); a headless worker that *)
(* names no port is not taken for the runtime that serves there.              *)
ReportSound ==
    /\ \A i, j \in DOMAIN report.infos : report.infos[i].id = report.infos[j].id => i = j
    /\ \A i \in DOMAIN report.deps :
         LET d == report.deps[i] IN
         /\ d.group # {} /\ heldThen[d.pid].known /\ d.scope.key \in NVIDIAKeys /\ d.scope.other = {}
              => d.scope.checked /\ d.group = heldThen[d.pid].gpus
         /\ d.topo = "worker" /\ d.port = 0 => d.id = 0
    /\ \A i \in DOMAIN report.infos :
         "engine" \in DOMAIN report.infos[i] => report.infos[i].engine.kv \in -1 .. 100
=============================================================================
