------------------------------ MODULE ModelJobs ------------------------------
(***************************************************************************)
(* Model pulls, model deletions and hardware benchmarks of the admin API,  *)
(* and the ephemeral probe keys two of them use.  Each accepted pull or    *)
(* benchmark is a job with a goroutine of its own: handleNodePull and      *)
(* handleRunBenchmark publish the job and answer 202, the goroutine works  *)
(* on, and an administrator may cancel the job at any of its steps.  A     *)
(* probe (the load check of a pull, the samples of a benchmark) asks       *)
(* marbor's own proxy with a key stored for it and removed after it.  A    *)
(* reload may copy the stored keys to the live ones meanwhile, and the     *)
(* server may crash at any step and boot again.                            *)
(*                                                                         *)
(* Abstracted: a request the format and disk gates of a pull refuse        *)
(* changes nothing (module ModelFit models the gates); byte counts and     *)
(* latencies are left out, a sample is a count.                            *)
(***************************************************************************)
EXTENDS Naturals, FiniteSets

CONSTANTS
    JobNodes,       \* nodes
    JobModels,      \* models
    AgentNodes,     \* nodes whose enabled agent offers the model actions
    ReplicaOf,      \* node -> the nodes of its multi-host replica ({} = none)
    ReplicaHead,    \* node -> head of its replica, or the node itself
    MaxJobs,        \* bound: jobs accepted in one behaviour
    SampleCount,    \* n of a benchmark: samples of each phase
    MaxJobFaults    \* bound: store faults, outages, crashes, deletions, reloads

ASSUME ModelJobsAssumption ==
    /\ MaxJobs \in Nat \ {0}
    /\ SampleCount \in Nat \ {0}
    /\ MaxJobFaults \in Nat
    /\ AgentNodes \subseteq JobNodes
    /\ ReplicaOf \in [JobNodes -> SUBSET JobNodes]
    /\ ReplicaHead \in [JobNodes -> JobNodes]

\* Values for a fleet without replicas: no members, and each node its own head.
NoReplica == [n \in JobNodes |-> {}]
ItsOwnHead == [n \in JobNodes |-> n]

JobIds == 1..MaxJobs
NoJob == 0

VARIABLES
    jobs,        \* job id -> its record; kind "none" until it is accepted
    step,        \* job id -> where its goroutine is
    gone,        \* jobs whose context is cancelled
    jobRows,       \* Server.pullJobs and benchJobs: the jobs still listed
    keysLive,    \* jobs whose probe key the auth middleware accepts
    keysStored,  \* jobs whose probe key is a row of api_keys
    reload,      \* the reload under way, and the probe keys it has read
    orphans,     \* history: keys whose removal met a reload, or whose row was left
    files,       \* <<node, model>> pairs present on the node's disk
    inMemory,    \* <<node, model>> pairs loaded by the node's runtime
    fetching,    \* jobs whose download is running on the node
    nodeUp,      \* nodes the router holds healthy
    delete,      \* the model deletion being handled
    serverUp,    \* the marbor process runs
    jobFaults,      \* faults and deletions so far
    witness      \* history: cancels acknowledged, downloads and probes seen

jobVars == <<jobs, step, gone, jobRows, keysLive, keysStored, reload, orphans, files,
             inMemory, fetching, nodeUp, delete, serverUp, jobFaults, witness>>

Kinds == {"none", "pull", "bench"}

\* pullJob.Status and benchmarkJob.Phase.
Statuses == {"none", "downloading", "verifying", "success", "failed",
             "load_failed", "cancelled", "evicting", "cold", "warm", "done",
             "error"}

\* Where a job's goroutine stands (the kept steps of the two functions).
JobSteps == {"none", "download", "complete", "storeKey", "liveKey", "probe",
          "revoke", "dropKey", "outcome", "unload", "begin", "evict",
          "settle", "sample", "warmPhase", "save", "ended"}

NoReload == [phase |-> "idle", read |-> {}]
NoDelete == [phase |-> "idle", model |-> "", left |-> {}, ok |-> {}]

NewJob(kind, n, m, verify) ==
    [kind |-> kind, node |-> n, model |-> m, verify |-> verify,
     status |-> IF kind = "pull" THEN "downloading" ELSE "evicting",
     cold |-> 0, warm |-> 0, passed |-> FALSE]

NoRecord == [kind |-> "none", node |-> "", model |-> "", verify |-> FALSE,
             status |-> "none", cold |-> 0, warm |-> 0, passed |-> FALSE]

JobsInit ==
    /\ jobs = [j \in JobIds |-> NoRecord]
    /\ step = [j \in JobIds |-> "none"]
    /\ gone = {} /\ jobRows = {} /\ keysLive = {} /\ keysStored = {}
    /\ reload = NoReload /\ orphans = {}
    /\ files \in {{}, JobNodes \X JobModels}
    /\ inMemory = {} /\ fetching = {}
    /\ nodeUp = JobNodes
    /\ delete = NoDelete
    /\ serverUp = TRUE
    /\ jobFaults = 0
    /\ witness = [acked |-> {}, fetched |-> {}, answered |-> {}]

----------------------------------------------------------------------------
(* pullJob and benchmarkJob.                                               *)

\* pullJobActive, and the phases sweepOldBenchmarkJobs keeps.
PullJobActive(s) == s \in {"downloading", "verifying"}
BenchPhaseActive(s) == s \in {"evicting", "cold", "warm"}
ActiveJob(j) == PullJobActive(jobs[j].status) \/ BenchPhaseActive(jobs[j].status)

SetStatus(j, s) == [jobs EXCEPT ![j].status = s]

\* pullJob.finish and benchmarkJob.finish: a terminal status is kept.
Finish(j, s) == IF ActiveJob(j) THEN SetStatus(j, s) ELSE jobs

\* benchmarkJob.setPhase writes the phase without looking at it.
SetPhase(j, s) == SetStatus(j, s)

\* sweepOldPullJobs and sweepOldBenchmarkJobs that judge age alone.
SweptByAge(old) == jobRows \ old

\* sweepOldPullJobs, sweepOldBenchmarkJobs: finished jobs past their age.
\* A job's age is any: old is the set of jobs older than the limit.
Swept(old) == {j \in jobRows : ActiveJob(j) \/ j \notin old}

\* The job a DELETE or a progress stream finds under (node, model).
ListedPull(tb, n, m) ==
    {j \in tb : jobs[j].kind = "pull" /\ jobs[j].node = n
                                      /\ jobs[j].model = m}

Free == {j \in JobIds : jobs[j].kind = "none"}
Fresh == CHOOSE j \in Free : TRUE

KeepKeys == UNCHANGED <<keysLive, keysStored, reload, orphans>>
KeepNode == UNCHANGED <<files, inMemory, fetching, nodeUp, delete>>
KeepServer == UNCHANGED <<serverUp, jobFaults>>
Disturb == jobFaults < MaxJobFaults /\ jobFaults' = jobFaults + 1

----------------------------------------------------------------------------
(* Requests of an administrator.                                           *)

\* handleNodePull: the node must be known, healthy and pass the format and
\* disk gates; old jobs are swept; a job of the same node and model that is
\* still active refuses the request; otherwise the new job replaces it.
HandleNodePull(n, m, verify, old) ==
    /\ serverUp /\ Free # {}
    /\ n \in nodeUp
    /\ \A j \in ListedPull(Swept(old), n, m) : ~PullJobActive(jobs[j].status)
    /\ jobs' = [jobs EXCEPT ![Fresh] = NewJob("pull", n, m, verify)]
    /\ step' = [step EXCEPT ![Fresh] = "download"]
    /\ jobRows' = (Swept(old) \ ListedPull(Swept(old), n, m)) \cup {Fresh}
    /\ KeepKeys /\ KeepNode /\ KeepServer
    /\ UNCHANGED <<gone, witness>>

\* handleListModels of the agent: Ollama's tags or the Hugging Face cache.
AgentLists(n, m) == <<n, m>> \in files

\* nodeHasModel: loaded, or listed by the node's agent.
NodeHasModel(n, m) ==
    <<n, m>> \in inMemory \/ (n \in AgentNodes /\ AgentLists(n, m))

\* handleRunBenchmark up to the 202: one benchmark of a node at a time,
\* checked and inserted under benchMu.
HandleRunBenchmark(n, m, old) ==
    /\ serverUp /\ Free # {}
    /\ n \in nodeUp /\ NodeHasModel(n, m)
    /\ \A j \in Swept(old) : ~(jobs[j].kind = "bench" /\ jobs[j].node = n
                                      /\ BenchPhaseActive(jobs[j].status))
    /\ jobs' = [jobs EXCEPT ![Fresh] = NewJob("bench", n, m, FALSE)]
    /\ step' = [step EXCEPT ![Fresh] = "storeKey"]
    /\ jobRows' = Swept(old) \cup {Fresh}
    /\ KeepKeys /\ KeepNode /\ KeepServer
    /\ UNCHANGED <<gone, witness>>

\* handleCancelPull and handleCancelBenchmark: requestCancel of a job that
\* is listed and active sets the status, then cancels the context.
HandleCancel(j) ==
    /\ serverUp /\ j \in jobRows /\ ActiveJob(j)
    /\ jobs' = SetStatus(j, "cancelled")
    /\ gone' = gone \cup {j}
    /\ witness' = [witness EXCEPT !.acked = @ \cup {j}]
    /\ KeepKeys /\ KeepNode /\ KeepServer
    /\ UNCHANGED <<step, jobRows>>

----------------------------------------------------------------------------
(* The goroutine of a pull: runDirectPull or pullModelViaAgent, then       *)
(* completePull.                                                           *)

Runs(j, s) == serverUp /\ step[j] = s
Goto(j, s) == step' = [step EXCEPT ![j] = s]

\* handlePullModel of the agent (a node without one streams /api/pull of its
\* Ollama): the download starts while marbor's call is open.
NodeStartsDownload(j) ==
    /\ Runs(j, "download") /\ j \notin gone
    /\ j \notin fetching \cup witness.fetched
    /\ fetching' = fetching \cup {j}
    /\ KeepKeys /\ KeepServer
    /\ UNCHANGED <<jobs, step, gone, jobRows, files, inMemory, nodeUp, delete,
                   witness>>

\* runDownload returns without an error: the model is on the disk.
NodeDownloads(j) ==
    /\ j \in fetching
    /\ fetching' = fetching \ {j}
    /\ files' = files \cup {<<jobs[j].node, jobs[j].model>>}
    /\ witness' = [witness EXCEPT !.fetched = @ \cup {j}]
    /\ KeepKeys /\ KeepServer
    /\ UNCHANGED <<jobs, step, gone, jobRows, inMemory, nodeUp, delete>>

PullKeep ==
    /\ KeepKeys /\ KeepNode /\ KeepServer
    /\ UNCHANGED <<gone, jobRows, witness>>

\* The call fails: the node's error, a lost connection, the two hour
\* timeout, the cancelled context.
PullFails(j) == jobs' = Finish(j, "failed") /\ Goto(j, "ended")

\* pullModelViaAgent: one blocking call.
PullViaAgent(j) ==
    /\ Runs(j, "download") /\ jobs[j].node \in AgentNodes
    /\ \/ j \in witness.fetched /\ Goto(j, "complete") /\ UNCHANGED jobs
       \/ PullFails(j)
    /\ PullKeep

\* runDirectPull: the progress lines are read to their end; an error line
\* or a broken stream is a failure.
RunDirectPull(j) ==
    /\ Runs(j, "download") /\ jobs[j].node \notin AgentNodes
    /\ \/ j \in witness.fetched /\ Goto(j, "complete") /\ UNCHANGED jobs
       \/ PullFails(j)
    /\ PullKeep

\* runDownload: exec.CommandContext kills the download once the request of
\* marbor is gone (cancelled, timed out or dropped with a crashed server).
AgentKillsDownload(j) ==
    /\ j \in fetching
    /\ ~serverUp \/ step[j] = "ended" \/ j \in gone
    /\ fetching' = fetching \ {j}
    /\ KeepKeys /\ KeepServer
    /\ UNCHANGED <<jobs, step, gone, jobRows, files, inMemory, nodeUp, delete,
                   witness>>

\* completePull up to the probe: setVerifying only from "downloading".
CompletePull(j) ==
    /\ Runs(j, "complete")
    /\ IF ~jobs[j].verify
       THEN /\ jobs' = Finish(j, "success") /\ Goto(j, "ended")
       ELSE IF jobs[j].status = "downloading"
            THEN jobs' = SetStatus(j, "verifying") /\ Goto(j, "storeKey")
            ELSE Goto(j, "ended") /\ UNCHANGED jobs
    /\ KeepKeys /\ KeepNode /\ KeepServer
    /\ UNCHANGED <<gone, jobRows, witness>>

\* verifyModelLoads: one chat completion through the proxy with the probe
\* key, answered by whichever node the proxy places it on.  Without the key
\* in the auth middleware or without the model on some node it fails;
\* otherwise it may.
PullProbe(j) ==
    /\ Runs(j, "probe") /\ jobs[j].kind = "pull"
    /\ \/ /\ j \in keysLive
          /\ \E n \in nodeUp :
                /\ <<n, jobs[j].model>> \in files
                /\ inMemory' = inMemory \cup {<<n, jobs[j].model>>}
          /\ jobs' = [jobs EXCEPT ![j].passed = TRUE]
          /\ witness' = [witness EXCEPT !.answered = @ \cup {j}]
       \/ /\ jobs' = [jobs EXCEPT ![j].passed = FALSE]
          /\ UNCHANGED <<inMemory, witness>>
    /\ Goto(j, "revoke")
    /\ KeepKeys /\ KeepServer
    /\ UNCHANGED <<gone, jobRows, files, fetching, nodeUp, delete>>

\* completePull after the probe: load_failed, or success followed by
\* bestEffortUnloadAfterVerify.
PullOutcome(j) ==
    /\ Runs(j, "outcome") /\ jobs[j].kind = "pull"
    /\ jobs' = Finish(j, IF jobs[j].passed THEN "success" ELSE "load_failed")
    /\ Goto(j, IF jobs[j].passed THEN "unload" ELSE "ended")
    /\ KeepKeys /\ KeepNode /\ KeepServer
    /\ UNCHANGED <<gone, jobRows, witness>>

\* handleUnloadModel of the agent (ollama stop, the llama.cpp router's
\* /models/unload), or the router's own unload call: it may fail.
NodeUnloads(n, m) == inMemory' \in {inMemory, inMemory \ {<<n, m>>}}

\* bestEffortUnloadAfterVerify: a failure is only logged.
UnloadAfterVerify(j) ==
    /\ Runs(j, "unload")
    /\ NodeUnloads(jobs[j].node, jobs[j].model)
    /\ Goto(j, "ended")
    /\ KeepKeys /\ KeepServer
    /\ UNCHANGED <<jobs, gone, jobRows, files, fetching, nodeUp, delete,
                   witness>>

----------------------------------------------------------------------------
(* Probe keys: persistKey before a probe, RevokeKey and DeleteKey after,   *)
(* none of them under keysMu, so a reload may fall between any two.        *)

\* persistKey writes the row first; a failed write ends the pull's check
\* with load_failed, and unlists the benchmark.
StoreProbeKey(j) ==
    /\ Runs(j, "storeKey")
    /\ \/ /\ keysStored' = keysStored \cup {j}
          /\ Goto(j, "liveKey")
          /\ UNCHANGED <<jobs, jobRows, gone, jobFaults>>
       \/ /\ Disturb
          /\ UNCHANGED keysStored
          /\ IF jobs[j].kind = "pull"
             THEN /\ Goto(j, "outcome")
                  /\ UNCHANGED <<jobs, jobRows, gone>>
             ELSE /\ Goto(j, "ended")
                  /\ jobRows' = jobRows \ {j} /\ gone' = gone \cup {j}
                  /\ UNCHANGED jobs
    /\ UNCHANGED <<keysLive, reload, orphans, serverUp, witness>> /\ KeepNode

\* auth.AddKey, the second half of persistKey.
LiveProbeKey(j) ==
    /\ Runs(j, "liveKey")
    /\ keysLive' = keysLive \cup {j}
    /\ Goto(j, IF jobs[j].kind = "pull" THEN "probe" ELSE "begin")
    /\ UNCHANGED <<jobs, gone, jobRows, keysStored, reload, orphans, witness>>
    /\ KeepNode /\ KeepServer

\* The deferred cleanup: auth.RevokeKey, then store.DeleteKey, whose
\* failure is logged and leaves the row.
RevokeProbeKey(j) ==
    /\ Runs(j, "revoke")
    /\ keysLive' = keysLive \ {j}
    /\ orphans' = IF reload.phase = "read" THEN orphans \cup {j} ELSE orphans
    /\ Goto(j, "dropKey")
    /\ UNCHANGED <<jobs, gone, jobRows, keysStored, reload, witness>>
    /\ KeepNode /\ KeepServer

DropProbeKey(j) ==
    /\ Runs(j, "dropKey")
    /\ \/ keysStored' = keysStored \ {j} /\ UNCHANGED orphans
       \/ orphans' = orphans \cup {j} /\ UNCHANGED keysStored
    /\ Goto(j, IF jobs[j].kind = "pull" THEN "outcome" ELSE "ended")
    /\ UNCHANGED <<jobs, gone, jobRows, keysLive, reload, witness>>
    /\ KeepNode /\ KeepServer

\* ReloadFromStore, one at a time: it reads the unrevoked rows, probe keys and all,
\* and later replaces the live keys by them.
ReloadReads ==
    /\ serverUp /\ reload.phase = "idle" /\ Disturb
    /\ reload' = [phase |-> "read", read |-> keysStored]
    /\ orphans' = orphans \cup {j \in JobIds : step[j] = "dropKey"}
    /\ UNCHANGED <<jobs, step, gone, jobRows, keysLive, keysStored, serverUp, witness>>
    /\ KeepNode

ReloadApplies ==
    /\ serverUp /\ reload.phase = "read"
    /\ keysLive' = reload.read
    /\ reload' = NoReload
    /\ orphans' = orphans \cap (reload.read \cup keysStored)
    /\ UNCHANGED <<jobs, step, gone, jobRows, keysStored, witness>>
    /\ KeepNode /\ KeepServer

----------------------------------------------------------------------------
(* The goroutine of a benchmark: runBenchmarkJob.                          *)

BenchKeep ==
    /\ KeepKeys /\ KeepServer
    /\ UNCHANGED <<gone, jobRows, files, fetching, nodeUp, delete, witness>>

\* setPhase("evicting"), first thing in the goroutine.
BenchBegin(j) ==
    /\ Runs(j, "begin")
    /\ jobs' = SetPhase(j, "evicting")
    /\ Goto(j, "evict")
    /\ UNCHANGED inMemory /\ BenchKeep

\* evictModelForBenchmark before each cold sample: the unload succeeds, or
\* fails (pinned, node down, cancelled) and ends the run with "error".
BenchEvict(j) ==
    /\ Runs(j, "evict")
    /\ \/ /\ j \notin gone
          /\ inMemory' = inMemory \ {<<jobs[j].node, jobs[j].model>>}
          /\ Goto(j, "settle")
          /\ UNCHANGED jobs
       \/ /\ jobs' = Finish(j, "error")
          /\ Goto(j, "revoke")
          /\ UNCHANGED inMemory
    /\ BenchKeep

\* After the settle pause: the first time setPhase("cold"), then the
\* context is looked at before the sample.
BenchSettle(j) ==
    /\ Runs(j, "settle")
    /\ jobs' = IF jobs[j].cold = 0 THEN SetPhase(j, "cold") ELSE jobs
    /\ Goto(j, IF j \in gone /\ jobs[j].cold = 0 THEN "revoke" ELSE "sample")
    /\ UNCHANGED inMemory /\ BenchKeep

\* One MeasureChatLatency: it is answered, or fails.  A failure under a
\* cancelled context ends the goroutine without a word, any other with
\* "error".  Between two samples the context is looked at.
BenchSample(j) ==
    LET done == IF jobs[j].cold = SampleCount
                THEN [jobs EXCEPT ![j].warm = @ + 1]
                ELSE [jobs EXCEPT ![j].cold = @ + 1]
        next == IF done[j].warm = SampleCount THEN "save"
                ELSE IF done[j].warm = 0 /\ done[j].cold = SampleCount THEN "warmPhase"
                ELSE IF j \in gone THEN "revoke"
                ELSE IF done[j].warm > 0 THEN "sample" ELSE "evict"
    IN  /\ Runs(j, "sample")
        /\ \/ /\ j \in keysLive
              /\ jobs' = done
              /\ inMemory' = inMemory \cup {<<jobs[j].node, jobs[j].model>>}
              /\ Goto(j, next)
           \/ /\ jobs' = IF j \in gone THEN jobs ELSE Finish(j, "error")
              /\ Goto(j, "revoke")
              /\ UNCHANGED inMemory
        /\ BenchKeep

\* setPhase("warm"), then the context is looked at.
BenchWarmPhase(j) ==
    /\ Runs(j, "warmPhase")
    /\ jobs' = SetPhase(j, "warm")
    /\ Goto(j, IF j \in gone THEN "revoke" ELSE "sample")
    /\ UNCHANGED inMemory /\ BenchKeep

\* InsertBenchmarkRun and the outcome.
BenchSave(j) ==
    /\ Runs(j, "save")
    /\ \/ jobs' = Finish(j, "done") /\ UNCHANGED jobFaults
       \/ /\ Disturb
          /\ jobs' = Finish(j, "error")
    /\ Goto(j, "revoke")
    /\ KeepKeys /\ KeepNode
    /\ UNCHANGED <<gone, jobRows, serverUp, witness>>

----------------------------------------------------------------------------
(* Deleting a model.                                                       *)

\* validateReplicaDeleteComponent: the members agree that n is their head.
ValidDeleteComponent(n) ==
    n \in ReplicaOf[n] /\ \A k \in ReplicaOf[n] : ReplicaHead[k] = n

\* handleDeleteModel of the agent: deleteViaOllama, deleteViaHFCache.
AgentDeletes(n, m) == files' = files \ {<<n, m>>}

\* handleNodeDeleteModel: a worker of a replica is refused, the head deletes
\* on every member (handleReplicaWideModelDelete), any other node alone
\* (deleteSingleNodeModel).
HandleNodeDeleteModel(n, m) ==
    /\ serverUp /\ delete.phase = "idle" /\ Disturb
    /\ ReplicaHead[n] = n
    /\ IF ReplicaOf[n] = {} THEN n \in nodeUp \cap AgentNodes
                            ELSE ValidDeleteComponent(n)
    /\ delete' = [phase |-> "running", model |-> m, ok |-> {},
                  left |-> IF ReplicaOf[n] = {} THEN {n} ELSE ReplicaOf[n]]
    /\ KeepKeys
    /\ UNCHANGED <<jobs, step, gone, jobRows, files, inMemory, fetching,
                   nodeUp, serverUp, witness>>

\* One member: a node that is down or without an agent is an error result,
\* otherwise deleteModelViaAgent removes the files or fails.
DeleteOnMember(n) ==
    /\ serverUp /\ delete.phase = "running" /\ n \in delete.left
    /\ \/ /\ n \in nodeUp \cap AgentNodes
          /\ AgentDeletes(n, delete.model)
          /\ delete' = [delete EXCEPT !.left = @ \ {n}, !.ok = @ \cup {n}]
       \/ /\ delete' = [delete EXCEPT !.left = @ \ {n}]
          /\ UNCHANGED files
    /\ KeepKeys /\ KeepServer
    /\ UNCHANGED <<jobs, step, gone, jobRows, inMemory, fetching, nodeUp,
                   witness>>

\* wg.Wait and the reply.
DeleteReplies ==
    /\ serverUp /\ delete.phase = "running" /\ delete.left = {}
    /\ delete' = NoDelete
    /\ KeepKeys /\ KeepServer
    /\ UNCHANGED <<jobs, step, gone, jobRows, files, inMemory, fetching,
                   nodeUp, witness>>

----------------------------------------------------------------------------
(* Faults.                                                                 *)

NodeOutage(n) ==
    /\ Disturb
    /\ nodeUp' = (nodeUp \ {n}) \cup ({n} \ nodeUp)
    /\ KeepKeys
    /\ UNCHANGED <<jobs, step, gone, jobRows, files, inMemory, fetching,
                   delete, serverUp, witness>>

\* The process dies: jobs, their table and the auth middleware are memory,
\* the rows stay.
ServerCrash ==
    /\ serverUp /\ Disturb
    /\ serverUp' = FALSE
    /\ jobRows' = {} /\ keysLive' = {} /\ delete' = NoDelete
    /\ reload' = NoReload /\ orphans' = {}
    /\ step' = [j \in JobIds |-> IF step[j] = "none" THEN "none" ELSE "ended"]
    /\ UNCHANGED <<jobs, gone, keysStored, files, inMemory, fetching, nodeUp,
                   witness>>

\* loadStoredKeys: a row IsEphemeralProbeKey recognises is deleted, or left
\* when the deletion fails, and never added to the middleware.
LoadStoredKeys ==
    /\ keysStored' \in SUBSET keysStored
    /\ keysLive' = {}
    /\ orphans' = keysStored'

ServerBoot ==
    /\ ~serverUp
    /\ serverUp' = TRUE
    /\ LoadStoredKeys
    /\ UNCHANGED <<jobs, step, gone, jobRows, reload, jobFaults, witness>> /\ KeepNode

----------------------------------------------------------------------------
Goroutine(j) ==
    \/ PullViaAgent(j) \/ RunDirectPull(j) \/ CompletePull(j) \/ PullProbe(j) \/ PullOutcome(j)
    \/ UnloadAfterVerify(j)
    \/ StoreProbeKey(j) \/ LiveProbeKey(j) \/ RevokeProbeKey(j)
    \/ DropProbeKey(j)
    \/ BenchBegin(j) \/ BenchEvict(j) \/ BenchSettle(j) \/ BenchSample(j)
    \/ BenchWarmPhase(j) \/ BenchSave(j)

JobsNext ==
    \/ \E n \in JobNodes, m \in JobModels :
         \/ \E v \in BOOLEAN, old \in SUBSET jobRows : HandleNodePull(n, m, v, old)
         \/ \E old \in SUBSET jobRows : HandleRunBenchmark(n, m, old)
         \/ HandleNodeDeleteModel(n, m)
    \/ \E j \in JobIds : HandleCancel(j) \/ Goroutine(j) \/ NodeStartsDownload(j)
                          \/ NodeDownloads(j) \/ AgentKillsDownload(j)
    \/ \E n \in JobNodes : DeleteOnMember(n) \/ NodeOutage(n)
    \/ DeleteReplies \/ ReloadReads \/ ReloadApplies \/ ServerCrash \/ ServerBoot

\* A goroutine that can step is scheduled; every blocking call in it has a
\* deadline (nodePullTimeout, pullVerifyTimeout, benchmarkSampleTimeout).
JobsFairness ==
    /\ \A j \in JobIds : WF_jobVars(Goroutine(j))
    /\ \A j \in JobIds : WF_jobVars(AgentKillsDownload(j))

JobsSpec == JobsInit /\ [][JobsNext]_jobVars
FairJobsSpec == JobsSpec /\ JobsFairness

----------------------------------------------------------------------------
JobsTypeOK ==
    /\ jobs \in [JobIds -> [kind : Kinds, node : JobNodes \cup {""},
                            model : JobModels \cup {""}, verify : BOOLEAN,
                            status : Statuses, cold : 0..SampleCount,
                            warm : 0..SampleCount, passed : BOOLEAN]]
    /\ step \in [JobIds -> JobSteps]
    /\ gone \subseteq JobIds /\ jobRows \subseteq JobIds
    /\ keysLive \subseteq JobIds /\ keysStored \subseteq JobIds /\ orphans \subseteq JobIds
    /\ reload \in [phase : {"idle", "read"}, read : SUBSET JobIds]
    /\ files \subseteq JobNodes \X JobModels
    /\ inMemory \subseteq JobNodes \X JobModels
    /\ fetching \subseteq JobIds /\ nodeUp \subseteq JobNodes
    /\ serverUp \in BOOLEAN

Working(j) == step[j] \notin {"none", "ended"}

\* From the row of its key to the revocation.
Probing(j) == step[j] \in {"liveKey", "probe", "begin", "evict", "settle", "sample",
                           "warmPhase", "save", "revoke"}

\* A probe key authenticates only while its probe runs, on every exit path:
\* cancelled, failed, crashed or booted again (verifyModelLoads, runBenchmarkJob,
\* loadStoredKeys).  Two things let it authenticate longer, at most until its
\* expiry: a reload that overlaps the revocation or the deletion and puts the key
\* back, until a later reload, and a row that could not be deleted.
ProbeKeysEphemeral == \A j \in keysLive : Probing(j) \/ j \in orphans

\* A pull reports what happened: success only after the node finished the
\* download and, if asked to verify, a probe answered; cancelled for good
\* once the cancel was acknowledged; and a pull still at work can be found
\* and cancelled through the table, at most one per node and model.
PullOutcomeTrue ==
    \A j \in JobIds : jobs[j].kind = "pull" =>
        /\ jobs[j].status = "success" =>
              j \in witness.fetched
              /\ (jobs[j].verify => j \in witness.answered)
        /\ j \in witness.acked => jobs[j].status = "cancelled"
        /\ ActiveJob(j) /\ Working(j) =>
              ListedPull(jobRows, jobs[j].node, jobs[j].model) = {j}

\* Every accepted pull ends, and so does its download on the node
\* (handleCancelPull: the cancel tears down the process on the node).
PullsEnd ==
    <>[](\A j \in JobIds : jobs[j].kind = "pull" => step[j] = "ended" /\ j \notin fetching)

\* A benchmark whose cancel was acknowledged is over once its goroutine has
\* ended (requestCancel): it is in no phase that makes handleRunBenchmark
\* refuse its node and sweepOldBenchmarkJobs keep it.
BenchmarkCancelEnds ==
    \A j \in jobRows :
        jobs[j].kind = "bench" /\ j \in witness.acked /\ step[j] = "ended"
            => ~BenchPhaseActive(jobs[j].status)
============================================================================
