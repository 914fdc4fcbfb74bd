# Marbor: a TLA+ verification project

Marbor is a gateway in front of a fleet of self-hosted inference nodes (Ollama,
vLLM, llama.cpp, TGI ...).  It authenticates API keys, counts their quotas, finds a
node for a model, queues a request while every node is full, fails over to other
nodes and other models, and overflows to cloud providers.  Around that path it polls
node health and host agents, loads and unloads models, drains overheating nodes,
guards the last replica of a model, keeps usage figures and an audit log, backs itself
up, and persists most of this in SQLite.

This directory holds TLA+ modules of the system, TLC configurations, and TLAPS proofs.
`PROJECT.json` maps every definition to the lines it models and lists runs, mutants,
hazards, findings and theorems.  Paths below are relative to `src/internal`.

    tlc -config Fleet.cfg MCFleet        # any run: its cfg and the module of section 4
    tlapm RequestQueueProofs.tla         # the proofs

## 1. Inventory

| Component | State | Operations | Module |
|---|---|---|---|
| Request queue (router/queue.go, queue_wait.go) | `queueDepth`, `notifyCh`, three settings, `ActiveConns` per node | wait, recheck, IncrConn, DecrConn, setters | `RequestQueue` |
| Key quotas (auth) | token map, name map, counters, their rows | Handler, Refund, PatchKey, AddKey, Reload, RevokeKey, Save, Load | `KeyQuota` |
| Request limits (auth, proxy/model_config.go, admin) | token bucket, model windows, login attempts, expiry reports | Allow, Refund, AllowModel, RecordTokens, login, SetExpiryAuditHook; merging of defaults | `RequestLimits` |
| Proxy handler (proxy/proxy.go, recover.go) | a handler's locals, slots, key flags; the recorder's tail | ServeHTTP, ErrorHandler, proxyToCloud; Write, finalize | `ProxyRequest`, `ResponseTail` |
| Cloud translation (proxy/cloudtranslate*.go) | two goroutines and their pipe | translate a stream, a body, a request | `CloudStream` |
| Cloud budget, usage figures (admin) | caps, hourly buckets, request log, counters, their queues | check, record, flush, shut down, load | `CloudSpend`, `UsageLedger` |
| Node pool, polls, warm rows (router/health.go, router.go, warmstate.go) | `nodes`, `prevHealthy`, `lastKnownVRAM`, NodeState health, tables `nodes`, `warm_state` | AddNode, RemoveNode, UpdateNodeURL, SyncNodes, pollNode, Flush, Restore | `NodePool` |
| Drain and thermal watchdog (router/thermal.go, scheduler.go) | `Draining`, `ThermalBreaches`, table `node_drain` | DrainNode, UndrainNode, the two polls, restart | `NodeDrain` |
| Warming and eviction (router/warmer.go, eviction.go, predictive.go) | reservations, cooldown, suppressed models; last use and size of each model | makeHeadroom, keep warm, scheduled warmup, unload; stamp, trim, forget | `WarmLoads`, `ModelBook` |
| Placement, replica roles, sessions (router/placement.go, prefixlocality.go) | pins, prefix table with its eviction queue; the walk's best node | score, resolve roles, filter, Route, sweep | `NodeScore`, `SessionRouting`, `PrefixLocality` |
| Agent polls (router/agent_poll.go, host_evidence.go, tls_dial.go) | agent fields of a node, host evidence | one cycle: snapshot, fetch, apply, clear | `AgentPoll` |
| Agent (marboragent) | identities, certificates, pid file, downloads | refresh; install ... regen-cert; start, stop, restart; pull | `AgentReport`, `AgentService`, `ProcessControl`, `ModelJobs` |
| Model jobs (admin, benchmark.go) | pull and benchmark jobs, probe keys | start, cancel, sweep, probe | `ModelJobs` |
| Catalog and fit advisor (admin/catalog*.go, fit_advisor.go) | none of its own | classify, recommend, gate of a pull | `ModelFit` |
| Admin configuration (admin.go, model_aliases.go) | settings, rules, schedules, providers, aliases: in cfg, router, tables | the editing handlers, reload, boot | `AdminConfig` |
| Node configuration (admin.go, router.go) | URLs, pins, overrides, agents: in pool and tables | add, patch, remove, agent edits, reload, boot | `NodeConfig` |
| Users, sessions, keys (admin.go) | users, sessions, key rows, live keys | login, password, roles, suspend; create, rotate, revoke | `Accounts` |
| Replica suggestions, sole-replica guard | reports, declarations, dismissals; restart markers | correlate, confirm, adopt, dismiss; check and act | `ReplicaSuggest`, `SoleReplica` |
| Audit log (audit, store) | write queue, drop count; rows and a reader's cursor | Log, writer, Close; QueryPage | `AuditLog` => `LossyLog`, `Store` |
| Store (store/sqlite.go, secretbox.go) | schema version, key file, secrets | Open, each migration | `Store` |
| Backup and restore (admin/backup_*.go, store/backupfile.go) | directory, locks, ledger, status file, restore slot, markers, memory of verified files | run, upload, prune, sweep; reserve; note; stage, hand off, swap; decompress, verify | `BackupDir`, `Restore`, `BackupArchive` |
| Backup commands (cli) | output and temporary file, progress | download, upload, restore, acknowledge | `BackupClient` |
| Metrics, parsing of configuration, other commands, UI, tooling | none, or reporting only | | not modelled |

**How they meet.**  A request passes auth (`KeyQuota`, `RequestLimits`), then
`ServeHTTP` (`ProxyRequest`), which asks the router for a node (`RequestQueue`;
`SessionRouting` says who may serve, `NodeScore` and `PrefixLocality` who is
preferred) and takes a slot on it, or asks the budget (`CloudSpend`) and goes to a
provider (`CloudStream`).  Its answer passes the recorder (`ResponseTail`) and is booked
(`UsageLedger`, `AuditLog`).  Which nodes can be routed to is what polls,
registrations (`NodePool`, `NodeConfig`), agents (`AgentReport`, `AgentPoll`), warmups
(`WarmLoads`) and drains (`NodeDrain`, guarded by `SoleReplica`) have made of them.
Each module sees the others as an environment that may do anything they may do:
`ProxyRequest` sees the router as "any node or none", `RequestQueue` sees polls as "a
node's status changes".  Shared state is in memory under many locks and in SQLite rows
that are written after the lock was released.

**What is hard.**  Limits compared after an atomic add; a notification missed between a
look and the capture of a channel; polls and jobs that outlive what they were started
for; memory and rows written in two steps without a lock over both; a refund that finds
its key by name, days later or after a rotation; a check of the budget, the disk, the
last replica or a declaration that is stale when it is acted upon; crashes between two
files, two rows or two statements of a migration; streams that break off.  `hazards` in
`PROJECT.json` lists them with their lines and properties.

## 2. Plan

Done: a request from outside to inside (`RequestQueue`, `KeyQuota`, `ProxyRequest`),
what it meets (limits, budget, recorder, translation, figures), the fleet (pool, drain,
agents, warming, placement, jobs), the administration (configuration, accounts, replicas,
store) and backups; proofs of every safety property a run checks but those section 6
ends with.

Left, in this order:

1. Proofs: the parts of `LimitsKept`, the report part of `AgentsSound`, settings and pins
   in `ConfigAgrees`, the key file of `DataSound`.
2. Compositions across components that share state: the slots of `RequestQueue` and
   `ProxyRequest` as implementations of one abstract counted resource; `NodePool` with
   `NodeDrain` for what a URL change carries over; `WarmLoads` with `SessionRouting`.
3. The schedule runner's clock (claim per minute), webhook order, and the wire of the
   agent's HTTP endpoints.

## 3. The modules

A step is one critical section, one atomic operation, one store call, one write to a
file or one select; everything else of a handler is folded into the step it follows.  A
definition that no specification uses and that `PROJECT.json` names under `mutants` is a
plausible bug that the property named with it detects.

**RequestQueue.**  `pc[r]` is the place of a request in
`WaitForNodeWithPrefixOpts`/`waitForNodeInternal`: `route`, `resolve` (CloudUsable),
`load` (limits), `claim`, `check`, `arm`, `select`, `recheck` or `lastLook`,
`leave` (the deferred decrement), then `routed`, `serving`, `notify`.  Loading the
limit, adding to the depth and comparing are three steps.  `woken[r]` says that the
channel a request captured has been closed.  A node is reduced to what the routing
filter makes of it and its connection count; which candidate wins the score is
arbitrary.  Time counts quanta and passes when every goroutine is parked.
`freeFor` is history.

**KeyQuota.**  One key (keys share nothing).  A keyState is a Go object: `own[r]` says
whether the object a request holds is still the one the name leads to.  The lookup of a
token and the read of its limits are one step, and so are the two halves of a refund,
because whatever comes between them commutes with one of them.  Counters roll over when
they are read, not at midnight, and `Decremented` does not roll them over, as in the
code.  `Export` and `SaveKeyCounters` are the two halves of `SaveToStore`.  `admitted`,
`missed`, `slack`, `peak`, `unflushed` are history: what was really let through in the
current period, how much of it the counter does not show, the worst of that, the largest
limit applied, and what a crash may lose.

**ProxyRequest.**  `req[r]` holds the locals of `ServeHTTP` that decide control: the
model the client named, the key's list, the current model and node, the slot held,
the tried set, the attempt, the body (reduced to the model it names and the node
whose profile it carries), the provider index.  A failed route, a rate limit, a used
up budget and every upstream or provider failure are choices.  An answer whose
headers have arrived is streamed until the upstream or the client ends it, and nothing
makes the upstream end it: the transport's timeouts bound the headers only
(proxy.go:110-112, 1396-1398).  `PatchKey` and `Disconnect` may happen between any two
steps.

**NodePool.**  One name.  NodeStates are numbered in order of creation; a poll
keeps the number it was started for while `pool` moves on.  `rows[m]` is the address
the row of a model was written for, which tells a stale row from a live one.
`adm[a]` runs add, remove, URL patch and reload with the locks they take;
`boot` is the restore of a restart.  The constants `Requests` and `Background`
select which of these happen in a run.

**NodeDrain.**  One node.  A writer is `idle`, has decided to `drain`, or has changed
memory and has a row write pending (`set`, `clear`); the write may fail, which the code
logs or ignores (admin.go:3760, 3794; thermal.go:78; scheduler.go:132).  Watchdog
readings come from the local poll or the agent poll, depending on `local`.  `excused` is
history: set when a write fails, a drain and an undrain cross, or a node is registered
over a leftover row; cleared by a write that succeeds and meets no other, and by a
restart.

**RequestLimits, ResponseTail, CloudSpend, UsageLedger.**  Time is ticks, and a bound is
stated for a window that begins at an arbitrary moment.  Response bodies are sequences of
the seven kinds of byte the recorder tells apart, cut into arbitrary writes.  A sum (cost,
count, tokens) is the set of calls it includes, so "counted twice" and "lost" are visible.
Every store call may fail: a sum of a budget that cannot be read refuses nobody
(`FailsOpen`, admin.go:6567-6571, 6613, 6618), and a failed record of what was spent is
ignored (admin.go:6549).  Rows may be unreadable at a start, the process may die between
any two writes.  `paid` is what the calls really cost, beside what was recorded, and
`failures` counts the store calls that failed.

**CloudStream.**  Provider, first translator, second translator and client are four
parties with an unbuffered pipe between the two; any may stop at any time.

**WarmLoads, ModelBook.**  One node.  `reserved` stands for loads no poll has shown yet;
`gpu` is what really is resident.  makeHeadroom is a loop of claim, choice of a victim,
unload and re-check, each its own step, run by the pinger and other loaders at once.  A
book of `ModelBook` is a map, an index of its keys and a counter written under three
disciplines, as in eviction.go.

**NodeScore, SessionRouting, PrefixLocality.**  The score is an integer (quarters of a
point), so that the walk with its reservations and tie-breaks can be compared with the
maximum.  Roles are computed from the declarations as `resolveSchedulingRolesAndHeads`
does and compared with what the declarations mean.  A pin has an identity, so that
dropping a pin that was replaced meanwhile is visible.  The prefix table has its order
list with stale slots.

**AgentPoll, AgentReport, AgentService, ProcessControl, ModelJobs.**  A node record is an
object with identity; a cycle may hold one that was replaced.  An agent reads ports,
runtimes and GPU processes one after another while they change.  Its registry of
identities is a file rewritten in place, as far as that works: it may stay as it was or
be cut, and a start with a file that does not parse begins with an empty registry
(runtime_identity.go:48-57, 143-153).  `saved` says whether the file holds what the main
scheduler last assigned; only then do ids outlive a restart.  A service
command is the sequence of its steps per platform, each of which may fail or be the last.
A killed process stays a zombie until reaped; one whose PID could not be written and that
could not be killed either is left running untracked (process.go:50-57, `orphans`).  A job
has a goroutine, a cancel, a sweep and a probe key; the server may crash at any step, and
a reload of the configuration, in two steps (`ReloadReads`, `ReloadApplies`), may make
live a probe's key that was removed between them (`orphans` of `ModelJobs`).

**ModelFit.**  The advisor and the gate of a pull are operators over one node's
telemetry; factors are exact fractions, sizes small integers.

**AdminConfig, NodeConfig, Accounts, Store, ReplicaSuggest, SoleReplica.**  Handlers run
concurrently, hold the locks the code holds, and make one store call per step, which may
fail.  Memory (`conf`, `routed`, `live`, `liveKey`) and tables (`disk`, `nodeRows`,
`overrides`) are separate; a crash keeps the tables, and the boot of
`src/cmd/marbor/main.go` reads them.  `missed`, `asked`, `bypassed`, `revokeAcked`,
`apart`, `surprised` are history.  In `Accounts` a key is an operator's, whose writers
hold `keysMu`, or a benchmark probe's, whose writers do not (benchmark.go:432, 532).  In
`ReplicaSuggest` the PATCH of a node's peers writes one row at a time (admin.go:4027),
and a reload adds nodes again without their overrides; `apart` is the set of nodes these
have left with different declarations in memory and table.  The guard of `SoleReplica`
is best effort and modelled as such: polls overtake each other, markers expire or are
lost by a restart of Marbor, an agent may carry out a restart after its caller gave up,
and a runtime may die by itself.  `surprised` are the nodes that went down with no call
under way for the guard or whose view comes from an overtaken poll, until a fresh
answer; `mishap` says that there ever was one.  `Store` runs each statement of the
migration from the schemas earlier releases left, and pages through the audit rows while
they grow.

**AuditLog, LossyLog.**  `AuditLog` has Log's check under the read lock, its
non-blocking send, the writer's select and drain and the two halves of Close.  `LossyLog`
is what its comments promise.  `AuditLog` instantiates it with a refinement mapping
(accepted entries are those in the channel or at the writer; Close counts as over when it
returns), and `ImplementsLossyLog` is the abstract specification as a property.

**Restore, BackupDir, BackupArchive, BackupClient.**  `BackupDir` has three parts: the
directory with its retention, the ledger of disk space, and the status file.  Disk and
memory are separate; every write to the disk is a step, and a crash may follow it.  A
name is a position in time order, a file's content its fingerprint, a file an inode that
others may replace or edit.  A verification is remembered for 24 hours, so a damaged
file may count as good meanwhile (`trusted`), and a committed backup is remembered
without being read (`noteVerified`).  A retention pass may fail to list, to verify or to
remove (`spared`).  The status file is read without a lock and installed later; when it
cannot be written, its copy beside the database is (`beside`).  The ledger measures
before it takes its lock, as the code does.  The removal of a partial output or of a
placeholder may fail; a restore's writes fail as `WriteFaults` says.  The client runs against a server and processes
that do as they please.

**Compositions.**  `MCProxyRequest`, `MCFleet`, `MCProgress`, `MCAdmin` and `MCBackups`
put modules side by side that share no state: `focus`, chosen initially, names the one
part of which a behaviour exercises every action, while the others rest.  Interleaving
parts that cannot influence one another would multiply states and show nothing.  Their
properties are conjunctions of the named parts, each under its `focus` (an unguarded
conjunct is trivially kept by the parts that rest); each part keeps one type invariant.

## 4. Runs

| Run | Module | Properties and their parts | Instance |
|---|---|---|---|
| `queue_wait` | RequestQueue | TypeOK, QueueBound, SlotAccounting, NoOversleptSlot, GiveUpIsDue, EveryRequestAnswered | 2 requests, 1 node with cap 1, depths 0-2, timeouts 0 and 2, SLA 1 |
| `quota_counters` | KeyQuota | KeysSound (OneWayIn), CounterExact, QuotaBound, CrashLoss | 2 requests, 2 tokens, 3 days of 2-day months, a daily or a monthly limit of 1 |
| `pool_races` | NodePool | NoGhosts (health, sizes), LiveSizesKept | 2 admin requests of every kind, 1 spawned poll, crashes, 2 NodeStates |
| `pool_recovery` | NodePool | Recovers, OutageDetected | thresholds 2, ticker and spawned poll, 2 NodeStates |
| `pool_rows` | NodePool | RowsConverge | ticker, spawned poll and flush |
| `pool_restore` (violation) | NodePool | RemovedNotRestored | 3 NodeStates, crash between requests |
| `proxy_request` | MCProxyRequest | SlotsBalanced; RequestKept (LocalOnlyKept, AllowListKept, CallsBounded, RefundedUnserved, BodyFollows); LimitsKept (RatesBounded, DefaultsYield, ExpiryAudited, TailBounded, CountHonest); UsageHonest (SpendBounded, GlobalCapKept, TokensNeverNewer, RowIsBehind, LedgerConserved, ShutdownDrains, ChartKept); RequestsEnd | 1 request on 2 nodes with 2 models that degrade to each other, or 2 on one node; bodies of up to 4 objects; 2 overflows over a month's end with 1 failing store call; 1 cloud and 2 local calls over 2 starts |
| `fleet` | MCFleet | LoadsSound (ReservedLoadsFit, OnePassPerCooldown, BooksBalanced); AgentsSound (IdentityKept, ReportSound, PinSurvives, UnitHasPair); RoutesSound (PlacedOnBest, WarmBeatsCold, RolesSound, PrefixEvictable); JobsSound (ProbeKeysEphemeral, PullOutcomeTrue); FleetSteps (ServingKept, SuppressedStaysCold, ServedBySchedulable, ToldIsDone) | 2 loaders and 2 models that do not fit together; 3 processes, 3 changes; 3 platforms, 3 commands, 2 faults; 2 candidates; 3 nodes with overlapping declarations; a table of 2 entries; 2 jobs on 2 nodes |
| `progress` | MCProgress | DrainAgrees; RecordsTrue (AgentVRAMBacked, NothingStranded, DropsCounted); AnswersWhole (DoneMeansWhole, WholeIsKept); ImplementsLossyLog; NodesSettle (HotIsDrained, AgentsConverge); WorkEnds (AcceptedIsSettled, CloseEnds, PullsEnd, GoroutinesReturn) | both watchdogs, an admin, a schedule, 3 churns; 1 host, threshold 2, 3 edits; 3 entries, queue of 2, 2 closers; 1 job; 4 frames |
| `admin` | MCAdmin | ConfigAgrees (GuardedPartsAgree, SettingsSavable, PinsSound, CompleteIsWhole, DeclarationsAgree); DataSound (MigratedAsIfOnce, SecretsReadable, WalkComplete, PageContiguous, AdviceSound, PickIsPullable); AccessKept (LiveKeysStored, RevokedStaysRevoked); ServiceKept (ServerLeft, OneRuntime); AdminSteps (NoSilentOverwrite, LeavesAServer) | 2 callers and 2 requests with 1 failing write and 1 crash per part; an operator's and a probe's key; 4 old schemas and 2 crashes; 4 rows, pages of 1; 3 nodes with the launches of 3 hosts; 2 nodes and 2 actions, crashes and overtaken polls among them; 3 launches and 3 faults |
| `backups` | MCBackups | RestoreSound (ReportsTruthful, AcceptedDiscoverable, AcceptedIsTried, SwapsWhatWasAccepted); BackupsKept (GoodBackupsKept, LiveTempsKept, RetentionEnforced, FloorKept, StatusSaved); ArchivesSound (DecompressFaithful, VouchedIsGood); ClientSound (DownloadSafe, ClientTellsTruth) | 2 restores over 3 starts, any of 3 writes failing; 2 contents, 2 names, 1 crash; 2 writers; 2 recorders, 2 directories, 2 changes of directory; 4 archives; 2 chunks, 2 faults, 3 server events |
| `benchmark_cancel` (violation) | ModelJobs | BenchmarkCancelEnds | 1 job on 1 node, no faults |

The composites also include the type invariant of each part they name.  With two workers
on a current machine the largest runs, `backups`, `fleet`, `proxy_request` and `admin`,
have 1.0 to 2.9 million distinct states and take two to three minutes each.

**Why the bounds are enough.**  Two requests, callers or loaders give every pair of
holder and waiter, writer and overwriter; the counting properties of the queue are
proved for any number.  Zero is among depths, timeouts, sizes and limits wherever it
disables something.  Three days and two-day months contain a day end within a month and
one that ends it.  Limits, queues and tables of one or two are met and overrun.  Two
NodeStates, node records or key states are the smallest number with a stale one and a
current one; the restore run needs a third NodeState.  Thresholds of two make hysteresis
visible.  One crash or failing write per request reaches each point between two writes;
migrations and restores get two crashes, since the recovery may be interrupted too.
Three nodes with overlapping declarations give each kind of conflict.  Every bound is a
constant named in the cfg, marked "bound" where it is declared, and stands in a guard;
`MaxCount`, `MaxDay`, `CallBound` and the caps of `breaches` and `failures` at their
limits are the others.  Symmetry is used only where no liveness property is checked.
Deadlock is checked in the runs of the queue, the quotas and the pool; the compositions
stop when their bounds are used up and say so (`CHECK_DEADLOCK FALSE`).

**Fairness.**  Weak fairness of a goroutine's own steps: Go schedules every runnable
goroutine, a probe has a 5 s timeout, a wait the queue timeout, a model download the
agent's, and tickers fire for ever.  An upstream's or a provider's headers arrive within
the transport's timeouts or the call fails; its body has no timeout, so
`EveryRequestEnds` says that a request ends unless it streams for ever to a client that
stays.  `RequestQueue` also says that time diverges, since a timer cannot fire
otherwise. `CloudStream` assumes that a provider's connection ends some day, which is
the provider's doing or the client's, not a timeout's: its properties say what becomes
of the goroutines then.  Nothing is assumed of clients, operators, key patches, crashes,
agents or the real node: `Recovers`, `OutageDetected`, `RowsConverge`, `HotIsDrained`
and `AgentsConverge` have "from some time on it stays so" as their premise, which the
instances satisfy in some behaviours and not in others.

## 5. Findings

Checked as runs:

- `RemovedNotRestored`: a poll that outlives a removal or a URL change writes
  warm_state rows after they were deleted (router/health.go:417); the next start seeds
  residency from them.  `RowsConverge` shows that a node that stays up repairs them.
- `BenchmarkCancelEnds`: `setPhase` (admin/benchmark.go:194) overwrites the terminal phase
  a cancel has set.  The goroutine then sees the cancelled context and ends, and the job
  stays active for ever: it blocks the node's next benchmark and no sweep takes it.

Stated as definitions of the modules, seen violated with TLC (put the name under
INVARIANT or PROPERTY of the part's run to see the trace; a row names what the instance
must have beyond that of the run), and not repeated as runs:

| Definition | What the code does |
|---|---|
| `HardQuota` (KeyQuota) | auth.go:694 calls quotas hard; a refund after midnight takes one off the new day (auth.go:172). `QuotaBound` is the bound that holds. |
| `TriedIsPerModel` (ProxyRequest) | proxy.go:1108 says the tried set must not carry over to a model switch; the retry loop after a substitution keeps it. |
| `ThermalPersisted` (NodeDrain) | thermal.go:69 says a thermal drain survives a restart; an undrain that crosses it writes the row last. |
| `KeyCapKept` (CloudSpend) | The rows of the request log carry neither cost nor the cloud mark, so a key's own USD cap never refuses. |
| `SpendKeepsUp` (UsageLedger) | Tokens may be stored before the spend of the same call, and a counters row that could not be read at a start is overwritten by the next flush. |
| `PairNeverMismatched` (AgentService) | tlscert.go:102-117 says no crash leaves a mismatched pair; a crash between the two renames does. |
| `LoadsFit` (WarmLoads) | Loads without a reservation, of unknown size or by requests themselves, may not fit together; `ReservedLoadsFit` is what holds. |
| `FreshPinKept` (SessionRouting) | placement.go:397 says a drop must not take a fresh pin; RouteWithPrefix (placement.go:1665) deletes the session's pin whichever it is by then (2 requests, 3 pins). |
| `LocalityNeverFlipsLoad` (NodeScore) | The configured weight of the prefix hint may outweigh a load difference. |
| `StrategySurvives`, `ProvidersAgree`, `AlwaysStarts` (AdminConfig) | Concurrent saves store the older value last; a crash between two settings leaves a pair the next start refuses (admin.go:6236, cmd/marbor/main.go:235). |
| `PinAlwaysEnforced`, `WidthCovered` (NodeConfig) | Paths that do not take `nodePatchMu` (reload, seeding, token rotation) bypass the check of a pin; the width is checked before the lock is taken (`WidthChoices` of 1 and 2). |
| `AnAdminRemains` (Accounts) | Two admins that demote each other both pass the count. |
| `AlwaysSavable` (AdminConfig) | A provider under a reserved name is created and stored unchecked (admin.go:2927-2957, store/sqlite.go:3159); while it is there the checks of a configuration (config.go:906-913) refuse every save of settings. |
| `OnlyGoodKept` (BackupDir) | backup_run.go:883 says a damaged file never takes the place of a good one; one whose verification is remembered does, for up to 24 hours (backup_verify.go:88-107). |
| `StatusAlwaysSaved` (BackupDir) | A recorder reads the status file of a new directory without a lock and installs it after another has saved an outcome there, which is lost (backup_status.go:217-228). |
| `NotedIsWritten` (BackupArchive) | `noteVerified` remembers as good, without reading it, whatever has the backup's name when it looks (backup_verify.go:137-152). |
| `LeftoversTold` (BackupClient) | A placeholder that could not be closed is removed without a look at the error (cli/backup_client.go:562-565), so it may stay untold. |
| `AcceptedIsSaved`, `NothingIsSaved` (BackupClient) | Any answer of 200 to 299, a proxy's page included, is told as an accepted upload (cli/backup_client.go:726-743); and the timer looks whether the file was sent before it cancels (672-678), so a backup told as not uploaded may be there. |
| `ServerLeft` (SoleReplica) | The guard looks at the models the target holds (router/replica_safety.go:115).  With two nodes that load on demand and three actions, the one without a model may go because it holds nothing, after the other went because this one would load it. |
| `ConfirmedResolves` (ReplicaSuggest) | Confirming does not look for other declarations that name a member; adopting does. |
| `RestartBringsBack` (ProcessControl) | A restart whose start is refused leaves the runtime stopped. |
| `InsufficientIsRefused` (ModelFit) | The gate of a pull knows the sizes of the library's tags only; a repository larger than the free disk passes when a tenth of the disk is free (a total of 50). |
| `FloorAlwaysKept` (BackupDir) | A reservation measured before another writer's release may cross the margin; `FloorKept` names the case. |

`OneRuntime` without `orphans` and `LeavesAServer` without `Mistaken` are false too: they
are what these parts cannot promise, not a disagreement, as process.go reports the
runtime it lost and sole_replica.go:61-65 calls the guard best effort.

Also met while modelling, without a property: a reload beside the removal of a probe's
key makes the key live again until a later reload or its expiry (the probe paths do not
take the `keysMu` that ReloadFromStore counts on); an uninstall on Windows reports
success when `sc` failed, and regen-cert there may start before the stop is over; a
reload drops declared host, pins and agents of the nodes it re-adds, and a provider's
priority; the overrides of a removed node return at a restart; registering a node again
resets its live limits; a PATCH of URL and pin is two rows; writing a whole user row
reverts a concurrent password change, and a login that races a suspension keeps its
session; a scheduler made for an early status request writes its own ids over those of
the main one (the run has the main one only); two processes that open an unencrypted
store at once may seal with different keys.

## 6. Proofs

Eight modules hold the proofs.  Every theorem is about all values of the constants that
satisfy the assumption of its module (any finite number of requests, nodes, entries ...),
where the runs of section 4 look at one small instance.  An inductive invariant that
TLC can evaluate was tried as an invariant of the part's run before it was proved.

| Theorem | States | Because |
|---|---|---|
| `TypeCorrect`, `SlotsCounted`, `DepthBounded` (RequestQueueProofs) | TypeOK, SlotAccounting, QueueBound | `IInv`, with `Ranked` |
| `GiveUpsDue`, `NoSlotOverslept` (RequestQueueProofs) | GiveUpIsDue, NoOversleptSlot | `Timely`, `Listening` |
| `OneWayThrough`, `CountersExact`, `QuotaBounded`, `CrashCosts` (KeyQuotaProofs) | KeysSound, CounterExact, QuotaBound, CrashLoss | `QInv`, with `SlackCovers` and `Recoverable` |
| `SlotsKept`, `RequestsKept`, `RequestsKeptBesides` (ProxyRequestProofs) | SlotsBalanced, RequestKept | `PInv`: `Good` of each handler's record |
| `GhostsGone`, `SizesOutlivePolls` (NodePoolProofs) | NoGhosts, LiveSizesKept | `PoolInv`, with `Locked` |
| `UsageStaysHonest` (ProxyRequestProofs) | UsageHonest | `SpendInv`; `LedgerInv` |
| `DrainTypes`, `DrainAgreement` (ProgressProofs) | TypeOK, DrainAgrees | `IInv`, with `OneValue` |
| `AuditBooks`, `AuditRefines`, `LossyLogImplemented` (ProgressProofs) | NothingStranded, DropsCounted; `AuditSpec => Abstract!LossySpec`; ImplementsLossyLog | `AuditInv`, with `CloseOrder` |
| `AgentFiguresBacked`, `RecordsStayTrue` (ProgressProofs) | AgentVRAMBacked; RecordsTrue | `AgentInv` |
| `LoadsStaySound` (FleetProofs) | LoadsSound | `WarmInv`, with `FitKept`; `BookInv` |
| `JobsStaySound` (FleetProofs) | JobsSound | `JobsInv` |
| `RoutesStaySound` (FleetProofs) | RoutesSound | `ScoreInv`; `RouteInv`; `PrefixInv`, with `TableOK` |
| `ServiceStaysWhole` (FleetProofs) | PinSurvives, UnitHasPair | `ServiceInv` |
| `StepsStaySafe` (FleetProofs) | FleetSteps | `WarmInv`; `RouteInv`; `ServiceInv` |
| `AccessIsKept` (AdminProofs) | AccessKept | `KeysSafe` |
| `OneRuntimeAlive`, `ServiceIsKept` (AdminProofs) | OneRuntime; ServiceKept | `ProcInv`; `SoleInv`, with `WarmLeft` |
| `OperatorsSeeTrue` (AdminProofs) | AdminSteps | `SugInv`; `SoleInv` |
| `DeclarationsKept` (AdminProofs) | DeclarationsAgree | `SugInv` |
| `RestoreToldTruly`, `RestoresSound` (BackupProofs) | ReportsTruthful, AcceptedIsTried, SwapsWhatWasAccepted; RestoreSound | `Told`; `Found` |
| `BackupsStayKept` (BackupProofs) | BackupsKept | `DirInv`; `SpaceInv`; `StatusInv` |
| `ClientStaysSound` (BackupProofs) | ClientSound | `ClientInv` |
| `ArchivesStaySound` (BackupProofs) | ArchivesSound | `ArchiveInv` |

**Request queue** (`QueueAssumption`).  That the counters are naturals is not a local
fact, since they are decremented unconditionally: it rests on `SlotAccounting`.
`QueueBound` is not inductive: when the one request that read a large limit leaves,
nothing is known of the rest.  `Ranked` says that every non-empty set of requests holding
a queue slot has a member whose add returned (or whose limit is) at least the size of the
set: the member that claimed last, which saw all the others.  It is closed under subsets,
so it survives any departure.  `Listening` relates how long a node has been routable to
the phase of each sleeping request's ticker: between two ticks a wake-up may be missed,
and the next tick ends that.

**Key quotas** (`QuotaAssumption`).  `QuotaBound` rests on `CounterExact`, because the
test for over-limit compares what the counter shows, and on `SlackCovers`.
`CounterExact` rests on `Dated`: no request is counted on a later day than today, so that
an undo after midnight can only fall on an earlier period.  `CrashLoss` is an action
property; `Recoverable` says of the row, and of the export being written, how far each is
behind the counter.

**Request handler** (`ProxyAssumption`).  The handler's locals are one record, and `Good`
says at which label which of its fields means what: which model it may use (`MayUse`),
how calls and attempts relate (`InBudget`), what body is in hand (`SendsBody`).  The
key's `local_only` flag changes under the handler's feet, so `StaysLocal` speaks of the
requests whose key has had it throughout.  Slots are counted from who holds one.

**Cloud budget and usage** (`SpendAssumption`, `LedgerAssumption`).  A budget is checked
before the call and charged after it, so the bound of `SpendBounded` speaks of calls in
flight, and of store calls that failed, each of which lets one request pass or leaves
one cost out of the sums: `DayFits` and `MonthFits` say that from the moment a cap is
reached, what was paid and what those who asked before may still pay stays below the cap
plus the number of requests and of failures.  The buckets of a month are summed, and a
day that begins opens a bucket that is empty.  `LedgerInv` follows each call from the
answer through the counters, the two queues and the rows (`CallGood`), says what the
flush under way has in hand (`FlushGood`), and that what is owed at a shutdown is on its
way as long as the logger runs (`OwedGood`).

**Node pool** (`ThresholdAssumption`).  A removal takes the name out of the pool and
sweeps its sizes in a later step, and a poll writes its answer and undoes it later.  Both
are safe because of `Locked`: whoever has yet to sweep holds `nodeLifecycleMu`, so that
no registration can come between.

**Drain flag** (`DrainAssumption`).  `DrainAgrees` is silent while a write is pending;
`OneValue` says that, unless excused, every pending write carries what memory holds, so
whichever lands last leaves the row right.  A failed write excuses until one succeeds:
the code does not repeat it.  What is proved is that nothing but a failure, a crossing or
a leftover row makes flag and row differ.

**Audit log** (`AuditAssumption`).  `CloseOrder`: Close raises the flag under the lock
before it signals the writer.  Under the mapping of `AuditLog` each step is a step of
`LossyLog` or a stutter; the lemmas `HeadInHand` and `HandFirst` say what the writer's
hand is to the sequence of outstanding entries.  `ImplementsLossyLog` states no fairness
of `LossyLog`, so the whole property is proved, within the composition too.

**Agent polls** (`AgentPollAssumption`).  A cycle writes records that may have left the
fleet or been replaced; `AgentInv` asks `Backed` of the records in the fleet only, and
gives the shape of everything carried from one lock to the next.

**Warm loads and books** (`WarmAssumption`, `BookAssumption`).  A reservation is made for
what the loader measured before it took the lock.  `FitKept`: unless somebody loaded
without a reservation, what is resident and reserved fits, and the need of each loader
covers its model and all it has not seen (`CoversRest`).  In the books `StampedBook`
relates map, index and count, and `LastUndone` says that an entry of a removed node has a
recording that will look back at it.

**Jobs and the agent's service** (`ModelJobsAssumption`, `ServiceAssumption`).  `JobsInv`
says at which step of a job its rows, its probe key and its cancel are where.  A probe's
key that is live after its probe is one whose removal met a reload, or whose row could not
be deleted (`orphans`); a reload between its two steps holds only keys of probes under way
and of these.  A command
of the service is a plan of steps; `OnPlan` says that what is left is the end of a plan,
and `StepsDone` what the steps before it have achieved, whichever failed.

**Placement, roles, prefix table** (`NodeScoreAssumption`, `RoutingAssumption`,
`PrefixAssumption`).  `Leads`: the walk's best is at least as good as all visited so far,
and the only one that holds a reservation.  Roles are computed by a union-find over the
slice: `FoldExists` and `FoldHolds` say that a fold over a sequence is what one computes
by going through it, from them `RootsLink` shows that two nodes have the same root exactly
when declarations connect them, and `RoleIsMeant` that the role follows.  `TableOK` says
that every entry of the prefix table has a slot of its last number in the order list,
oldest first, so that an eviction finds one.

**Process, last replica, replica groups** (`ProcessAssumption`, `SoleAssumption`,
`SugAssumption`).  `AliveTracked`: whoever is alive is the process in the file, unless a
launch is under way under the lock; a process that could be neither recorded nor killed
(`orphans`) is left out, as the answer to the operator names it.  The guard reads the
fleet before it acts.  `Lasts` says that the router never knows less of a node than what
is there.  `MarkedSince` says that after a restart the marker hides the node until a poll
that began later has answered, or until no answer from before is believed any more; it is
asked of the nodes that are not `surprised`, that is, which did not go down by themselves
or by a restart whose caller had gone, nor are seen through an overtaken poll.
`LeavesAServer` follows for any fleet, through crashes of Marbor and the loss of its
markers: only a surprised node may be taken for a spare (`Mistaken`).  `ServerLeft` looks
back over a whole behaviour and is stated while no node was ever surprised (`mishap`);
`ServiceIsKept` assumes `OneOnDemand`, without which it is false (section 5).  An operator
who applies a group holds `nodePatchMu`, so what was checked still holds (`Checked`).
`DeclarationsKept` speaks of the nodes not `apart`: a PATCH that could not be stored, and
a node a reload added again, leave memory and table different, and nothing repairs them
but another PATCH or a restart.

**Backup directory, disk space, status file** (`BackupDirAssumption`,
`DiskSpaceAssumption`, `BackupStatusAssumption`).  `PoolsKept` relates the files a pass
would drop to the budget, to the passes that are pending and to what the last pass spared
because it could not be listed, verified or removed.  What it counts are the files that
count as good, damaged ones whose verification is remembered among them (`Counted`);
`OnlyGoodKept`, of the good files alone, is false.  `PassesGood`
says that a pass which works from an old listing names only files of its own pool.
`MarginLeft` adds up, over all writers, what their reservations may still write, and
`SeenGood` says what a measurement that is not stale promises.  `BackupsStayKept` assumes
that the volume has its margin at the start (`Volume >= FloorSpace`).  `StatusInv` says
that the status a restart would load is the noted one, or the freshest save is under way:
unless the save failed or the directory came or went since (`unsaved`), or the memory was
replaced under a save or by a reading that was overtaken (`mixed`).

**Backup commands** (`ClientAssumption`).  `ClientInv` says at each step what the output
name and the temporary file hold.  `ClientStaysSound` assumes, as the run does, that no
other process puts a file in the place of the client's empty placeholder
(`OthersReplace`): the rename that follows would take it.  Creating a file is allowed.
An upload told as accepted is on the server unless the answer was a page of a proxy.

**Archives** (`ArchiveAssumption`).  A file that exists stays as it is, gets a later
modification time, or rots (`Aged`); so what a verification has read is true of the file
as long as its modification time is the one that was seen (`Knows`), and what is
remembered after a reading is right unless the file rotted later (`Vouches`).  An entry
that `noteVerified` made has read nothing (`Trusted`); of the file it was meant for,
`NotingGood` says that it is good as long as its time is the one it was written with, and
an entry for anything else is not `seen`.  `Running` says of a
decompression that it has written every member before the one in hand, all of them
intact, and the blocks it took of that one; a failed removal of its output is told.
`ArchivesStaySound` needs no hypothesis: it
holds for any archives, plans, limits and size of the memory.

**Restores** (`RestoreAssumption`).  The slot, the handler, the hand-off and the pending
marker speak of the same restore, which is newer than any report (`SlotHeld`, `InHand`,
`HandedOver`, `Busy`).  This gives everything but `AcceptedDiscoverable` whichever writes
fail and wherever the process dies.  `AcceptedDiscoverable` is false when the write of
the status file or the removal of a marker may fail (TLC shows it when `"save"` or
`"unlink"` is added to `WriteFaults`: an outcome that could not be removed hides a later
marker; the code logs such a failure and goes on).  `RestoresSound` therefore assumes
`Reliable`, which the run satisfies with its three other write faults.

**API keys** (`AccountsAssumption`).  `AccessKept` is about the keys of operators; a
benchmark's probe key may come back with a reload (`JobsStaySound` says when).  A reload
reads the stored keys and later makes them live; a rotation, a revocation or a
suspension in between would be undone.  `Held` (only the holder of `keysMu` is between
the two) keeps what it read true (`ReadStored`), and `RevokedBehind` says that an
acknowledged revocation names a version the key has left, or one that is no longer
active.

The hypotheses in the modules' assumptions are of three kinds: sets are finite where
something is counted; bounds are naturals; and a value that stands for "none" is not a
member of what it is distinguished from.

**Only model-checked.**  All liveness properties (`EveryRequestAnswered`, `Recovers`,
`OutageDetected`, `RowsConverge`, `RequestsEnd`, `NodesSettle`, `WorkEnds`): fairness
and `ENABLED` are out of TLAPS's reach.  `AnswersWhole`, and `TailBounded` and
`CountHonest` in `LimitsKept`: what a computed sequence or a RECURSIVE operator yields
for every input needs induction over data, which the library's theorems offer only with
an operator parameter, and expansion of RECURSIVE declarations, which no backend does.
(Where induction over a finite set or along a fold was enough, a smallest counterexample
replaces it: sums, roots and the prefix table are done so.)  Not proved yet: the rest of
`LimitsKept` (`RatesBounded`, `DefaultsYield`, `ExpiryAudited`); `AgentsSound` (its half
about the service is `ServiceStaysWhole`); `ConfigAgrees` (its part `DeclarationsAgree`
is `DeclarationsKept`); `DataSound`.

The version of `tlapm` used here (1.4.5) takes the inner `@` of a nested `EXCEPT` for the
outer one, and stops on a binder of tuples; the definitions avoid both, and mostly write
a change to several fields of a record as one inner `EXCEPT` of it.

## 7. Not modelled, and why

- Scores as floating-point numbers: `NodeScore` uses integers and inputs for which the
  code's quotients are whole.
- The wall clock of schedules: a schedule may fire at any time.
- Runtime detection, static models, metrics scraping and hardware probes: I/O whose
  results the modules choose arbitrarily.
- Webhook order, metrics, logs, message text, and request bodies beyond model, profile
  and settings.
- SQLite itself: a statement or a transaction is atomic, and may fail where the code
  handles the failure.
- HTTP routing and framing, the parsing of flags and files, reporting queries,
  the registries behind the catalog, UI, other commands, tooling and deployment files.
