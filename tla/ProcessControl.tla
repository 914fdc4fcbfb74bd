--------------------------- MODULE ProcessControl ---------------------------
(***************************************************************************)
(* Starting, stopping and restarting a runtime that has no service manager *)
(* (runtimeActionViaAgent in internal/admin/admin.go, handleRuntimeAction  *)
(* in internal/marboragent/control_actions.go and the process driver in    *)
(* internal/marboragent/control/process.go): the runtime is known by a PID *)
(* file, actions on it are serialized by a lock, a killed process stays a  *)
(* zombie until it is reaped, and each step may fail on its own.           *)
(***************************************************************************)
EXTENDS Integers, FiniteSets

CONSTANTS Actions,      \* requests the operator has in flight at once
          CommandSaved, \* a start_command was given when the driver was accepted
          MaxLaunches,  \* process ids the runtime may get
          MaxFaults     \* failing launches, writes and kills, and runtime crashes

ASSUME ProcessAssumption == /\ CommandSaved \in BOOLEAN /\ 0 \notin Actions
                            /\ MaxLaunches \in Nat \ {0} /\ MaxFaults \in Nat

NoPid == 0
Pids == 1 .. MaxLaunches

VARIABLES proc,      \* "none", "alive", "zombie" or "gone" for each pid
          pidFile,   \* the pid in the file, or NoPid when there is no file
          lock,      \* the request that holds the lock of this driver, or 0
          act,       \* each request: its kind, step, pid and command
          adminScope, \* the agent's token is of the admin tier
          launched, faults,
          orphans    \* history: launches neither recorded nor killed
processVars == <<proc, pidFile, lock, act, adminScope, launched, faults, orphans>>

NoAct == [kind |-> "none", pc |-> "idle", pid |-> NoPid, command |-> FALSE]
ProcessInit ==
    /\ proc = [p \in Pids |-> IF p = 1 THEN "alive" ELSE "none"]
    /\ pidFile = 1 /\ lock = 0
    /\ act = [a \in Actions |-> NoAct]
    /\ adminScope \in BOOLEAN
    /\ launched = 1 /\ faults = 0 /\ orphans = {}

\* processAlive answers yes for a zombie too.
ProcessAlive(p) == p # NoPid /\ proc[p] \in {"alive", "zombie"}
Fault == faults < MaxFaults /\ faults' = faults + 1
ActAt(a, pc) == act[a].pc = pc
Steps(a, pc) == act' = [act EXCEPT ![a].pc = pc]
EndsAs(a, result) == /\ act' = [act EXCEPT ![a] = [NoAct EXCEPT !.kind = act[a].kind, !.pc = result]]
                     /\ lock' = 0

\* runtimeActionViaAgent: the start command travels with a start only.
RuntimeActionViaAgent(a, kind) ==
    /\ act[a].pc \in {"idle", "ok", "error", "stoppedOnly"}
    /\ act' = [act EXCEPT ![a] = [kind |-> kind, pc |-> "arrived", pid |-> NoPid,
                                  command |-> kind = "start" /\ CommandSaved]]
    /\ UNCHANGED <<proc, pidFile, lock, launched, faults, orphans>>

\* handleRuntimeAction: a command needs the admin tier; then the lock.
RefuseScope(a) ==
    /\ ActAt(a, "arrived") /\ act[a].command /\ ~adminScope
    /\ Steps(a, "error")
    /\ UNCHANGED <<proc, pidFile, lock, launched, faults, orphans>>
LockControlAction(a) ==
    /\ ActAt(a, "arrived") /\ (act[a].command => adminScope)
    /\ lock = 0 /\ lock' = a
    /\ Steps(a, IF act[a].kind = "start" THEN "start" ELSE "stop")
    /\ UNCHANGED <<proc, pidFile, launched, faults, orphans>>

\* ProcessDriver.Stop: no PID file or no such process is an error; the kill is sent.
Stop(a) ==
    /\ ActAt(a, "stop")
    /\ IF ~ProcessAlive(pidFile) THEN EndsAs(a, "error") /\ UNCHANGED <<proc, faults>>
       ELSE \/ /\ proc' = [proc EXCEPT ![pidFile] = "zombie"]
               /\ act' = [act EXCEPT ![a] = [act[a] EXCEPT !.pc = "reap", !.pid = pidFile]]
               /\ UNCHANGED <<lock, faults>>
            \/ Fault /\ EndsAs(a, "error") /\ UNCHANGED proc
    /\ UNCHANGED <<pidFile, launched, orphans>>

\* It waits until the process is gone, or gives up with an error.
StopWaits(a) ==
    /\ ActAt(a, "reap")
    /\ \/ /\ ~ProcessAlive(act[a].pid)
          /\ IF act[a].kind = "stop" THEN EndsAs(a, "ok") ELSE Steps(a, "start") /\ UNCHANGED lock
          /\ UNCHANGED faults
       \/ ProcessAlive(act[a].pid) /\ Fault /\ EndsAs(a, "error")
    /\ UNCHANGED <<proc, pidFile, launched, orphans>>

\* ProcessDriver.Start: nothing to run is an error, a live process in the file is
\* success, else a process is launched.  A restart whose start fails removes the file.
FailsStart(a) == /\ EndsAs(a, IF act[a].kind = "restart" THEN "stoppedOnly" ELSE "error")
                 /\ pidFile' = IF act[a].kind = "restart" THEN NoPid ELSE pidFile
Start(a) ==
    /\ ActAt(a, "start")
    /\ CASE ~act[a].command -> FailsStart(a) /\ UNCHANGED <<proc, launched, faults>>
         [] act[a].command /\ ProcessAlive(pidFile) -> EndsAs(a, "ok") /\ UNCHANGED <<proc, pidFile, launched, faults>>
         [] OTHER -> \/ /\ launched < MaxLaunches /\ launched' = launched + 1
                        /\ proc' = [proc EXCEPT ![launched'] = "alive"]
                        /\ act' = [act EXCEPT ![a] = [act[a] EXCEPT !.pc = "file", !.pid = launched']]
                        /\ UNCHANGED <<pidFile, lock, faults>>
                     \/ Fault /\ FailsStart(a) /\ UNCHANGED <<proc, launched>>
    /\ UNCHANGED orphans

\* writePIDFile renames a finished file into place; when that fails the new process is
\* killed rather than left untracked, and when that fails too it runs on, untracked.
WritePIDFile(a) ==
    /\ ActAt(a, "file")
    /\ \/ pidFile' = act[a].pid /\ EndsAs(a, "ok") /\ UNCHANGED <<proc, faults, orphans>>
       \/ /\ Fault /\ FailsStart(a) /\ UNCHANGED orphans
          /\ proc' = [proc EXCEPT ![act[a].pid] = IF @ = "alive" THEN "zombie" ELSE @]
       \/ /\ faults + 1 < MaxFaults /\ faults' = faults + 2
          /\ FailsStart(a) /\ orphans' = orphans \cup {act[a].pid} /\ UNCHANGED proc
    /\ UNCHANGED launched

\* The kernel reaps a dead process; the runtime may die on its own.
Reaps(p) == /\ proc[p] = "zombie" /\ proc' = [proc EXCEPT ![p] = "gone"]
            /\ UNCHANGED <<pidFile, lock, act, launched, faults, orphans>>
Dies(p) == /\ proc[p] = "alive" /\ Fault /\ proc' = [proc EXCEPT ![p] = "zombie"]
           /\ UNCHANGED <<pidFile, lock, act, launched, orphans>>

ProcessNext ==
    /\ UNCHANGED adminScope
    /\ \/ \E a \in Actions : \/ \E kind \in {"start", "stop", "restart"} : RuntimeActionViaAgent(a, kind)
                             \/ RefuseScope(a) \/ LockControlAction(a) \/ Stop(a) \/ StopWaits(a)
                             \/ Start(a) \/ WritePIDFile(a)
       \/ \E p \in Pids : Reaps(p) \/ Dies(p)
ProcessSpec == ProcessInit /\ [][ProcessNext]_processVars

-----------------------------------------------------------------------------
ProcessTypeOK ==
    /\ proc \in [Pids -> {"none", "alive", "zombie", "gone"}] /\ pidFile \in Pids \cup {NoPid}
    /\ lock \in Actions \cup {0} /\ launched \in 0 .. MaxLaunches /\ faults \in 0 .. MaxFaults
    /\ orphans \subseteq Pids /\ \A a \in Actions : act[a].pid \in Pids \cup {NoPid}

\* However starts, stops and restarts overlap and fail, one runtime runs at most, and
\* between actions the PID file names it: the only processes left that nothing can stop
\* are those whose PID file could not be written and which could not be killed then,
\* as the answer to the operator says of them.
OneRuntime ==
    LET alive == {p \in Pids \ orphans : proc[p] = "alive"} IN
    /\ Cardinality(alive) <= 1
    /\ lock = 0 => alive \subseteq {pidFile}

\* "Start/Stop/Restart ... actually start/stop/restart the inference runtime process
\* via the agent's systemd/Docker/process/... driver": with a start command saved, a
\* restart in which nothing fails never ends with the runtime stopped for good.
RestartBringsBack ==
    CommandSaved /\ adminScope /\ faults = 0 => \A a \in Actions : act[a].pc # "stoppedOnly"
=============================================================================
