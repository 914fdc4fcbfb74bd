---------------------------- MODULE AgentService ----------------------------
(***************************************************************************)
(* The agent as a service of its host: `marbor-agent service` with install,*)
(* uninstall, start, stop and regen-cert (internal/marboragent/            *)
(* service_cmd.go), the three service managers behind it (service_linux,   *)
(* service_darwin, service_windows), the certificate they keep             *)
(* (tlscert.go) and the agent they start (agent.go).                       *)
(*                                                                         *)
(* A command is the sequence of its steps; every step may fail, and the    *)
(* command may be killed before any of them.  Certificates and keys are    *)
(* numbered by the generation that made them, tokens by the server's       *)
(* rotations; 0 is an absent one.                                          *)
(***************************************************************************)
EXTENDS Naturals, Sequences

CONSTANTS Platforms,       \* a subset of {"linux", "darwin", "windows"}
          MaxPairs,        \* bound: generations of key pairs
          MaxTokens,       \* bound: tokens the server hands out
          MaxCommands,     \* bound: commands an operator runs
          MaxServiceFaults \* bound: failing steps, kills, deaths of the agent

ASSUME ServiceAssumption ==
    /\ Platforms \subseteq {"linux", "darwin", "windows"}
    /\ {MaxPairs, MaxTokens, MaxCommands, MaxServiceFaults} \subseteq Nat

VARIABLES
    platform,
    certFile, keyFile,  \* generation of the pair each file belongs to
    expired,            \* the certificate on disk is past its validity
    unit,               \* unit file, plist or SCM entry: "none", "partial", "whole"
    tokenFile,          \* environment file, plist or registry value
    atBoot,            \* starts at boot
    daemon,             \* the agent process: [st, cert, token]; "off" when stopped,
                        \* "dead" when it ended by itself
    issued,             \* the token the server expects, by number
    code,               \* the server holds an enrollment code not yet redeemed
    pin,                \* generation the server has pinned
    command,            \* the command under way: [op, steps, token, root, missed]
    told,               \* how the last command ended
    made,               \* generations so far
    rotated,            \* history: a regeneration, a purge or expiry has begun
    ran, mishaps        \* bounds

hostVars == <<certFile, keyFile, expired, unit, tokenFile, atBoot, daemon>>
serviceVars == <<platform, hostVars, issued, code, pin, command, told, made, rotated, ran, mishaps>>

Off == [st |-> "off", cert |-> 0, token |-> 0]
NoCommand == [op |-> "none", steps |-> <<>>, token |-> 0, root |-> FALSE, missed |-> FALSE]

ServiceInit ==
    /\ platform \in Platforms
    /\ certFile = 0 /\ keyFile = 0 /\ expired = FALSE
    /\ unit = "none" /\ tokenFile = 0 /\ atBoot = FALSE /\ daemon = Off
    /\ issued = 1 /\ code = TRUE /\ pin = 0
    /\ command = NoCommand /\ told = "nothing" /\ made = 0 /\ rotated = FALSE
    /\ ran = 0 /\ mishaps = 0

-----------------------------------------------------------------------------
(* The steps of each command on each platform. *)

LinuxInstall == <<"token", "key", "cert", "unit", "reload", "enable", "restart">>
DarwinInstall == <<"key", "cert", "unit", "unload", "start">>
WindowsInstall == <<"key", "cert", "unit", "token", "stop", "wait", "start">>

LinuxUninstall(purge) ==
    <<"stop", "disable", "rmunit", "rmtoken", "reload">>
    \o IF purge THEN <<"rmbinary", "rmcert", "rmkey">> ELSE <<>>
DarwinUninstall(purge) ==
    <<"unload", "rmunit">> \o IF purge THEN <<"rmbinary", "rmcert", "rmkey">> ELSE <<>>
WindowsUninstall(purge) ==
    <<"stop", "delete">> \o IF purge THEN <<"rmbinary", "rmcert", "rmkey">> ELSE <<>>

InstallSteps == CASE platform = "linux" -> LinuxInstall
                  [] platform = "darwin" -> DarwinInstall
                  [] OTHER -> WindowsInstall
UninstallSteps(purge) == CASE platform = "linux" -> LinuxUninstall(purge)
                           [] platform = "darwin" -> DarwinUninstall(purge)
                           [] OTHER -> WindowsUninstall(purge)
RegenSteps == <<"key", "cert", "stop", "start">>

\* Steps whose failure the command ignores.
Ignored(step) ==
    \/ step \in {"disable", "rmtoken", "unload", "delete", "rmcert", "rmkey", "wait"}
    \/ step = "stop" /\ command.op # "stop"

-----------------------------------------------------------------------------
(* The command line. *)

Mishap == mishaps < MaxServiceFaults /\ mishaps' = mishaps + 1
Ends(res) == command' = NoCommand /\ told' = res
SameHost == UNCHANGED hostVars

BeginCommand(op, steps, token, root) ==
    /\ command = NoCommand /\ ran < MaxCommands /\ ran' = ran + 1
    /\ told' = "nothing"
    /\ command' = [op |-> op, steps |-> steps, token |-> token, root |-> root,
                  missed |-> FALSE]
    /\ SameHost /\ UNCHANGED <<platform, issued, pin, made, mishaps>>

\* install with MARBOR_AGENT_SECRET: the manager looks for root before anything else.
RunServiceInstall ==
    /\ BeginCommand("install", InstallSteps, issued, TRUE)
    /\ UNCHANGED <<code, rotated>>

\* install --enroll exchanges the code first; the answer may be lost on its way.
ExchangeEnrollmentCode ==
    /\ code /\ code' = FALSE
    /\ \/ BeginCommand("install", InstallSteps, issued, TRUE)
       \/ /\ command = NoCommand /\ ran < MaxCommands /\ ran' = ran + 1
          /\ Mishap /\ told' = "failed"
          /\ SameHost /\ UNCHANGED <<platform, issued, pin, made, command>>
    /\ UNCHANGED rotated

RunServiceUninstall ==
    \E purge \in BOOLEAN, root \in BOOLEAN :
        /\ BeginCommand(IF purge THEN "purge" ELSE "uninstall", UninstallSteps(purge), 0, root)
        /\ rotated' = (rotated \/ purge) /\ UNCHANGED code

RunServiceRegenCert ==
    /\ BeginCommand("regen", RegenSteps, 0, TRUE)
    /\ rotated' = TRUE /\ UNCHANGED code

RunServiceControl ==
    /\ \E op \in {"start", "stop"} : BeginCommand(op, <<op>>, 0, TRUE)
    /\ UNCHANGED <<code, rotated>>

-----------------------------------------------------------------------------
(* What each step does to the host. *)

CertAndKeyValid == certFile # 0 /\ certFile = keyFile /\ ~expired

\* The agent reads its token and its pair when it starts, and exits without them.
Launch(cert, key, token) ==
    IF token # 0 /\ cert # 0 /\ cert = key THEN [st |-> "up", cert |-> cert, token |-> token]
    ELSE [Off EXCEPT !.st = "dead"]

\* EnsureAgentCert makes a pair unless the one on disk is valid, or always if forced.
EnsureAgentCert == command.op = "regen" \/ ~CertAndKeyValid

Step == Head(command.steps)
Rest == Tail(command.steps)

WriteKey ==
    /\ Step = "key"
    /\ IF EnsureAgentCert
       THEN /\ made < MaxPairs /\ made' = made + 1 /\ keyFile' = made + 1
            /\ command' = [command EXCEPT !.steps = Rest]
       ELSE /\ command' = [command EXCEPT !.steps = Tail(Rest)]
            /\ UNCHANGED <<made, keyFile>>
    /\ UNCHANGED <<certFile, expired, unit, tokenFile, atBoot, daemon, told>>

\* The effect of the other steps on the files, the registration and the process.
Effect(step) ==
    /\ certFile' = CASE step = "cert" -> keyFile [] step = "rmcert" -> 0 [] OTHER -> certFile
    /\ keyFile' = IF step = "rmkey" THEN 0 ELSE keyFile
    /\ expired' = (expired /\ step \notin {"cert", "rmcert"})
    /\ unit' = CASE step = "unit" -> "whole" [] step \in {"rmunit", "delete"} -> "none" [] OTHER -> unit
    /\ tokenFile' = CASE step = "token" -> command.token
                      [] step = "unit" /\ platform = "darwin" -> command.token
                      [] step = "rmtoken" -> 0
                      [] step = "rmunit" /\ platform = "darwin" -> 0
                      [] step = "delete" -> 0
                      [] OTHER -> tokenFile
    /\ atBoot' = CASE step = "enable" -> TRUE
                    [] step = "unit" /\ platform = "windows" -> TRUE
                    [] step = "start" /\ platform = "darwin" -> TRUE
                    [] step \in {"disable", "unload", "delete"} -> FALSE
                    [] step = "stop" /\ platform = "darwin" -> FALSE
                    [] OTHER -> atBoot
    /\ daemon' = CASE step \in {"start", "restart"} ->
                        IF step = "start" /\ daemon.st = "up" THEN daemon
                        ELSE Launch(certFile, keyFile, tokenFile)
                   [] step = "unload" -> Off
                   [] step = "stop" ->
                        IF platform # "windows" THEN Off
                        ELSE IF daemon.st = "up" THEN [daemon EXCEPT !.st = "stopping"]
                        ELSE daemon
                   [] OTHER -> daemon

\* Nothing here is possible without root, nothing is started that is not registered
\* and whole; macOS refuses to load what is loaded and Windows to start what runs or
\* is still stopping, while systemd has nothing to do then.
Possible(step) ==
    /\ command.root
    /\ step \in {"enable", "restart", "start"} => unit = "whole"
    /\ step = "start" => \/ platform = "linux"
                         \/ platform = "darwin" /\ daemon.st = "off"
                         \/ platform = "windows" /\ daemon.st \in {"off", "dead"}
    /\ step = "wait" => daemon.st # "stopping"

\* A file that is not there needs no removing.
Needless(step) ==
    \/ step = "rmunit" /\ unit = "none"
    \/ step = "rmtoken" /\ tokenFile = 0

Advance(missed) ==
    IF Rest = <<>> THEN Ends("ok")
    ELSE command' = [command EXCEPT !.steps = Rest, !.missed = @ \/ missed] /\ UNCHANGED told

DoStep ==
    /\ command # NoCommand /\ UNCHANGED mishaps
    /\ \/ WriteKey /\ command.root
       \/ /\ Step # "key" /\ Possible(Step) /\ Effect(Step) /\ Advance(FALSE)
          /\ UNCHANGED made
       \/ /\ Needless(Step) /\ ~Possible(Step) /\ SameHost /\ Advance(FALSE)
          /\ UNCHANGED made
    /\ UNCHANGED <<platform, issued, code, pin, rotated, ran>>

\* A step that fails has no effect; the command goes on or reports the error.
FailStep ==
    /\ command # NoCommand
    /\ IF Possible(Step) THEN Mishap ELSE ~Needless(Step) /\ UNCHANGED mishaps
    /\ IF Ignored(Step) THEN Advance(TRUE) ELSE Ends("failed")
    /\ SameHost /\ UNCHANGED <<platform, issued, code, pin, made, rotated, ran>>

\* The command is killed: a file that is written in place may be left cut short, a
\* key or a certificate is renamed into place.
KillCommand ==
    /\ command # NoCommand /\ Mishap
    /\ \/ SameHost
       \/ /\ Step = "token" /\ platform = "linux" /\ tokenFile' = 0
          /\ UNCHANGED <<certFile, keyFile, expired, unit, atBoot, daemon>>
       \/ /\ Step = "unit" /\ platform # "windows" /\ unit' = "partial"
          /\ UNCHANGED <<certFile, keyFile, expired, tokenFile, atBoot, daemon>>
    /\ Ends("killed")
    /\ UNCHANGED <<platform, issued, code, pin, made, rotated, ran>>

-----------------------------------------------------------------------------
(* The host and the server. *)

HostOnly == UNCHANGED <<platform, issued, code, pin, command, told, made, rotated, ran>>
DaemonOnly == UNCHANGED <<certFile, keyFile, expired, unit, tokenFile, atBoot>> /\ HostOnly

\* The stop request of Windows is answered at once and carried out later (Execute).
StopCompletes ==
    /\ daemon.st = "stopping" /\ daemon' = Off
    /\ UNCHANGED mishaps /\ DaemonOnly

\* The agent dies, or the host restarts and starts what is atBoot.
AgentDies ==
    /\ daemon.st = "up" /\ Mishap /\ daemon' = [Off EXCEPT !.st = "dead"] /\ DaemonOnly
HostReboots ==
    /\ command = NoCommand /\ Mishap
    /\ daemon' = IF atBoot /\ unit = "whole" THEN Launch(certFile, keyFile, tokenFile) ELSE Off
    /\ DaemonOnly

\* Restart=on-failure and KeepAlive; the SCM entry asks for no such thing.
SupervisorRestarts ==
    /\ platform # "windows" /\ unit = "whole" /\ daemon.st = "dead"
    /\ daemon' = Launch(certFile, keyFile, tokenFile)
    /\ UNCHANGED mishaps /\ DaemonOnly

CertExpires ==
    /\ certFile # 0 /\ ~expired /\ Mishap
    /\ expired' = TRUE /\ rotated' = TRUE
    /\ UNCHANGED <<platform, certFile, keyFile, unit, tokenFile, atBoot, daemon, issued, code, pin,
                   command, told, made, ran>>

\* The server rotates the node's token and issues a code for it.
RotateToken ==
    /\ issued < MaxTokens /\ issued' = issued + 1 /\ code' = TRUE
    /\ SameHost /\ UNCHANGED <<platform, pin, command, told, made, rotated, ran, mishaps>>

\* The operator pins the certificate the agent shows.
PinCertificate ==
    /\ daemon.st = "up" /\ ~rotated /\ pin' = daemon.cert
    /\ SameHost /\ UNCHANGED <<platform, issued, code, command, told, made, rotated, ran, mishaps>>

ServiceNext ==
    \/ RunServiceInstall \/ ExchangeEnrollmentCode \/ RunServiceUninstall \/ RunServiceRegenCert
    \/ RunServiceControl \/ DoStep \/ FailStep \/ KillCommand
    \/ StopCompletes \/ AgentDies \/ HostReboots \/ SupervisorRestarts \/ CertExpires
    \/ RotateToken \/ PinCertificate

ServiceSpec == ServiceInit /\ [][ServiceNext]_serviceVars

-----------------------------------------------------------------------------
ServiceTypeOK ==
    /\ {certFile, keyFile, pin} \subseteq 0 .. made /\ tokenFile \in 0 .. issued
    /\ unit \in {"none", "partial", "whole"}
    /\ daemon.st \in {"off", "up", "dead", "stopping"}
    /\ told \in {"nothing", "ok", "failed", "killed"}

\* "a re-install/upgrade never regenerates an existing cert (which would invalidate
\* a fingerprint marbor already pinned)": whatever commands fail or are killed on
\* the way, only a regeneration, a purge or expiry takes the pinned pair away.
PinSurvives == pin # 0 /\ ~rotated => certFile = pin /\ keyFile = pin

\* "a service definition never points at a cert/key pair that doesn't actually exist
\* on disk" (Config): not while it is written, not after an uninstall that failed
\* half way.  On Windows, where a failed delete goes unnoticed, a purge can leave one.
UnitHasPair == unit = "whole" /\ platform # "windows" => certFile # 0 /\ keyFile # 0

\* A success that is reported is one: after install the agent runs with the token it
\* was given and a pair that matches, after regen-cert, if the service has a token
\* and could be stopped, with the new pair; and an uninstall has removed the
\* registration where its failure is noticed.
ToldIsDone ==
    [][told' = "ok" /\ told # "ok" =>
         /\ command.op = "install" \/ (command.op = "regen" /\ tokenFile # 0 /\ ~command.missed) =>
              daemon'.st = "up" /\ daemon'.cert = certFile /\ certFile = keyFile
         /\ command.op = "install" => daemon'.token = command.token
         /\ command.op \in {"uninstall", "purge"} /\ platform # "windows" => unit' = "none"]_serviceVars

\* "a crash between the two writes can never leave a mismatched cert/key pair on
\* disk" (EnsureAgentCert).
PairNeverMismatched ==
    command = NoCommand /\ certFile # 0 /\ keyFile # 0 => certFile = keyFile
=============================================================================
