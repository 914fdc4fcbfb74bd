------------------------------ MODULE MCAdmin ------------------------------
(* The parts of the admin API and of the store behind it, side by side: each *)
(* behaviour exercises the one part `focus` names, with its concurrent       *)
(* requests, store faults and crashes, while the others rest.  They share no *)
(* state here, so one run explores them all.                                 *)
EXTENDS AdminConfig, NodeConfig, Store, Accounts, ReplicaSuggest, SoleReplica,
        ProcessControl, ModelFit

VARIABLE focus

adminApiVars == <<focus, adminVars, configVars, storeVars, pageVars, accountVars, sugVars, soleVars,
                  processVars, telemetry>>

-----------------------------------------------------------------------------
(* Settings, rules and schedules: a head and its worker with one model. *)

MCPlanRole == [n \in PlanNodes |-> IF n = "w" THEN "worker" ELSE "head"]
MCPlanHead == [n \in PlanNodes |-> "h"]
MCPlanCatalog == [n \in PlanNodes |-> {"m"}]

(* Nodes: two, each on a host of its own. *)

MCFirstUrls == [n \in {"a", "b"} |-> [host |-> IF n = "a" THEN "h" ELSE "g", port |-> 1]]

(* The databases earlier releases left behind: secrets in plain text with one *)
(* row of profiles per model and the agents' tokens by node; the first        *)
(* encryption, half its columns added; and a fresh file.                      *)

MCSchemaHost == [n \in SchemaNodes |-> "h"]
Unsealed(v) == [v |-> v, form |-> "plain", under |-> 0]
FirstSeal(v, k) == [v |-> v, form |-> "v1", under |-> k]
OldestSchema ==
    [version |-> 0, stamped |-> FALSE, tables |-> TRUE, columns |-> {},
     profiles |-> [byNode |-> FALSE, rows |-> {"m"}],
     legacy |-> [exists |-> TRUE, rows |-> ("a" :> Unsealed("ta") @@ "b" :> Unsealed("tb"))],
     agents |-> <<>>,
     secrets |-> [provider |-> Unsealed("p"), setting |-> Unsealed("s")]]
MCOldSchemas ==
    {OldestSchema,
     [OldestSchema EXCEPT
        !.version = 1, !.stamped = TRUE, !.columns = {"c1"},
        !.legacy = [exists |-> FALSE, rows |-> <<>>],
        !.agents = ("a" :> FirstSeal("ta", 1) @@ "h" :> FirstSeal("th", 1) @@ "z" :> FirstSeal("tz", 1)),
        !.secrets = [provider |-> FirstSeal("p", 1), key |-> FirstSeal("k", 1),
                     setting |-> Sealed("s", 1)]],
     [OldestSchema EXCEPT !.version = 2, !.stamped = TRUE],
     [version |-> 0, stamped |-> FALSE, tables |-> FALSE, columns |-> {"c1"},
      profiles |-> [byNode |-> TRUE, rows |-> {}],
      legacy |-> [exists |-> FALSE, rows |-> <<>>], agents |-> <<>>, secrets |-> <<>>]}

(* Three nodes on three hosts, two of which say the same host name, with the *)
(* launches their agents may report.                                         *)

MCSugHost == [a |-> "ha", b |-> "hb", c |-> "hc"]
MCSugPort == [a |-> 1, b |-> 1, c |-> 1]
MCSugRuntime == [a |-> "vllm", b |-> "vllm", c |-> "auto"]
MCHostName == [ha |-> "na", hb |-> "nb", hc |-> "na"]
MCHostAddrs == [ha |-> {"x"}, hb |-> {"y"}, hc |-> {"z"}]
Rank(nnodes, rank, master, role) ==
    [kind |-> "vllm-mp", port |-> 0, nnodes |-> nnodes, rank |-> rank, master |-> master,
     mport |-> 1, role |-> role, servers |-> {}]
Backends(servers) ==
    [kind |-> "llamacpp-rpc", port |-> 1, nnodes |-> 0, rank |-> -1, master |-> "",
     mport |-> 0, role |-> "", servers |-> servers]
Says(launches) == [topo |-> TRUE, launches |-> launches]
MCEvidence ==
    [ha |-> {Says({Rank(2, 0, "x", "")})},
     hb |-> {Says({Rank(2, 1, "ha", "worker")}), Says({Rank(3, 1, "x", "worker")})},
     hc |-> {Says({Backends({"y", "x"})}), Says({Rank(3, 2, "na", "")}),
             Says({Backends({"y"}), Backends({"loopback"})})}]
MCPeerChoices == {NoPeers, [head |-> "c", members |-> {"a", "c"}]}

-----------------------------------------------------------------------------
(* One part at a time. *)

FitRests == telemetry = [runtime |-> "vllm", gpus |-> <<>>, declared |-> {}, source |-> "unknown",
                         agent |-> FALSE, free |-> 0, total |-> 0]

AdminApiInit ==
    /\ focus \in {"settings", "nodes", "store", "pages", "accounts", "replicas", "sole", "process",
                  "fit"}
    /\ AdminInit
    /\ NodeConfigInit /\ (focus # "nodes" => DOMAIN agentRows = {} /\ DOMAIN overrides = {})
    /\ StoreInit /\ (focus # "store" => ~db.tables)
    /\ PagesInit
    /\ AccountsInit
    /\ SuggestInit
    /\ SoleInit
    /\ ProcessInit /\ (focus # "process" => adminScope)
    /\ IF focus = "fit" THEN FitInit ELSE FitRests

\* The parts other than p rest.
Only(p) ==
    /\ focus = p
    /\ UNCHANGED focus
    /\ IF p = "settings" THEN TRUE ELSE UNCHANGED adminVars
    /\ IF p = "nodes" THEN TRUE ELSE UNCHANGED configVars
    /\ IF p = "store" THEN TRUE ELSE UNCHANGED storeVars
    /\ IF p = "pages" THEN TRUE ELSE UNCHANGED pageVars
    /\ IF p = "accounts" THEN TRUE ELSE UNCHANGED accountVars
    /\ IF p = "replicas" THEN TRUE ELSE UNCHANGED sugVars
    /\ IF p = "sole" THEN TRUE ELSE UNCHANGED soleVars
    /\ IF p = "process" THEN TRUE ELSE UNCHANGED processVars
    /\ IF p = "fit" THEN TRUE ELSE UNCHANGED telemetry

AdminApiNext ==
    \/ Only("settings") /\ AdminConfigNext
    \/ Only("nodes") /\ NodeConfigNext
    \/ Only("store") /\ StoreOpenNext
    \/ Only("pages") /\ PagesNext
    \/ Only("accounts") /\ AccountsNext
    \/ Only("replicas") /\ SuggestNext
    \/ Only("sole") /\ SoleNext
    \/ Only("process") /\ ProcessNext
    \/ Only("fit") /\ FitNext

AdminApiSpec == AdminApiInit /\ [][AdminApiNext]_adminApiVars

-----------------------------------------------------------------------------
\* What the server runs with is what it has stored: concurrent edits of settings,
\* nodes, pins and replica declarations leave memory and table the same, and settings
\* that can be saved again.
ConfigAgrees ==
    /\ focus = "settings" => AdminConfigTypeOK /\ GuardedPartsAgree /\ SettingsSavable
    /\ focus = "nodes" => NodeConfigTypeOK /\ PinsSound
    /\ focus = "replicas" => SuggestTypeOK /\ CompleteIsWhole /\ DeclarationsAgree

\* The store can be opened again after any crash with nothing lost, a reader that
\* pages through the log while it grows misses no row, and what the advisor offers
\* can be pulled and run.
DataSound ==
    /\ focus = "store" => StoreOpenTypeOK /\ MigratedAsIfOnce /\ SecretsReadable
    /\ focus = "pages" => WalkComplete /\ PageContiguous
    /\ focus = "fit" => FitTypeOK /\ AdviceSound /\ PickIsPullable

\* A live key is an active key of the store, and an acknowledged revocation is final.
AccessKept == focus = "accounts" => AccountsTypeOK /\ LiveKeysStored /\ RevokedStaysRevoked

\* An operator's action leaves a server behind: no unconfirmed action takes the
\* last one of a model away, and no restart of the process leaves two.
ServiceKept ==
    /\ focus = "sole" => SoleTypeOK /\ ServerLeft
    /\ focus = "process" => ProcessTypeOK /\ OneRuntime

\* What an operator was shown still holds when the change is made: a confirmed group
\* replaces no declaration unseen, and a drain or a restart that needed no force finds
\* a node that serves what it takes away.
AdminSteps == NoSilentOverwrite /\ LeavesAServer
=============================================================================
