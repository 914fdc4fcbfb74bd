--------------------------- MODULE ReplicaSuggest ---------------------------
(***************************************************************************)
(* Replica suggestions: what the agents report of multi-host launches is   *)
(* correlated into groups (internal/router/replica_suggestions.go), and an *)
(* operator confirms, adopts or dismisses one                              *)
(* (internal/admin/replica_suggestions.go), while reports change, other    *)
(* operators edit declarations and nodes come and go.                      *)
(***************************************************************************)
EXTENDS Integers, FiniteSets, FiniteSetsExt

CONSTANTS
    SugNodes, SugHost, SugPort, SugRuntime,  \* registered nodes, and their columns
    HostName, HostAddrs,    \* what a host's agent says of the host
    Evidence,               \* host -> the reports its agent may send
    PeerChoices,            \* declarations an operator may write by hand
    Reviewers,
    MaxDismissed,           \* maxDismissedSuggestions
    MaxSugOps, MaxReports   \* bounds: operator requests, agent reports

NoPeers == [head |-> "", members |-> {}]

ASSUME SugAssumption ==
    /\ "nobody" \notin Reviewers
    /\ \A d \in PeerChoices : d = [head |-> d.head, members |-> d.members]

VARIABLES
    evidence,   \* host -> its last report, for hosts that have reported
    known,      \* nodes in the router
    peers,      \* their declarations, live
    stored,     \* and in node_overrides
    review,     \* per operator: step, the list last read, the request in hand
    nodePatchMu,    \* holder of nodePatchMu
    dismissed,  \* the saved list, each entry with its age
    sugOps, reports,
    apart,      \* history: nodes whose live declaration the store does not have
    lastDismissed   \* history: the latest dismissal of each group
sugVars == <<evidence, known, peers, stored, review, nodePatchMu, dismissed, sugOps, reports, apart, lastDismissed>>

Hosts == {SugHost[n] : n \in SugNodes}
RowsOn(h) == {n \in known : SugHost[n] = h}
Reporting == {h \in DOMAIN evidence : RowsOn(h) # {}}

----------------------------------------------------------------------------
(* Whose address is it?                                                       *)

UniqueHost(S) == IF Cardinality(S) = 1 THEN [st |-> "ok", host |-> CHOOSE h \in S : TRUE]
                 ELSE [st |-> "ambiguous", host |-> ""]

Resolve(addr) ==
    LET byKey == {h \in Hosts : RowsOn(h) # {} /\ h = addr}
        byName == {h \in Reporting : HostName[h] = addr}
        byAddr == {h \in Reporting : addr \in HostAddrs[h]}
    IN  IF addr = "loopback" THEN [st |-> "loopback", host |-> ""]
        ELSE IF byKey # {} THEN UniqueHost(byKey)
        ELSE IF byName # {} THEN UniqueHost(byName)
        ELSE IF byAddr # {} THEN UniqueHost(byAddr)
        ELSE [st |-> "none", host |-> ""]

----------------------------------------------------------------------------
(* Which node does a launch belong to?                                        *)

Runtime(kind) == IF kind = "vllm-mp" THEN "vllm" ELSE "llamacpp"
HasDistributedIntent(l) ==
    IF l.kind = "vllm-mp" THEN l.nnodes > 1 \/ l.rank >= 0 \/ l.master # "" \/ l.role # ""
    ELSE l.servers # {}

Matches(h, l) == IF l.port > 0 THEN {n \in RowsOn(h) : SugPort[n] = l.port} ELSE RowsOn(h)

Intended(h) == {l \in evidence[h].launches : HasDistributedIntent(l)}
Reported == UNION {{[host |-> h, launch |-> l, rows |-> Matches(h, l)] : l \in Intended(h)} :
                     h \in Reporting}
Attributed == {[row |-> CHOOSE n \in r.rows : TRUE, host |-> r.host, launch |-> r.launch] :
                  r \in {x \in Reported : Cardinality(x.rows) = 1}}
Fits(a) == SugRuntime[a.row] \in {"", "auto", Runtime(a.launch.kind)}
Sole(a) == \A b \in Attributed : b.row = a.row /\ Fits(b) => b = a

Group(kind, state, head, members) == [kind |-> kind, state |-> state, head |-> head, members |-> members]

\* Launches that fit no row, the wrong row, or share one.
Misfits ==
    {Group(r.launch.kind, "conflicting", "", r.rows) : r \in {x \in Reported : Cardinality(x.rows) > 1}}
    \cup {Group(a.launch.kind, "conflicting", a.row, {a.row}) :
             a \in {x \in Attributed : ~Fits(x) \/ ~Sole(x)}}

Good == {a \in Attributed : Fits(a) /\ Sole(a)}

----------------------------------------------------------------------------
(* vLLM: one group per master address and port.                               *)

VLLM == {a \in Good : a.launch.kind = "vllm-mp"}
Alone(a) ==
    IF a.launch.master = "" THEN IF a.launch.nnodes = 1 THEN {} ELSE {Group("vllm-mp", "incomplete", a.row, {a.row})}
    ELSE IF Resolve(a.launch.master).st = "loopback" /\ a.launch.nnodes > 1
         THEN {Group("vllm-mp", "conflicting", a.row, {a.row})} ELSE {}
Key(a) == LET r == Resolve(a.launch.master)
          IN  [st |-> r.st, at |-> IF r.st = "ok" THEN r.host ELSE a.launch.master, port |-> a.launch.mport]
Grouped == {a \in VLLM : a.launch.master # "" /\ Resolve(a.launch.master).st # "loopback"}

VLLMCandidate(key, g) ==
    LET counts == {a.launch.nnodes : a \in g} \ {0}
        total == IF Cardinality(counts) = 1 THEN CHOOSE n \in counts : TRUE ELSE 0
        ranks == {a.launch.rank : a \in g} \ {-1}
        OnMaster == {a \in g : key.st = "ok" /\ a.host = key.at}
        heads == {a \in OnMaster : a.launch.rank = 0 /\ a.launch.role # "worker"}
        head == IF Cardinality(heads) = 1 THEN (CHOOSE a \in heads : TRUE).row ELSE ""
        conflict == \/ key.st = "ambiguous" \/ Cardinality(counts) > 1
                    \/ \E a, b \in g : a # b /\ a.launch.rank = b.launch.rank /\ a.launch.rank >= 0
                    \/ total > 0 /\ \E r \in ranks : r >= total
                    \/ OnMaster # heads
        missing == \/ \E a \in g : a.launch.rank = -1
                   \/ key.st = "none" \/ counts = {}
                   \/ key.st = "ok" /\ OnMaster = {}
                   \/ total > 1 /\ ~(0 .. total - 1 \subseteq ranks)
                   \/ \E a \in g : ~evidence[a.host].topo
    IN  IF Cardinality(counts) = 1 /\ total <= 1 THEN {}
        ELSE {Group("vllm-mp",
                    IF conflict THEN "conflicting" ELSE IF missing \/ head = "" THEN "incomplete" ELSE "complete",
                    head, {a.row : a \in g})}

VLLMGroups == UNION {Alone(a) : a \in VLLM}
              \cup UNION {VLLMCandidate(k, {a \in Grouped : Key(a) = k}) : k \in {Key(a) : a \in Grouped}}

----------------------------------------------------------------------------
(* llama.cpp: the node that lists RPC servers is the head of their nodes.     *)

RPCGroup(a) ==
    LET res == [s \in a.launch.servers |-> Resolve(s)]
        Of(st) == {s \in a.launch.servers : res[s].st = st}
        sole == {s \in Of("ok") : Cardinality(RowsOn(res[s].host)) = 1}
        Node(s) == CHOOSE n \in RowsOn(res[s].host) : TRUE
        workers == {Node(s) : s \in sole} \ {a.row}
        conflict == Of("ambiguous") # {} \/ sole # Of("ok") \/ Of("loopback") # {}
        missing == \/ Of("none") # {}
                   \/ \E s \in sole : Node(s) = a.row
                   \/ \E s, t \in sole : s # t /\ Node(s) = Node(t)
    IN  IF Of("loopback") = a.launch.servers THEN {}
        ELSE {Group("llamacpp-rpc",
                    IF conflict THEN "conflicting" ELSE IF missing THEN "incomplete" ELSE "complete",
                    a.row, {a.row} \cup workers)}

Candidates == Misfits \cup VLLMGroups
              \cup UNION {RPCGroup(a) : a \in {x \in Good : x.launch.kind = "llamacpp-rpc"}}

----------------------------------------------------------------------------
(* Declarations win (finalize).                                               *)

Fingerprint(c) == [head |-> c.head, members |-> c.members]
Declared(c) == {<<n, peers[n]>> : n \in {x \in c.members \cap known : peers[x].members # {}}}
Agrees(c, d) == d.head = c.head /\ d.members = c.members

Finalize(c) ==
    LET ds == Declared(c)
        contradicted == \E pair \in ds : ~Agrees(c, pair[2])
    IN  [fp |-> Fingerprint(c), kind |-> c.kind, declared |-> ds,
         state |-> IF c.state = "complete" /\ contradicted THEN "contradicts_declared" ELSE c.state]

Applied(c) == c.state = "complete" /\ \A n \in c.members : Agrees(c, peers[n])

Suggestions == {Finalize(c) : c \in {x \in Candidates : ~Applied(x)}}

----------------------------------------------------------------------------
(* The operators.                                                             *)

IdleReview == [pc |-> "idle", list |-> {}, fp |-> NoPeers, adopt |-> FALSE, snapshot |-> {}, group |-> NoPeers]

SuggestInit ==
    /\ evidence = <<>> /\ known = SugNodes
    /\ peers = [n \in SugNodes |-> NoPeers] /\ stored = peers
    /\ review = [r \in Reviewers |-> IdleReview] /\ nodePatchMu = "nobody"
    /\ dismissed = {} /\ sugOps = 0 /\ reports = 0 /\ apart = {} /\ lastDismissed = {}

AgentReports(h, e) ==
    /\ reports < MaxReports /\ reports' = reports + 1
    /\ evidence' = [x \in DOMAIN evidence \cup {h} |-> IF x = h THEN e ELSE evidence[x]]
    /\ UNCHANGED <<known, peers, stored, review, nodePatchMu, dismissed, sugOps, apart, lastDismissed>>

\* handleReplicaSuggestions
ListSuggestions(r) ==
    /\ review[r].pc = "idle" /\ review[r].list # Suggestions
    /\ review' = [review EXCEPT ![r].list = Suggestions]
    /\ UNCHANGED <<evidence, known, peers, stored, nodePatchMu, dismissed, sugOps, reports, apart, lastDismissed>>

\* Mutant: adopting overwrites whatever is declared by now.
CheckAdoptBlindly(s, snapshot) == s.state = "contradicts_declared"

\* handleConfirmReplicaSuggestion waits for nodePatchMu and computes the
\* suggestions anew; adopting needs the declarations the operator was shown.
CheckAdopt(s, snapshot) ==
    /\ s.state = "contradicts_declared"
    /\ s.declared = snapshot
    /\ \A n \in known \ s.fp.members :
         peers[n].head \notin s.fp.members /\ peers[n].members \cap s.fp.members = {}

Confirmable(s, adopt, snapshot) ==
    IF adopt THEN CheckAdopt(s, snapshot) ELSE s.state = "complete"

Confirm(r, shown, adopt) ==
    LET now == {s \in Suggestions : s.fp = shown.fp}
        ok == Cardinality(now) = 1 /\ \A s \in now : Confirmable(s, adopt, shown.declared)
    IN  /\ review[r].pc = "idle" /\ shown \in review[r].list
        /\ nodePatchMu = "nobody" /\ sugOps < MaxSugOps /\ sugOps' = sugOps + 1
        /\ adopt => shown.declared # {}
        /\ \/ ~ok /\ UNCHANGED <<review, nodePatchMu>>
           \/ /\ ok /\ nodePatchMu' = r
              /\ review' = [review EXCEPT ![r] = [pc |-> "apply", list |-> {}, fp |-> shown.fp, adopt |-> adopt,
                                                  snapshot |-> shown.declared, group |-> shown.fp]]
        /\ UNCHANGED <<evidence, known, peers, stored, dismissed, reports, apart, lastDismissed>>

\* SetReplicaPeersBatch: all rows in one transaction.
SetReplicaPeersBatch(g) == [n \in SugNodes |-> IF n \in g.members THEN g ELSE stored[n]]

\* Mutant: the declarations are set live whether or not they were stored.
ApplyReplicaPeersBatchUnsaved(r) ==
    LET g == review[r].group
    IN  /\ review[r].pc = "apply" /\ nodePatchMu' = "nobody"
        /\ review' = [review EXCEPT ![r] = IdleReview]
        /\ peers' = [n \in SugNodes |-> IF n \in g.members \cap known THEN g ELSE peers[n]]
        /\ \/ UNCHANGED stored
           \/ stored' = [n \in SugNodes |-> IF n \in g.members THEN g ELSE stored[n]]
        /\ UNCHANGED <<evidence, known, dismissed, sugOps, reports, apart, lastDismissed>>

\* ApplyReplicaPeersBatch with SetReplicaPeersBatch: every member registered, one
\* transaction, then memory; or nothing at all.
ApplyReplicaPeersBatch(r) ==
    LET g == review[r].group
    IN  /\ review[r].pc = "apply" /\ nodePatchMu' = "nobody"
        /\ review' = [review EXCEPT ![r] = IdleReview]
        /\ \/ UNCHANGED <<peers, stored, apart>>
           \/ /\ g.members \subseteq known
              /\ stored' = SetReplicaPeersBatch(g)
              /\ peers' = [n \in SugNodes |-> IF n \in g.members THEN g ELSE peers[n]]
              /\ apart' = apart \ g.members
        /\ UNCHANGED <<evidence, known, dismissed, sugOps, reports, lastDismissed>>

\* setSuggestionDismissed: one entry per group, the oldest is dropped.  A request
\* names the state it was shown, or none: then the state the group is suggested in
\* now, and without one the entry hides it in any state.
CurrentState(fp) == IF \E s \in Suggestions : s.fp = fp
                    THEN {s.state : s \in {x \in Suggestions : x.fp = fp}} ELSE {""}

SetSuggestionDismissed(r, shown) ==
    LET rest == {d \in dismissed : d.fp # shown.fp}
        kept == IF Cardinality(rest) < MaxDismissed THEN rest
                ELSE rest \ {CHOOSE d \in rest : \A e \in rest : d.age <= e.age}
    IN  /\ review[r].pc = "idle" /\ shown \in review[r].list
        /\ sugOps < MaxSugOps /\ sugOps' = sugOps + 1
        /\ \/ \E st \in {shown.state} \cup CurrentState(shown.fp) :
                 /\ dismissed' = kept \cup {[fp |-> shown.fp, state |-> st, age |-> sugOps]}
                 /\ lastDismissed' = {x \in lastDismissed : x[1] # shown.fp} \cup {<<shown.fp, st>>}
           \/ /\ dismissed' = rest
              /\ lastDismissed' = {x \in lastDismissed : x[1] # shown.fp}
        /\ UNCHANGED <<evidence, known, peers, stored, review, nodePatchMu, reports, apart>>

IsHidden(s) == \E d \in dismissed : d.fp = s.fp /\ d.state \in {"", s.state}

----------------------------------------------------------------------------
(* What else happens: a PATCH of a node's declaration, under the same mutex,  *)
(* whose failure to store is only logged; a reload, under no lock; a restart. *)

PatchPeers(n, d) ==
    /\ nodePatchMu = "nobody" /\ n \in known
    /\ sugOps < MaxSugOps /\ sugOps' = sugOps + 1
    /\ peers' = [peers EXCEPT ![n] = d]
    /\ \/ stored' = [stored EXCEPT ![n] = d] /\ apart' = apart \ {n}
       \/ UNCHANGED stored /\ apart' = apart \cup {n}
    /\ UNCHANGED <<evidence, known, review, nodePatchMu, dismissed, reports, lastDismissed>>

\* A node leaves; or is added, or replaced for its new URL, with no declaration, while
\* node_overrides keeps the one it had.
SyncPool(n) ==
    /\ sugOps < MaxSugOps /\ sugOps' = sugOps + 1
    /\ \/ n \in known /\ known' = known \ {n} /\ UNCHANGED <<peers, apart>>
       \/ /\ known' = known \cup {n}
          /\ peers' = [peers EXCEPT ![n] = NoPeers] /\ apart' = apart \cup {n}
    /\ UNCHANGED <<evidence, stored, review, nodePatchMu, dismissed, reports, lastDismissed>>

Restart ==
    /\ sugOps < MaxSugOps /\ sugOps' = sugOps + 1
    /\ evidence' = <<>> /\ peers' = stored /\ apart' = {}
    /\ review' = [r \in Reviewers |-> IdleReview] /\ nodePatchMu' = "nobody"
    /\ UNCHANGED <<known, stored, dismissed, reports, lastDismissed>>

SuggestNext ==
    \/ \E h \in Hosts : \E e \in Evidence[h] : AgentReports(h, e)
    \/ \E r \in Reviewers :
         \/ ListSuggestions(r)
         \/ \E s \in review[r].list, adopt \in BOOLEAN : Confirm(r, s, adopt)
         \/ ApplyReplicaPeersBatch(r)
         \/ \E s \in review[r].list : SetSuggestionDismissed(r, s)
    \/ \E n \in SugNodes, d \in PeerChoices : PatchPeers(n, d)
    \/ \E n \in SugNodes : SyncPool(n)
    \/ Restart

SuggestSpec == SuggestInit /\ [][SuggestNext]_sugVars

----------------------------------------------------------------------------
SuggestTypeOK ==
    /\ known \subseteq SugNodes /\ nodePatchMu \in Reviewers \cup {"nobody"}
    /\ \A n \in SugNodes : peers[n].members \subseteq SugNodes
    /\ Cardinality(dismissed) <= MaxDismissed

(* What can be confirmed is one whole launch: its members report the same     *)
(* master and node count and hold the ranks 0 .. n-1 once each, the head      *)
(* being rank 0 on the master's host; or they are the head and the nodes its  *)
(* RPC servers run on (vllmCandidate, rpcGroup).                              *)
CompleteIsWhole ==
    \A s \in Suggestions : s.state \in {"complete", "contradicts_declared"} =>
        LET atts == {a \in Attributed : a.row \in s.fp.members}
            ls == {a.launch : a \in atts}
        IN  /\ s.fp.head \in s.fp.members /\ s.fp.members \subseteq known
            /\ s.kind = "vllm-mp" =>
                 /\ \A n \in s.fp.members : \E a \in atts : a.row = n
                 /\ Cardinality({l.nnodes : l \in ls} \ {0}) = 1
                 /\ {l.rank : l \in ls} = 0 .. Cardinality(s.fp.members) - 1
                 /\ Cardinality(s.fp.members) \in {l.nnodes : l \in ls}
                 /\ \A a \in atts : a.row = s.fp.head <=> a.launch.rank = 0

(* Outside the nodes whose PATCH could not be stored and those a reload added *)
(* anew, live and stored declarations agree at every step, whatever a         *)
(* confirmation meets: a restart changes no replica (ApplyReplicaPeersBatch:  *)
(* "memory and store never diverge").  And a group is hidden only by the      *)
(* latest dismissal an operator asked for it, in the state that one names     *)
(* (setSuggestionDismissed).                                                  *)
DeclarationsAgree ==
    /\ \A n \in SugNodes \ apart : peers[n] = stored[n]
    /\ \A s \in Suggestions : IsHidden(s) =>
         <<s.fp, s.state>> \in lastDismissed \/ <<s.fp, "">> \in lastDismissed

(* Confirming replaces a declaration only when the operator adopted and had   *)
(* been shown exactly that declaration, whatever was patched in between       *)
(* (checkAdopt).                                                              *)
NoSilentOverwrite ==
    [][\A r \in Reviewers, n \in SugNodes :
          (ApplyReplicaPeersBatch(r) /\ peers[n].members # {} /\ peers'[n] # peers[n])
          => review[r].adopt /\ <<n, peers[n]>> \in review[r].snapshot]_sugVars

(* A group that was just confirmed can be scheduled: no other node declares a *)
(* membership that names one of its members (only adopting looks for one).    *)
ConfirmedResolves ==
    [][\A r \in Reviewers :
          (ApplyReplicaPeersBatch(r) /\ peers' # peers)
          => \A n \in known \ review[r].group.members :
                peers[n].members \cap review[r].group.members = {}]_sugVars
=============================================================================
