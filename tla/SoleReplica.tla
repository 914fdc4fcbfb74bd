---------------------------- MODULE SoleReplica ----------------------------
(***************************************************************************)
(* The guard that keeps a drain or a runtime restart from taking the last  *)
(* server of a model (internal/admin/sole_replica.go, replica_guard.go and *)
(* internal/router/replica_safety.go): the check and the change happen     *)
(* under one lock, against what the polls last reported, and a marker      *)
(* keeps a node that was sent a restart from counting as a spare until a   *)
(* poll answered one interval after the restart has seen it, or 15 minutes *)
(* have passed.                                                            *)
(*                                                                         *)
(* Time is the order of events: a marker "settles" one poll interval after *)
(* the agent call ended, whatever polls are still under way then, and is   *)
(* too old only when a poll (5 s at most) that began after it is over.  The *)
(* guard is best effort: what it cannot see is kept in `surprised`.        *)
(***************************************************************************)
EXTENDS Integers, FiniteSets

CONSTANTS Nodes,
          OllamaNodes,     \* nodes whose engine can load a model on demand
          ReplicaMembers,  \* nodes that belong to a declared replica
          ServedModels,
          Calls,           \* admin requests in flight at once
          MaxActions       \* requests, crashes and overtaken polls in one behaviour

ASSUME SoleAssumption == /\ OllamaNodes \subseteq Nodes /\ ReplicaMembers \subseteq Nodes
                         /\ MaxActions \in Nat /\ IsFiniteSet(Nodes) /\ IsFiniteSet(Calls)

VARIABLES engine,      \* "up" or "down": the runtime itself
          resident,    \* the models each running engine has loaded
          draining,
          view,        \* what the last polls said: healthy, models, recent
          poll,        \* the answer a poll in flight carries, or NoPoll
          straggler,   \* that of an earlier poll which the next one overtook
          marker,      \* restartMarker of each node, or NoMarker
          call,        \* restart requests: the node and how far the agent is
          configured,  \* nodes with an accepted control driver
          deliberate,  \* someone stopped a runtime or went on past a warning
          actions,
          surprised,   \* history: nodes that went down with no call under way, or whose
                       \* view is that of an overtaken poll, until the next fresh answer
          mishap       \* history: some node was ever surprised
soleVars == <<engine, resident, draining, view, poll, straggler, marker, call, configured,
              deliberate, actions, surprised, mishap>>
unseen == <<surprised, mishap>>

NoPoll == [asked |-> FALSE, old |-> FALSE, ok |-> FALSE, models |-> {}]
NoMarker == [set |-> FALSE, inflight |-> 0, maybeDown |-> FALSE, phase |-> "none", seen |-> FALSE]
NoCall == [on |-> CHOOSE n \in Nodes : TRUE, pc |-> "idle"]

SoleInit ==
    /\ engine = [n \in Nodes |-> "up"]
    /\ resident = [n \in Nodes |-> ServedModels]
    /\ draining = [n \in Nodes |-> FALSE]
    /\ view = [n \in Nodes |-> [healthy |-> TRUE, models |-> resident[n], recent |-> TRUE]]
    /\ poll = [n \in Nodes |-> NoPoll] /\ straggler = poll
    /\ marker = [n \in Nodes |-> NoMarker]
    /\ call = [c \in Calls |-> NoCall]
    /\ configured = Nodes
    /\ deliberate = FALSE /\ actions = 0 /\ surprised = {} /\ mishap = FALSE

-----------------------------------------------------------------------------
\* The check.

\* restartingNodesLocked: markers that a poll answered after the interval has confirmed
\* over are dropped.
Confirmed(n) == marker[n].set /\ marker[n].phase = "settled" /\ marker[n].seen
Restarting == {n \in Nodes : marker[n].set /\ ~Confirmed(n)}
DropConfirmed(mk) == [n \in Nodes |-> IF Confirmed(n) THEN NoMarker ELSE mk[n]]

\* judgePeer and peerDataGap.
JudgePeer(p, t, m) ==
    IF ~view[p].healthy \/ draining[p] THEN "ineligible"
    ELSE IF ~view[p].recent THEN "unknown"
    ELSE IF m \in view[p].models
         THEN IF t \in OllamaNodes /\ p \notin OllamaNodes THEN "unknown" ELSE "warm"
    ELSE IF p \in OllamaNodes /\ t \in OllamaNodes THEN "cold" ELSE "ineligible"

\* SoleReplicaImpact with targetGate and classifyModel: the models no peer could
\* serve, and whether something could not be told.
Impact(t) ==
    LET peers == Nodes \ (Restarting \cup {t})
        verdicts(m) == {JudgePeer(p, t, m) : p \in peers}
        gap == ~view[t].healthy \/ ~view[t].recent
        lone(m) == verdicts(m) \cap {"warm", "cold"} = {} IN
    IF draining[t] THEN [models |-> {}, unknown |-> FALSE]
    ELSE IF gap THEN [models |-> {}, unknown |-> TRUE]
    ELSE [models  |-> {m \in view[t].models : lone(m) /\ "unknown" \notin verdicts(m)},
          unknown |-> \E m \in view[t].models : lone(m) /\ "unknown" \in verdicts(m)]

\* checkSoleReplica: without a lone model the change goes ahead; with one it needs
\* force, and an acknowledged list must name every lone model.  Going on past an
\* unknown, a lone model or a replica warning is the caller's choice.
CheckSoleReplica(n, force, acked) ==
    /\ Impact(n).models = {} \/ (force /\ Impact(n).models \subseteq acked)
    /\ deliberate' = (deliberate \/ Impact(n).unknown \/ Impact(n).models # {})

\* A bound: after the first deliberate outage no more requests are followed.
Acts == actions < MaxActions /\ ~deliberate /\ actions' = actions + 1
world == <<engine, resident, poll, straggler, view, surprised, mishap>>

-----------------------------------------------------------------------------
\* The operator's requests.

\* handleDrainNode: the check and DrainNode under the lock.
HandleDrainNode(n, force, acked) ==
    /\ Acts /\ ~draining[n]
    /\ CheckSoleReplica(n, force, acked)
    /\ draining' = [draining EXCEPT ![n] = TRUE]
    /\ marker' = DropConfirmed(marker)
    /\ UNCHANGED <<world, call, configured>>

HandleUndrainNode(n) ==
    /\ draining[n] /\ draining' = [draining EXCEPT ![n] = FALSE]
    /\ UNCHANGED <<world, marker, call, configured, deliberate, actions>>

\* handleNodeRuntimeAction "restart": a replica member needs its acknowledgement, a
\* driver must be configured, the sole-replica check passes, and markRestartStarted
\* runs as its commit.
HandleRestart(c, n, force, acked, ackReplica) ==
    /\ Acts /\ call[c].pc = "idle"
    /\ n \in ReplicaMembers => ackReplica
    /\ n \in configured
    /\ CheckSoleReplica(n, force, acked)
    /\ LET mk == DropConfirmed(marker) IN
       marker' = [mk EXCEPT ![n] = [set |-> TRUE, inflight |-> mk[n].inflight + 1,
                                    maybeDown |-> mk[n].maybeDown, phase |-> "none", seen |-> FALSE]]
    /\ call' = [call EXCEPT ![c] = [on |-> n, pc |-> "sent"]]
    /\ UNCHANGED <<world, draining, configured>>

\* handleNodeRuntimeAction "stop": no sole-replica check, so an outage it causes was
\* asked for.
HandleStop(n, ackReplica) ==
    /\ Acts /\ engine[n] = "up" /\ n \in configured
    /\ n \in ReplicaMembers => ackReplica
    /\ engine' = [engine EXCEPT ![n] = "down"]
    /\ resident' = [resident EXCEPT ![n] = {}]
    /\ deliberate' = TRUE
    /\ UNCHANGED <<draining, view, poll, straggler, marker, call, configured, unseen>>

\* handleAcceptNodeControl and handleClearNodeControl.
HandleNodeControl(n) ==
    /\ Acts
    /\ configured' = IF n \in configured THEN configured \ {n} ELSE configured \cup {n}
    /\ UNCHANGED <<world, draining, marker, call, deliberate>>

-----------------------------------------------------------------------------
\* The agent call of a restart.

\* The agent restarts the runtime: it goes down with what it had loaded.
AgentRestarts(c) ==
    /\ call[c].pc = "sent" /\ call' = [call EXCEPT ![c].pc = "done"]
    /\ engine' = [engine EXCEPT ![call[c].on] = "down"]
    /\ UNCHANGED <<resident, draining, view, poll, straggler, marker, configured, deliberate, actions,
                   unseen>>

\* What becomes of the call: an unanswered one may still be with the agent, which
\* carries it out later or never does.
Ended(c, refused) == IF ~refused /\ call[c].pc = "sent" THEN [call[c] EXCEPT !.pc = "late"] ELSE NoCall

\* Mutant: the marker ends with the agent call.
FinishRestartClears(c, refused) ==
    LET n == call[c].on IN
    /\ call[c].pc \in {"sent", "done"} /\ (refused => call[c].pc = "sent")
    /\ call' = [call EXCEPT ![c] = Ended(c, refused)]
    /\ poll' = [poll EXCEPT ![n].old = poll[n].asked]
    /\ marker' = IF marker[n].inflight <= 1 THEN [marker EXCEPT ![n] = NoMarker]
                 ELSE [marker EXCEPT ![n].inflight = @ - 1]
    /\ UNCHANGED <<engine, resident, view, straggler, draining, configured, deliberate, actions, unseen>>

\* finishRestart: a definite refusal ends the marker only when no other restart of
\* the node is in flight and none may have taken it down.
FinishRestart(c, refused) ==
    LET n == call[c].on
        mk == marker[n]
        left == IF mk.inflight > 0 THEN mk.inflight - 1 ELSE 0
        maybe == mk.maybeDown \/ ~refused IN
    /\ IF refused THEN call[c].pc = "sent" ELSE call[c].pc \in {"sent", "done"}
    /\ call' = [call EXCEPT ![c] = Ended(c, refused)]
    /\ poll' = [poll EXCEPT ![n].old = poll[n].asked]
    /\ marker' = IF ~mk.set THEN marker
                 ELSE IF left = 0 /\ ~maybe THEN [marker EXCEPT ![n] = NoMarker]
                 ELSE [marker EXCEPT ![n] = [mk EXCEPT !.inflight = left, !.maybeDown = maybe,
                                               !.phase = IF left = 0 THEN "returned" ELSE mk.phase]]
    /\ UNCHANGED <<engine, resident, view, straggler, draining, configured, deliberate, actions, unseen>>

\* A runtime goes down when no call of its node is under way for the guard.
GoesDown(n) ==
    /\ engine' = [engine EXCEPT ![n] = "down"]
    /\ poll' = [poll EXCEPT ![n].old = poll[n].asked]
    /\ surprised' = surprised \cup {n} /\ mishap' = TRUE
    /\ UNCHANGED <<resident, draining, view, straggler, marker, configured, deliberate>>

\* The agent got to a restart whose caller has gone (handleRuntimeAction takes its lock
\* first), or never does.
AgentIsLate(c) ==
    /\ call[c].pc = "late" /\ call' = [call EXCEPT ![c] = NoCall] /\ UNCHANGED actions
    /\ \/ GoesDown(call[c].on)
       \/ UNCHANGED <<world, draining, marker, configured, deliberate>>

\* A runtime dies, or is restarted outside marbor.
Dying(n) == Acts /\ engine[n] = "up" /\ GoesDown(n) /\ UNCHANGED call

\* One poll interval after the call ended.
Settles(n) ==
    /\ marker[n].set /\ marker[n].phase = "returned"
    /\ marker' = [marker EXCEPT ![n] = [marker[n] EXCEPT !.phase = "settled", !.seen = FALSE]]
    /\ UNCHANGED <<world, draining, call, configured, deliberate, actions>>

\* restartMarkerTTL: by then the last answer is older than routing trusts.
Expires(n) ==
    /\ marker[n].phase = "settled" /\ ~view[n].recent /\ ~(poll[n].asked /\ poll[n].old)
    /\ marker' = [marker EXCEPT ![n] = NoMarker]
    /\ UNCHANGED <<world, draining, call, configured, deliberate, actions>>

\* marbor starts again: the markers and what polls have seen are lost, and the agents
\* may still carry out what they were sent.
MarborRestarts ==
    /\ Acts
    /\ marker' = [n \in Nodes |-> NoMarker]
    /\ view' = [n \in Nodes |-> [healthy |-> FALSE, models |-> {}, recent |-> FALSE]]
    /\ poll' = [n \in Nodes |-> NoPoll] /\ straggler' = [n \in Nodes |-> NoPoll]
    /\ call' = [c \in Calls |-> IF call[c].pc \in {"sent", "late"} THEN [call[c] EXCEPT !.pc = "late"]
                                 ELSE NoCall]
    /\ UNCHANGED <<engine, resident, draining, configured, deliberate, unseen>>

\* The runtime is back: an on-demand engine with nothing loaded, another one with
\* the models it is configured with.
EngineReturns(n) ==
    /\ engine[n] = "down"
    /\ engine' = [engine EXCEPT ![n] = "up"]
    /\ resident' = [resident EXCEPT ![n] = IF n \in OllamaNodes THEN {} ELSE @]
    /\ UNCHANGED <<draining, view, poll, straggler, marker, call, configured, deliberate, actions, unseen>>

-----------------------------------------------------------------------------
\* Health polls.

\* The next poll does not wait for one that takes longer than the interval.
PollAsks(n) ==
    /\ \/ ~poll[n].asked /\ UNCHANGED <<straggler, actions>>
       \/ /\ poll[n].asked /\ ~straggler[n].asked /\ Acts
          /\ straggler' = [straggler EXCEPT ![n] = poll[n]]
    /\ poll' = [poll EXCEPT ![n] = [asked |-> TRUE, old |-> FALSE, ok |-> engine[n] = "up",
                                    models |-> IF engine[n] = "up" THEN resident[n] ELSE {}]]
    /\ UNCHANGED <<engine, resident, draining, view, marker, call, configured, deliberate, unseen>>

\* A success updates models and LastPollAt, and health past its threshold; a failure
\* counts towards another, past which the node is unhealthy.
Answers(n, a) ==
    IF a.ok
    THEN /\ \E up \in BOOLEAN : view' = [view EXCEPT ![n] =
              [healthy |-> view[n].healthy \/ up, models |-> a.models, recent |-> TRUE]]
         /\ marker' = [marker EXCEPT ![n].seen = marker[n].set]
    ELSE /\ \E down \in BOOLEAN : view' = [view EXCEPT ![n].healthy = view[n].healthy /\ ~down]
         /\ UNCHANGED marker

\* An answer older than the node's last outage surprises only where it seems to end a
\* restart.
PollAnswers(n) ==
    /\ poll[n].asked /\ poll' = [poll EXCEPT ![n] = NoPoll]
    /\ Answers(n, poll[n])
    /\ CASE poll[n].ok /\ ~poll[n].old -> surprised' = surprised \ {n} /\ UNCHANGED mishap
         [] poll[n].ok /\ poll[n].old /\ marker[n].phase = "settled" ->
              surprised' = surprised \cup {n} /\ mishap' = TRUE
         [] OTHER -> UNCHANGED unseen
    /\ UNCHANGED <<engine, resident, straggler, draining, call, configured, deliberate, actions>>

StragglerAnswers(n) ==
    /\ straggler[n].asked /\ straggler' = [straggler EXCEPT ![n] = NoPoll]
    /\ Answers(n, straggler[n])
    /\ IF straggler[n].ok THEN surprised' = surprised \cup {n} /\ mishap' = TRUE ELSE UNCHANGED unseen
    /\ UNCHANGED <<engine, resident, poll, draining, call, configured, deliberate, actions>>

\* The last successful poll is older than the failure threshold allows.
GoesStale(n) ==
    /\ view[n].recent /\ engine[n] = "down"
    /\ view' = [view EXCEPT ![n].recent = FALSE]
    /\ UNCHANGED <<engine, resident, draining, poll, straggler, marker, call, configured, deliberate,
                   actions, unseen>>

SoleNext ==
    \/ \E n \in Nodes :
         \/ \E force \in BOOLEAN, acked \in SUBSET ServedModels : HandleDrainNode(n, force, acked)
         \/ \E c \in Calls, force, ack \in BOOLEAN, acked \in SUBSET ServedModels :
              HandleRestart(c, n, force, acked, ack)
         \/ \E ack \in BOOLEAN : HandleStop(n, ack)
         \/ HandleUndrainNode(n) \/ HandleNodeControl(n)
         \/ Settles(n) \/ Expires(n) \/ EngineReturns(n) \/ Dying(n)
         \/ PollAsks(n) \/ PollAnswers(n) \/ StragglerAnswers(n) \/ GoesStale(n)
    \/ \E c \in Calls : AgentRestarts(c) \/ AgentIsLate(c) \/ \E refused \in BOOLEAN : FinishRestart(c, refused)
    \/ MarborRestarts
SoleSpec == SoleInit /\ [][SoleNext]_soleVars

-----------------------------------------------------------------------------
SoleTypeOK ==
    /\ engine \in [Nodes -> {"up", "down"}] /\ resident \in [Nodes -> SUBSET ServedModels]
    /\ draining \in [Nodes -> BOOLEAN] /\ configured \subseteq Nodes
    /\ \A n \in Nodes : /\ view[n].models \subseteq ServedModels
                        /\ marker[n].inflight \in 0 .. Cardinality(Calls)
                        /\ marker[n].phase \in {"none", "returned", "settled"}
    /\ deliberate \in BOOLEAN /\ actions \in 0 .. MaxActions /\ surprised \subseteq Nodes

\* A node that serves a model: running, not draining, not about to be restarted, and
\* with the model or able to load it.
CanServe(n, m) == /\ engine[n] = "up" /\ ~draining[n]
                  /\ \A c \in Calls : call[c].pc \in {"sent", "done"} => call[c].on # n
                  /\ m \in resident[n] \/ n \in OllamaNodes

\* While nobody forced a change or went on past an unknown, and no node was ever
\* surprised, drains and restarts of any number of operators, marbor's own restarts
\* among them, leave every loaded model a node that can serve it.  (Where two nodes can
\* load on demand, a model they once had can lose both: the first may go because the
\* other would load it, and the other because it does not have it.)
ServerLeft ==
    ~deliberate /\ ~mishap => \A m \in ServedModels :
        (\E n \in Nodes : m \in view[n].models) => \E n \in Nodes : CanServe(n, m)

\* A drain or a restart that nobody had to force finds another node ready, at that
\* moment, for every model the router shows on its node, on any fleet; or one it took
\* for a spare while no poll could have told it that the node went down: what the check
\* reads is stale, but never wrong for longer than the polls need.
Mistaken(p, n, m) ==
    p \in surprised \ Restarting /\ JudgePeer(p, n, m) \in {"warm", "cold"}
TakenAway(n) == \/ ~draining[n] /\ draining'[n]
            \/ \E c \in Calls : call[c].pc = "idle" /\ call'[c].pc # "idle" /\ call'[c].on = n
LeavesAServer ==
    [][\A n \in Nodes : TakenAway(n) /\ ~draining[n] /\ ~deliberate' =>
         \A m \in view[n].models : \E p \in Nodes \ {n} : CanServe(p, m) \/ Mistaken(p, n, m)]_soleVars
=============================================================================
