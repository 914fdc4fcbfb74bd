---------------------------- MODULE RequestQueue ----------------------------
(***************************************************************************)
(* The wait for a local node: router/queue.go, router/queue_wait.go and    *)
(* the capacity part of router/placement.go.                               *)
(*                                                                         *)
(* A request first tries an immediate route.  When no node can take it, it *)
(* claims a queue slot with an atomic add, arms a timer and a retry        *)
(* ticker, and then repeatedly captures the router's notification channel  *)
(* and selects on {client gone, timer, channel closed, ticker}.  A request *)
(* that finishes frees its connection slot and closes the channel.  Every  *)
(* atomic operation of the code is one action, so that the interleavings   *)
(* between a check and its use are all explored.                           *)
(*                                                                         *)
(* Time is a count of quanta.  It passes only when no goroutine has a step *)
(* to take (Quantum), which is the assumption that a runnable goroutine    *)
(* runs within one quantum.  A retry ticker fires every RetryQuanta.       *)
(***************************************************************************)
EXTENDS Integers, FiniteSets

CONSTANTS
    Request,      \* request goroutines (each serves one request after another)
    Node,         \* nodes in the pool
    NoNode,       \* the nil *NodeState
    Statuses,     \* what polls make of a node (a subset of Status)
    Cap,          \* effective in-flight cap of every node, 0 is uncapped
    Depths,       \* values SetQueueMaxDepth is called with
    Timeouts,     \* values SetQueueTimeout is called with, in quanta
    Slas,         \* values SetOverflowSLA is called with, in quanta
    RetryQuanta   \* quanta between two fires of a retry ticker

\* Selectable; unhealthy, draining or a dark replica member; unable to serve
\* the model; never polled, so its models are not known.
Status == {"up", "unavailable", "static", "unknown"}

ASSUME QueueAssumption ==
    /\ Statuses \subseteq Status
    /\ IsFiniteSet(Request) /\ IsFiniteSet(Node)
    /\ NoNode \notin Node
    /\ Cap \in Nat
    /\ Depths \subseteq Nat /\ Timeouts \subseteq Nat /\ Slas \subseteq Nat
    /\ RetryQuanta \in Nat \ {0}

VARIABLES
    status,       \* what the routing filter makes of a node, capacity apart
    activeConns,  \* NodeState.ActiveConns
    queueDepth,   \* Router.queueDepth
    maxDepth,     \* Router.queueMaxDepth
    timeout,      \* Router.queueTimeoutMs
    sla,          \* Router.overflowSLAMs
    pc,           \* where a request is
    node,         \* the node it was routed to
    cloudUsable,  \* resolvedOpts.cloudUsable
    noRoute,      \* class of the no_candidate decision not yet looked at
    myMax,        \* the depth limit it read
    myDepth,      \* what its AddInt32 on queueDepth returned, until compared
    limit,        \* what its timer was set to
    slaCapped,    \* the timer was set to the SLA
    age,          \* quanta since its timer was set
    woken,        \* the channel it captured and selects on has been closed
    ticked,       \* its ticker channel holds a tick
    outcome,      \* WaitResult.Outcome of the queued wait it is leaving
    freeFor       \* history: quanta for which some node was routable throughout

config  == <<maxDepth, timeout, sla>>
fleet   == <<status, activeConns>>
claim   == <<myMax, myDepth>>
timing  == <<limit, slaCapped, age>>
signals == <<woken, ticked>>
vars    == <<status, activeConns, queueDepth, maxDepth, timeout, sla, pc, node,
             cloudUsable, noRoute, myMax, myDepth, limit, slaCapped, age,
             woken, ticked, outcome, freeFor>>

\* The outcomes of a queued wait, "none" until it is decided.
Outcome == {"none", "routed", "skip_hard", "sla_expired", "queue_timeout",
            "ctx_cancelled"}

Class == {"none", "at_capacity_healthy", "unknown_state",
          "all_nodes_unavailable", "no_node_serves_model"}

-----------------------------------------------------------------------------
(* Routing, reduced to what the wait depends on: the hard filter of a node  *)
(* and the class of a failed route.  Which of the surviving candidates the  *)
(* score picks does not matter here, so any of them may be chosen.          *)

IsUnderCapacity(n) == Cap = 0 \/ activeConns[n] < Cap

Routable == {n \in Node : status[n] = "up" /\ IsUnderCapacity(n)}

ClassifyNoRoute ==
    IF \E n \in Node : status[n] = "up" THEN "at_capacity_healthy"
    ELSE IF \E n \in Node : status[n] = "unknown" THEN "unknown_state"
    ELSE IF \E n \in Node : status[n] = "unavailable" THEN "all_nodes_unavailable"
    ELSE "no_node_serves_model"

IsHardNoRoute(c) == c \in {"all_nodes_unavailable", "no_node_serves_model"}

\* The claim, the timer and the deferred decrement bracket the queued part.
Claimed  == {r \in Request : pc[r] \in {"check", "arm", "select", "recheck", "lastLook", "leave"}}
Admitted == {r \in Request : pc[r] \in {"arm", "select", "recheck", "lastLook", "leave"}}

\* Requests holding a connection slot on n.
Holders(n) == {r \in Request : pc[r] = "serving" /\ node[r] = n}

TimerFired(r) == age[r] >= limit[r]

\* A goroutine blocked in select with nothing to receive.
Blocked(r) == pc[r] = "select" /\ ~woken[r] /\ ~ticked[r] /\ ~TimerFired(r)

-----------------------------------------------------------------------------
Init ==
    /\ status \in [Node -> Statuses]
    /\ activeConns = [n \in Node |-> 0]
    /\ queueDepth = 0
    /\ maxDepth \in Depths
    /\ timeout \in Timeouts
    /\ sla \in Slas
    /\ pc = [r \in Request |-> "idle"]
    /\ node = [r \in Request |-> NoNode]
    /\ cloudUsable = [r \in Request |-> FALSE]
    /\ noRoute = [r \in Request |-> "none"]
    /\ myMax = [r \in Request |-> 0]
    /\ myDepth = [r \in Request |-> 0]
    /\ limit = [r \in Request |-> 0]
    /\ slaCapped = [r \in Request |-> FALSE]
    /\ age = [r \in Request |-> 0]
    /\ woken = [r \in Request |-> FALSE]
    /\ ticked = [r \in Request |-> FALSE]
    /\ outcome = [r \in Request |-> "none"]
    /\ freeFor = 0

\* History: continuity of "some node is routable" is lost when it stops holding.
KeepFree == freeFor' = IF Routable' = {} THEN 0 ELSE freeFor

\* What a request kept for its wait ends with the wait.
Forget(r) ==
    /\ cloudUsable' = [cloudUsable EXCEPT ![r] = FALSE]
    /\ myMax' = [myMax EXCEPT ![r] = 0]
    /\ myDepth' = [myDepth EXCEPT ![r] = 0]
    /\ limit' = [limit EXCEPT ![r] = 0]
    /\ slaCapped' = [slaCapped EXCEPT ![r] = FALSE]
    /\ age' = [age EXCEPT ![r] = 0]
    /\ woken' = [woken EXCEPT ![r] = FALSE]
    /\ ticked' = [ticked EXCEPT ![r] = FALSE]
    /\ outcome' = [outcome EXCEPT ![r] = "none"]

\* The wait returns without a node: the caller goes to cloud or answers 503.
Refused(r) ==
    /\ pc' = [pc EXCEPT ![r] = "idle"]
    /\ Forget(r)
    /\ UNCHANGED node

-----------------------------------------------------------------------------
(* WaitForNodeWithPrefixOpts *)

Arrive(r) ==
    /\ pc[r] = "idle"
    /\ pc' = [pc EXCEPT ![r] = "route"]
    /\ UNCHANGED <<fleet, queueDepth, config, node, cloudUsable, noRoute, claim, timing, signals, outcome>>
    /\ KeepFree

ImmediateRoute(r) ==
    /\ pc[r] = "route"
    /\ \/ \E n \in Routable :
            /\ node' = [node EXCEPT ![r] = n]
            /\ pc' = [pc EXCEPT ![r] = "routed"]
            /\ UNCHANGED noRoute
       \/ /\ Routable = {}
          /\ noRoute' = [noRoute EXCEPT ![r] = ClassifyNoRoute]
          /\ pc' = [pc EXCEPT ![r] = "resolve"]
          /\ UNCHANGED node
    /\ UNCHANGED <<fleet, queueDepth, config, cloudUsable, claim, timing, signals, outcome>>
    /\ KeepFree

\* opts.CloudUsable is called once; what it answers is the caller's business.
ResolveCloud(r) ==
    /\ pc[r] = "resolve"
    /\ \E usable \in BOOLEAN :
         \/ /\ usable /\ IsHardNoRoute(noRoute[r])
            /\ Refused(r)   \* skip_hard
         \/ /\ ~(usable /\ IsHardNoRoute(noRoute[r]))
            /\ cloudUsable' = [cloudUsable EXCEPT ![r] = usable]
            /\ pc' = [pc EXCEPT ![r] = "load"]
            /\ UNCHANGED <<outcome, node, claim, timing, signals>>
    /\ noRoute' = [noRoute EXCEPT ![r] = "none"]
    /\ UNCHANGED <<fleet, queueDepth, config>>
    /\ KeepFree

(* waitForNodeInternal *)

LoadLimits(r) ==
    /\ pc[r] = "load"
    /\ \/ /\ timeout = 0 \/ maxDepth = 0
          /\ Refused(r)   \* queue_disabled
       \/ /\ timeout > 0 /\ maxDepth > 0
          /\ myMax' = [myMax EXCEPT ![r] = maxDepth]
          /\ limit' = [limit EXCEPT ![r] = timeout]
          /\ pc' = [pc EXCEPT ![r] = "claim"]
          /\ UNCHANGED <<outcome, node, cloudUsable, myDepth, slaCapped, age, signals>>
    /\ UNCHANGED <<fleet, queueDepth, config, noRoute>>
    /\ KeepFree

\* AddInt32(&queueDepth, 1) and its result; the mutant reports without adding.
DepthAfterClaim == queueDepth + 1

ClaimSlotUncounted(r) ==
    /\ pc[r] = "claim"
    /\ myDepth' = [myDepth EXCEPT ![r] = DepthAfterClaim]
    /\ pc' = [pc EXCEPT ![r] = "check"]
    /\ UNCHANGED <<fleet, queueDepth, config, node, cloudUsable, noRoute, myMax, timing, signals, outcome>>
    /\ KeepFree

ClaimSlot(r) ==
    /\ pc[r] = "claim"
    /\ queueDepth' = DepthAfterClaim
    /\ myDepth' = [myDepth EXCEPT ![r] = DepthAfterClaim]
    /\ pc' = [pc EXCEPT ![r] = "check"]
    /\ UNCHANGED <<fleet, config, node, cloudUsable, noRoute, myMax, timing, signals, outcome>>
    /\ KeepFree

DepthFitsLoosely(r) == myDepth[r] <= myMax[r] + 1
DepthFits(r) == myDepth[r] <= myMax[r]

\* A rejected claim gives its slot back; the mutant keeps it.
DepthKept == queueDepth
DepthAfterReject == queueDepth - 1

RejectFull(r) ==
    /\ pc[r] = "check"
    /\ ~DepthFits(r)
    /\ queueDepth' = DepthAfterReject
    /\ Refused(r)   \* queue_full
    /\ UNCHANGED <<fleet, config, noRoute>>
    /\ KeepFree

SlaAppliesAnyway(r) == sla > 0 /\ sla < limit[r]
SlaApplies(r) == cloudUsable[r] /\ sla > 0 /\ sla < limit[r]

Admit(r) ==
    /\ pc[r] = "check"
    /\ DepthFits(r)
    /\ slaCapped' = [slaCapped EXCEPT ![r] = SlaApplies(r)]
    /\ limit' = [limit EXCEPT ![r] = IF SlaApplies(r) THEN sla ELSE @]
    /\ myDepth' = [myDepth EXCEPT ![r] = 0]
    /\ pc' = [pc EXCEPT ![r] = "arm"]
    /\ UNCHANGED <<fleet, queueDepth, config, node, cloudUsable, noRoute, myMax, age, signals, outcome>>
    /\ KeepFree

\* Read notifyCh under notifyMu: a close that happened before is not seen.
CaptureNotify(r) ==
    /\ pc[r] = "arm"
    /\ pc' = [pc EXCEPT ![r] = "select"]
    /\ UNCHANGED <<fleet, queueDepth, config, node, cloudUsable, noRoute, claim, timing, signals, outcome>>
    /\ KeepFree

SelectCtxDone(r) ==
    /\ pc[r] = "select"
    /\ pc' = [pc EXCEPT ![r] = "leave"]
    /\ outcome' = [outcome EXCEPT ![r] = "ctx_cancelled"]
    /\ woken' = [woken EXCEPT ![r] = FALSE]
    /\ UNCHANGED <<fleet, queueDepth, config, node, cloudUsable, noRoute, claim, timing, ticked>>
    /\ KeepFree

SelectTimer(r) ==
    /\ pc[r] = "select"
    /\ TimerFired(r)
    /\ pc' = [pc EXCEPT ![r] = "lastLook"]
    /\ woken' = [woken EXCEPT ![r] = FALSE]
    /\ UNCHANGED <<fleet, queueDepth, config, node, cloudUsable, noRoute, claim, timing, ticked, outcome>>
    /\ KeepFree

SelectNotified(r) ==
    /\ pc[r] = "select"
    /\ woken[r]
    /\ pc' = [pc EXCEPT ![r] = "recheck"]
    /\ woken' = [woken EXCEPT ![r] = FALSE]
    /\ UNCHANGED <<fleet, queueDepth, config, node, cloudUsable, noRoute, claim, timing, ticked, outcome>>
    /\ KeepFree

SelectTick(r) ==
    /\ pc[r] = "select"
    /\ ticked[r]
    /\ ticked' = [ticked EXCEPT ![r] = FALSE]
    /\ pc' = [pc EXCEPT ![r] = "recheck"]
    /\ woken' = [woken EXCEPT ![r] = FALSE]
    /\ UNCHANGED <<fleet, queueDepth, config, node, cloudUsable, noRoute, claim, timing, outcome>>
    /\ KeepFree

\* The closure recheck: a node, or a class that ends the wait, or neither.
RecheckRoutes(r) ==
    \E n \in Routable :
        /\ node' = [node EXCEPT ![r] = n]
        /\ outcome' = [outcome EXCEPT ![r] = "routed"]
        /\ pc' = [pc EXCEPT ![r] = "leave"]

RecheckSkipsHard(r) ==
    /\ Routable = {}
    /\ cloudUsable[r] /\ IsHardNoRoute(ClassifyNoRoute)
    /\ outcome' = [outcome EXCEPT ![r] = "skip_hard"]
    /\ pc' = [pc EXCEPT ![r] = "leave"]
    /\ UNCHANGED node

RecheckUndecided(r) ==
    /\ Routable = {}
    /\ ~(cloudUsable[r] /\ IsHardNoRoute(ClassifyNoRoute))
    /\ UNCHANGED node

\* Round the loop, under the same timer; the mutant starts a new one.
LoopRearmed(r) ==
    /\ pc' = [pc EXCEPT ![r] = "arm"]
    /\ age' = [age EXCEPT ![r] = 0]
    /\ UNCHANGED <<limit, slaCapped, outcome>>

Loop(r) ==
    /\ pc' = [pc EXCEPT ![r] = "arm"]
    /\ UNCHANGED <<timing, outcome>>

\* Woken by the channel or the ticker: decide, or go round the loop.
Recheck(r) ==
    /\ pc[r] = "recheck"
    /\ \/ RecheckRoutes(r) /\ UNCHANGED timing
       \/ RecheckSkipsHard(r) /\ UNCHANGED timing
       \/ RecheckUndecided(r) /\ Loop(r)
    /\ UNCHANGED <<fleet, queueDepth, config, cloudUsable, noRoute, claim, signals>>
    /\ KeepFree

\* The timer fired: one last look, then give up.
LastLook(r) ==
    /\ pc[r] = "lastLook"
    /\ \/ RecheckRoutes(r)
       \/ RecheckSkipsHard(r)
       \/ /\ RecheckUndecided(r)
          /\ pc' = [pc EXCEPT ![r] = "leave"]
          /\ outcome' = [outcome EXCEPT ![r] =
                            IF slaCapped[r] THEN "sla_expired" ELSE "queue_timeout"]
    /\ UNCHANGED <<fleet, queueDepth, config, cloudUsable, noRoute, claim, timing, signals>>
    /\ KeepFree

\* The deferred decrement, on every way out of the wait.
Leave(r) ==
    /\ pc[r] = "leave"
    /\ queueDepth' = queueDepth - 1
    /\ pc' = [pc EXCEPT ![r] = IF outcome[r] = "routed" THEN "routed" ELSE "idle"]
    /\ Forget(r)
    /\ UNCHANGED <<fleet, config, node, noRoute>>
    /\ KeepFree

-----------------------------------------------------------------------------
(* The slot itself: IncrConn after the wait returned a node, DecrConn when  *)
(* the response is finished, then the broadcast.                            *)

IncrConn(r) ==
    /\ pc[r] = "routed"
    /\ activeConns' = [activeConns EXCEPT ![node[r]] = @ + 1]
    /\ pc' = [pc EXCEPT ![r] = "serving"]
    /\ UNCHANGED <<status, queueDepth, config, node, cloudUsable, noRoute, claim, timing, signals, outcome>>
    /\ KeepFree

DecrConn(r) ==
    /\ pc[r] = "serving"
    /\ activeConns' = [activeConns EXCEPT ![node[r]] = IF @ > 0 THEN @ - 1 ELSE 0]
    /\ pc' = [pc EXCEPT ![r] = "notify"]
    /\ UNCHANGED <<status, queueDepth, config, node, cloudUsable, noRoute, claim, timing, signals, outcome>>
    /\ KeepFree

\* Close the channel and install a fresh one, under notifyMu: every request
\* that captured the old channel and has not looped since is woken.
NotifyAll(r) ==
    /\ pc[r] = "notify"
    /\ pc' = [pc EXCEPT ![r] = "idle"]
    /\ node' = [node EXCEPT ![r] = NoNode]
    /\ woken' = [q \in Request |-> woken[q] \/ pc[q] = "select"]
    /\ UNCHANGED <<fleet, queueDepth, config, cloudUsable, noRoute, claim, timing, ticked, outcome>>
    /\ KeepFree

-----------------------------------------------------------------------------
(* The environment: operators change settings, polls change node health,    *)
(* time passes.                                                             *)

SetQueueMaxDepth ==
    /\ maxDepth' \in Depths
    /\ UNCHANGED <<fleet, queueDepth, timeout, sla, pc, node, cloudUsable, noRoute, claim, timing, signals, outcome>>
    /\ KeepFree

SetQueueTimeout ==
    /\ timeout' \in Timeouts
    /\ UNCHANGED <<fleet, queueDepth, maxDepth, sla, pc, node, cloudUsable, noRoute, claim, timing, signals, outcome>>
    /\ KeepFree

SetOverflowSLA ==
    /\ sla' \in Slas
    /\ UNCHANGED <<fleet, queueDepth, maxDepth, timeout, pc, node, cloudUsable, noRoute, claim, timing, signals, outcome>>
    /\ KeepFree

\* A poll changes what the filter makes of a node; nobody is notified.
PollChanges(n) ==
    /\ status' \in {[status EXCEPT ![n] = s] : s \in Statuses}
    /\ UNCHANGED <<activeConns, queueDepth, config, pc, node, cloudUsable, noRoute, claim, timing, signals, outcome>>
    /\ KeepFree

\* The ticker's period, and the mutant in which it was never started.
NeverDue(elapsed) == FALSE
TickDue(elapsed) == elapsed % RetryQuanta = 0

\* Time passes only when every goroutine is parked.
Quantum ==
    /\ \A r \in Request : pc[r] \in {"idle", "serving"} \/ Blocked(r)
    /\ age' = [r \in Request |-> IF pc[r] = "select" THEN age[r] + 1 ELSE age[r]]
    /\ ticked' = [r \in Request |->
                     ticked[r] \/ (pc[r] = "select" /\ TickDue(age[r] + 1))]
    /\ freeFor' = IF Routable = {} THEN 0
                  ELSE IF freeFor < RetryQuanta THEN freeFor + 1 ELSE freeFor
    /\ UNCHANGED <<fleet, queueDepth, config, pc, node, cloudUsable, noRoute, claim, limit, slaCapped, woken, outcome>>

Waiting(r) ==
    \/ ImmediateRoute(r) \/ ResolveCloud(r) \/ LoadLimits(r) \/ ClaimSlot(r)
    \/ RejectFull(r) \/ Admit(r) \/ CaptureNotify(r) \/ SelectTimer(r)
    \/ SelectNotified(r) \/ SelectTick(r) \/ Recheck(r) \/ LastLook(r)
    \/ Leave(r) \/ IncrConn(r)

Environment ==
    \/ SetQueueMaxDepth \/ SetQueueTimeout \/ SetOverflowSLA
    \/ \E n \in Node : PollChanges(n)

Next ==
    \/ \E r \in Request : \/ Waiting(r) \/ Arrive(r) \/ SelectCtxDone(r)
                          \/ DecrConn(r) \/ NotifyAll(r)
    \/ Environment
    \/ Quantum

\* Go runs every runnable goroutine, and time diverges (a stream of requests
\* and wake-ups does not fit into one quantum).  Nothing is assumed of
\* clients, upstreams or operators.
Fairness ==
    /\ \A r \in Request : WF_vars(Waiting(r)) /\ WF_vars(NotifyAll(r))
    /\ []<><<Quantum>>_vars

Spec == Init /\ [][Next]_vars /\ Fairness

-----------------------------------------------------------------------------
(* Properties *)

\* Every variable stays in its domain; the counters the code keeps as int32
\* never go negative.
TypeOK ==
    /\ status \in [Node -> Status]
    /\ activeConns \in [Node -> Nat]
    /\ queueDepth \in Nat
    /\ maxDepth \in Nat /\ timeout \in Nat /\ sla \in Nat
    /\ pc \in [Request -> {"idle", "route", "resolve", "load", "claim", "check", "arm",
                           "select", "recheck", "lastLook", "leave", "routed",
                           "serving", "notify"}]
    /\ node \in [Request -> Node \cup {NoNode}]
    /\ cloudUsable \in [Request -> BOOLEAN]
    /\ noRoute \in [Request -> Class]
    /\ myMax \in [Request -> Nat]
    /\ myDepth \in [Request -> Nat]
    /\ limit \in [Request -> Nat]
    /\ slaCapped \in [Request -> BOOLEAN]
    /\ age \in [Request -> Nat]
    /\ woken \in [Request -> BOOLEAN]
    /\ ticked \in [Request -> BOOLEAN]
    /\ outcome \in [Request -> Outcome]
    /\ freeFor \in 0..RetryQuanta

\* The queue never holds more requests than the largest depth limit one of
\* them read (queue_wait.go:134-139), although the limit is checked after the
\* add, other requests add and leave in between, and SetQueueMaxDepth moves it.
QueueBound ==
    Admitted # {} => \E r \in Admitted : Cardinality(Admitted) <= myMax[r]

\* Slots are counted exactly: queueDepth is the number of requests between
\* their claim and their deferred decrement, and a node's ActiveConns the
\* number of requests it is serving, so neither leaks on any way out.
SlotAccounting ==
    /\ queueDepth = Cardinality(Claimed)
    /\ \A n \in Node : activeConns[n] = Cardinality(Holders(n))

\* A lost wake-up is bounded by the retry ticker: once a request has waited,
\* and a node has been routable, for a whole retry interval, the request is
\* not asleep (queue_wait.go:163-167).
NoOversleptSlot ==
    \A r \in Request :
        Blocked(r) => age[r] < RetryQuanta \/ freeFor < RetryQuanta

\* A wait that gives up really lasted its limit, and the SLA shortens it only
\* when cloud can take the request (queue_wait.go:150-159, 193-203).
GiveUpIsDue ==
    \A r \in Request :
        pc[r] = "leave" =>
            /\ outcome[r] \in {"sla_expired", "queue_timeout"} => age[r] >= limit[r]
            /\ outcome[r] = "sla_expired" => cloudUsable[r]
            /\ outcome[r] = "skip_hard" => cloudUsable[r]

\* Every request is routed or refused, whatever nodes, operators and other
\* requests do: being woken again and again does not prolong the wait.
EveryRequestAnswered ==
    \A r \in Request : pc[r] = "route" ~> pc[r] \in {"idle", "serving"}

=============================================================================
