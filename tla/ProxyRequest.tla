---------------------------- MODULE ProxyRequest ----------------------------
(***************************************************************************)
(* The life of a proxied request: Handler.ServeHTTP and proxyToCloud of    *)
(* proxy/proxy.go.                                                         *)
(*                                                                         *)
(* A request is checked against its key's model list, waits for a node,    *)
(* takes a slot on it and is sent there.  A node that fails before the     *)
(* first byte is replaced by another, then by another model (once), then   *)
(* by the cloud providers in turn.  Key policy, node availability, rate    *)
(* limits, spend and the client's patience change at any step.             *)
(*                                                                         *)
(* The router answers a route question with any node that serves the       *)
(* model, or none; RequestQueue models the wait.  A model limit, a spend   *)
(* budget and a provider list are read from tables others write, so their  *)
(* answers are arbitrary too.  Every request names a model, and management *)
(* endpoints are refused (the default).  Logging and metrics are left out. *)
(***************************************************************************)
EXTENDS Integers, FiniteSets

CONSTANTS
    Request,     \* requests in flight
    Node,        \* local nodes
    Model,       \* models nodes serve
    None,        \* no node, nothing held
    Alias,       \* operator-declared aliases: a function from names to models
    Chain,       \* local degradation chains: a function from models to sets of models
    Fallback,    \* quantization fallback chains, likewise
    AllowLists,  \* model lists keys have; the empty list allows everything
    MaxRetries,  \* routing.max_retries
    MaxClouds    \* longest list of enabled cloud providers

Name == Model \cup DOMAIN Alias

ASSUME ProxyAssumption ==
    /\ IsFiniteSet(Request) /\ IsFiniteSet(Node)
    /\ None \notin Node /\ None \notin [node : Node, model : Model]
    /\ DOMAIN Alias \cap Model = {} /\ \A a \in DOMAIN Alias : Alias[a] \in Model
    /\ Chain \in [Model -> SUBSET Model] /\ Fallback \in [Model -> SUBSET Model]
    /\ AllowLists \subseteq SUBSET Name
    /\ MaxRetries \in Nat /\ MaxClouds \in Nat

VARIABLES
    localOnly,   \* the key's local_only flag
    mayDegrade,  \* the key's allow_local_degradation flag
    conns,       \* NodeState.ActiveConns
    inFlight,    \* NodeState.modelInFlight
    req          \* the handlers' local variables

vars == <<localOnly, mayDegrade, conns, inFlight, req>>

\* A body is what the properties tell apart: the model it names and the node
\* whose profile was merged into it.
Plain(m)      == [model |-> m, profile |-> None]
Profiled(b, n) == [b EXCEPT !.profile = n]

\* A handler's variables.  The second half is history: whether the client is
\* still there, how often a node was called, whether a provider was, refunds,
\* the answer, whether the key has been local_only throughout, and the
\* (node, model) pairs that failed or were refused for this request.
Idle == [pc |-> "idle", client |-> None, allowed |-> {}, model |-> None,
         degradable |-> FALSE, node |-> None, held |-> None, tried |-> {},
         attempt |-> 0, degradedOnce |-> FALSE, base |-> Plain(None), body |-> Plain(None),
         clouds |-> 0, idx |-> 0,
         there |-> FALSE, calls |-> 0, sent |-> FALSE, refunds |-> 0, answer |-> "none",
         keptLocal |-> FALSE, failed |-> {}]

Init ==
    /\ localOnly \in BOOLEAN
    /\ mayDegrade \in BOOLEAN
    /\ conns = [n \in Node |-> 0]
    /\ inFlight = [n \in Node |-> [m \in Model |-> 0]]
    /\ req = [r \in Request |-> Idle]

-----------------------------------------------------------------------------
(* Parts of the handler *)

\* Calls are counted up to one more than the code can make.
CallBound == MaxRetries + 3
Count(v) == IF v < CallBound THEN v + 1 ELSE v

At(r, label) == req[r].pc = label

\* The handler returns, having written this answer (or nothing).
Return(r, answer) == req' = [req EXCEPT ![r] = [@ EXCEPT !.pc = "done", !.answer = answer]]

\* The allow-list test of the requested model, and of a substitute.
PermitsRequested(r, m) ==
    \/ req[r].allowed = {}
    \/ m \in req[r].allowed
    \/ req[r].client \in DOMAIN Alias /\ req[r].client \in req[r].allowed
Permits(r, m) == req[r].allowed = {} \/ m \in req[r].allowed

Resolve(c) == IF c \in DOMAIN Alias THEN Alias[c] ELSE c

\* acquire and release.  DecrConn stops at zero.
Acquire(n, m) ==
    /\ conns' = [conns EXCEPT ![n] = @ + 1]
    /\ inFlight' = [inFlight EXCEPT ![n][m] = @ + 1]

Decr(v) == IF v > 0 THEN v - 1 ELSE 0

Release(r) ==
    IF req[r].held = None
    THEN UNCHANGED <<conns, inFlight>>
    ELSE /\ conns' = [conns EXCEPT ![req[r].held.node] = Decr(@)]
         /\ inFlight' = [inFlight EXCEPT ![req[r].held.node][req[r].held.model] = Decr(@)]

\* The models tryLocalDegradationChain may end up with.
Substitutes(r) ==
    IF req[r].degradable THEN {m \in Chain[req[r].model] : Permits(r, m)} ELSE {}

\* The request moves to model m on node n.
Substituted(q, m, n) ==
    [q EXCEPT !.model = m, !.base = Plain(m), !.node = n, !.degradedOnce = TRUE]
SubstitutedAgain(q, m, n) ==
    [q EXCEPT !.model = m, !.base = Plain(m), !.node = n]

-----------------------------------------------------------------------------
(* Admission *)

Arrive(r) ==
    /\ At(r, "idle")
    /\ \E c \in Name, l \in AllowLists :
         req' = [req EXCEPT ![r] = [Idle EXCEPT !.pc = "arrived", !.client = c, !.allowed = l,
                                                !.there = TRUE, !.keptLocal = localOnly]]
    /\ UNCHANGED <<localOnly, mayDegrade, conns, inFlight>>

\* Management and unsupported paths, model listings, compressed, oversized or
\* ambiguous bodies.
RefuseEarly(r) ==
    /\ At(r, "arrived")
    /\ Return(r, "refused")
    /\ UNCHANGED <<localOnly, mayDegrade, conns, inFlight>>

\* The key may not use the model: 403, and the key gets its request back.
RefuseModel(r) ==
    /\ At(r, "arrived")
    /\ ~PermitsRequested(r, Resolve(req[r].client))
    /\ req' = [req EXCEPT ![r] = [@ EXCEPT !.pc = "done", !.answer = "refused",
                                           !.refunds = req[r].refunds + 1]]
    /\ UNCHANGED <<localOnly, mayDegrade, conns, inFlight>>

\* The model is resolved and, where it fits nowhere, replaced by one of its
\* fallback chain; the prompt may still exceed the model's context window.
Admit(r) ==
    LET m == Resolve(req[r].client)
    IN  /\ At(r, "arrived")
        /\ PermitsRequested(r, m)
        /\ \E alt \in {m} \cup {a \in Fallback[m] : Permits(r, a)} :
             \/ req' = [req EXCEPT ![r] = [@ EXCEPT !.pc = "waiting", !.model = alt,
                                                    !.base = Plain(alt), !.degradable = mayDegrade]]
             \/ Return(r, "refused")
        /\ UNCHANGED <<localOnly, mayDegrade, conns, inFlight>>

\* WaitForNodeWithPrefixOpts returns a node, or none.
WaitRouted(r) ==
    /\ At(r, "waiting")
    /\ \E n \in Node : req' = [req EXCEPT ![r] = [@ EXCEPT !.pc = "chosen", !.node = n]]
    /\ UNCHANGED <<localOnly, mayDegrade, conns, inFlight>>

WaitEnded(r) ==
    /\ At(r, "waiting")
    /\ req' = [req EXCEPT ![r].pc = "noNode"]
    /\ UNCHANGED <<localOnly, mayDegrade, conns, inFlight>>

\* No node for the model: another model, or overflow.
DegradeFirst(r) ==
    /\ At(r, "noNode")
    /\ \E m \in Substitutes(r), n \in Node :
         req' = [req EXCEPT ![r] = [Substituted(@, m, n) EXCEPT !.pc = "chosen"]]
    /\ UNCHANGED <<localOnly, mayDegrade, conns, inFlight>>

GiveUpFirst(r) ==
    /\ At(r, "noNode")
    /\ req' = [req EXCEPT ![r].pc = "leaving"]
    /\ UNCHANGED <<localOnly, mayDegrade, conns, inFlight>>

\* acquire, before the node's own limit is looked at.
Choose(r) ==
    LET q == req[r]
    IN  /\ At(r, "chosen")
        /\ Acquire(q.node, q.model)
        /\ req' = [req EXCEPT ![r] = [@ EXCEPT !.pc = "gate",
                                               !.held = [node |-> q.node, model |-> q.model]]]
        /\ UNCHANGED <<localOnly, mayDegrade>>

\* profileFor admits the request, which is sent with the node's profile.
Pass(r) ==
    LET q == req[r]
    IN  /\ At(r, "gate")
        /\ req' = [req EXCEPT ![r] = [@ EXCEPT !.pc = "upstream", !.body = Profiled(q.base, q.node),
                                               !.tried = {q.node}, !.calls = Count(q.calls)]]
        /\ UNCHANGED <<localOnly, mayDegrade, conns, inFlight>>

\* rejectModelRateLimited: the slot and the key's request are given back.
RateLimited(r) ==
    /\ At(r, "gate")
    /\ Release(r)
    /\ req' = [req EXCEPT ![r] = [@ EXCEPT !.pc = "done", !.answer = "refused", !.held = None,
                                           !.refunds = req[r].refunds + 1]]
    /\ UNCHANGED <<localOnly, mayDegrade>>

\* The chosen node's URL does not parse.
BadURL(r) ==
    /\ At(r, "gate")
    /\ Release(r)
    /\ req' = [req EXCEPT ![r] = [@ EXCEPT !.pc = "done", !.answer = "refused", !.held = None]]
    /\ UNCHANGED <<localOnly, mayDegrade>>

-----------------------------------------------------------------------------
(* The call to the node and what follows its failure *)

\* The node's response headers arrive in time: from here on there is no other node.
Answer(r) ==
    /\ At(r, "upstream")
    /\ req' = [req EXCEPT ![r].pc = "streaming"]
    /\ UNCHANGED <<localOnly, mayDegrade, conns, inFlight>>

\* The response was passed on, or its stream broke: the slot is returned.
Respond(r) ==
    /\ At(r, "streaming")
    /\ Release(r)
    /\ \E a \in {"response", "aborted"} :
         req' = [req EXCEPT ![r] = [@ EXCEPT !.pc = "done", !.answer = a, !.held = None]]
    /\ UNCHANGED <<localOnly, mayDegrade>>

\* Any other panic unwinds the handler: the deferred release runs and
\* RecoverMiddleware answers.  The mutant has no deferred release.
PanicLeaks(r) ==
    /\ req[r].held # None
    /\ req' = [req EXCEPT ![r] = [@ EXCEPT !.pc = "done", !.answer = "aborted", !.held = None]]
    /\ UNCHANGED <<localOnly, mayDegrade, conns, inFlight>>
Panic(r) ==
    /\ req[r].held # None
    /\ Release(r)
    /\ req' = [req EXCEPT ![r] = [@ EXCEPT !.pc = "done", !.answer = "aborted", !.held = None]]
    /\ UNCHANGED <<localOnly, mayDegrade>>

\* ErrorHandler: nothing was written yet.  A client that left is not worth
\* another call.
Fail(r) ==
    LET q == req[r]
    IN  /\ At(r, "upstream")
        /\ Release(r)
        /\ req' = [req EXCEPT
              ![r] = [@ EXCEPT
                 !.held = None,
                 !.tried = q.tried \cup {q.node},
                 !.failed = q.failed \cup {<<q.node, q.model>>},
                 !.pc = IF ~q.there THEN "done"
                        ELSE IF q.attempt < MaxRetries THEN "failover" ELSE "degrade"]]
        /\ UNCHANGED <<localOnly, mayDegrade>>

\* RouteExcludingWithPrefix offers a node that was not tried, and its limit
\* admits the request ...
Failover(r) ==
    /\ At(r, "failover")
    /\ \E n \in Node \ req[r].tried :
         req' = [req EXCEPT ![r] = [@ EXCEPT !.pc = "next", !.node = n,
                                             !.body = Profiled(req[r].base, n)]]
    /\ UNCHANGED <<localOnly, mayDegrade, conns, inFlight>>

\* ... or does not: the node counts as tried.
FailoverLimited(r) ==
    /\ At(r, "failover")
    /\ \E n \in Node \ req[r].tried :
         req' = [req EXCEPT ![r] = [@ EXCEPT !.tried = req[r].tried \cup {n},
                                             !.failed = req[r].failed \cup {<<n, req[r].model>>}]]
    /\ UNCHANGED <<localOnly, mayDegrade, conns, inFlight>>

\* No other node.
FailoverEnds(r) ==
    /\ At(r, "failover")
    /\ req' = [req EXCEPT ![r].pc = "degrade"]
    /\ UNCHANGED <<localOnly, mayDegrade, conns, inFlight>>

\* One substitution per request, on any node: the mutant allows more.
DegradeAgain(r) ==
    /\ At(r, "degrade")
    /\ ~req[r].degradedOnce
    /\ \E m \in Substitutes(r), n \in Node :
         req' = [req EXCEPT ![r] = [SubstitutedAgain(@, m, n) EXCEPT
                                      !.pc = "next", !.body = Profiled(Plain(m), n)]]
    /\ UNCHANGED <<localOnly, mayDegrade, conns, inFlight>>
Degrade(r) ==
    /\ At(r, "degrade")
    /\ ~req[r].degradedOnce
    /\ \E m \in Substitutes(r), n \in Node :
         req' = [req EXCEPT ![r] = [Substituted(@, m, n) EXCEPT
                                      !.pc = "next", !.body = Profiled(Plain(m), n)]]
    /\ UNCHANGED <<localOnly, mayDegrade, conns, inFlight>>

DegradeEnds(r) ==
    /\ At(r, "degrade")
    /\ req' = [req EXCEPT ![r].pc = "leaving"]
    /\ UNCHANGED <<localOnly, mayDegrade, conns, inFlight>>

\* The loop takes a slot on the next node and calls it.
Retry(r) ==
    LET q == req[r]
    IN  /\ At(r, "next")
        /\ \/ /\ Acquire(q.node, q.model)
              /\ req' = [req EXCEPT ![r] = [@ EXCEPT !.pc = "upstream", !.attempt = Count(q.attempt),
                                                     !.calls = Count(q.calls),
                                                     !.held = [node |-> q.node, model |-> q.model]]]
           \/ /\ Return(r, "refused")   \* the URL does not parse: taken and released
              /\ UNCHANGED <<conns, inFlight>>
        /\ UNCHANGED <<localOnly, mayDegrade>>

-----------------------------------------------------------------------------
(* Overflow *)

\* localOnlyBlocked.
Block(r) ==
    /\ At(r, "leaving")
    /\ localOnly
    /\ Return(r, "refused")
    /\ UNCHANGED <<localOnly, mayDegrade, conns, inFlight>>

\* The mutant omits the test where a node failed, and keeps it where none was
\* found.
UnblockAfterFailure(r) ==
    /\ At(r, "leaving")
    /\ localOnly => req[r].calls > 0
    /\ req' = [req EXCEPT ![r].pc = "overflow"]
    /\ UNCHANGED <<localOnly, mayDegrade, conns, inFlight>>
Unblock(r) ==
    /\ At(r, "leaving")
    /\ ~localOnly
    /\ req' = [req EXCEPT ![r].pc = "overflow"]
    /\ UNCHANGED <<localOnly, mayDegrade, conns, inFlight>>

\* No provider is enabled, or the spend budget is used up.
NoOverflow(r) ==
    /\ At(r, "overflow")
    /\ Return(r, "refused")
    /\ UNCHANGED <<localOnly, mayDegrade, conns, inFlight>>

\* cloudRequestFor: the provider gets the client's model name and no node's
\* profile.
CloudRequestFor(r) == [req[r].base EXCEPT !.model = req[r].client]

Overflow(r) ==
    /\ At(r, "overflow")
    /\ \E k \in 1..MaxClouds :
         req' = [req EXCEPT ![r] = [@ EXCEPT !.pc = "cloud", !.body = CloudRequestFor(r),
                                             !.clouds = k, !.idx = 1]]
    /\ UNCHANGED <<localOnly, mayDegrade, conns, inFlight>>

\* proxyToCloud for provider idx: not for a client that left.
CloudAbandon(r) ==
    /\ At(r, "cloud")
    /\ ~req[r].there
    /\ Return(r, "none")
    /\ UNCHANGED <<localOnly, mayDegrade, conns, inFlight>>

CloudCall(r) ==
    /\ At(r, "cloud")
    /\ req[r].there
    /\ req' = [req EXCEPT ![r] = [@ EXCEPT !.pc = "calling", !.sent = TRUE]]
    /\ UNCHANGED <<localOnly, mayDegrade, conns, inFlight>>

\* The provider's response headers arrive, and later its stream ends or breaks.
CloudAnswer(r) ==
    /\ At(r, "calling")
    /\ req' = [req EXCEPT ![r].pc = "relaying"]
    /\ UNCHANGED <<localOnly, mayDegrade, conns, inFlight>>

CloudRespond(r) ==
    /\ At(r, "relaying")
    /\ \E a \in {"response", "aborted"} : Return(r, a)
    /\ UNCHANGED <<localOnly, mayDegrade, conns, inFlight>>

\* It cannot be reached, or does not have the endpoint: the next one, if any.
CloudFail(r) ==
    /\ At(r, "calling") \/ (At(r, "cloud") /\ req[r].there)
    /\ IF req[r].idx < req[r].clouds
       THEN req' = [req EXCEPT ![r] = [@ EXCEPT !.pc = "cloud", !.idx = req[r].idx + 1]]
       ELSE Return(r, "refused")
    /\ UNCHANGED <<localOnly, mayDegrade, conns, inFlight>>

\* The provider's URL does not parse: the others are not asked.
CloudBadURL(r) ==
    /\ At(r, "cloud")
    /\ req[r].there
    /\ Return(r, "refused")
    /\ UNCHANGED <<localOnly, mayDegrade, conns, inFlight>>

-----------------------------------------------------------------------------
(* The world around the handlers *)

\* The key's flags are patched.
PatchKey ==
    \E l, d \in BOOLEAN :
        /\ <<l, d>> # <<localOnly, mayDegrade>>
        /\ localOnly' = l
        /\ mayDegrade' = d
        /\ req' = [r \in Request |-> [req[r] EXCEPT !.keptLocal = @ /\ l]]
        /\ UNCHANGED <<conns, inFlight>>

\* The client closes its connection.
Disconnect(r) ==
    /\ req[r].there
    /\ req[r].pc # "done"
    /\ req' = [req EXCEPT ![r].there = FALSE]
    /\ UNCHANGED <<localOnly, mayDegrade, conns, inFlight>>

\* The goroutine ends; the next request may use its name.
Forget(r) ==
    /\ At(r, "done")
    /\ req' = [req EXCEPT ![r] = Idle]
    /\ UNCHANGED <<localOnly, mayDegrade, conns, inFlight>>

\* A body is copied for as long as the upstream sends it.
Streams(r) == At(r, "streaming") \/ At(r, "relaying")
StreamEnds(r) == Respond(r) \/ CloudRespond(r)

\* The steps the handler takes by itself once the request is there.
Step(r) ==
    \/ RefuseEarly(r) \/ RefuseModel(r) \/ Admit(r)
    \/ WaitRouted(r) \/ WaitEnded(r) \/ DegradeFirst(r) \/ GiveUpFirst(r)
    \/ Choose(r) \/ Pass(r) \/ RateLimited(r) \/ BadURL(r)
    \/ Answer(r) \/ StreamEnds(r) \/ Panic(r) \/ Fail(r)
    \/ Failover(r) \/ FailoverLimited(r) \/ FailoverEnds(r)
    \/ Degrade(r) \/ DegradeEnds(r) \/ Retry(r)
    \/ Block(r) \/ Unblock(r) \/ NoOverflow(r) \/ Overflow(r)
    \/ CloudAbandon(r) \/ CloudCall(r) \/ CloudAnswer(r) \/ CloudFail(r)
    \/ CloudBadURL(r)
    \/ Forget(r)

Next == PatchKey \/ \E r \in Request : Arrive(r) \/ Disconnect(r) \/ Step(r)

Spec == Init /\ [][Next]_vars

\* A handler is a goroutine: its waits are bounded by the queue timeout, and its calls
\* by upstream_timeout_ms, up to the response headers.  Nothing bounds the body: only
\* a client that leaves ends the reading of one that does not come.
Prompt(r) == Step(r) /\ (Streams(r) => ~req[r].there)
FairSpec == Spec /\ \A r \in Request : WF_vars(Prompt(r))

-----------------------------------------------------------------------------
(* Properties *)

Labels == {"idle", "arrived", "waiting", "noNode", "chosen", "gate", "upstream", "streaming",
           "failover", "degrade", "next", "leaving", "overflow", "cloud", "calling", "relaying",
           "done"}

\* Every variable stays in its domain.
TypeOK ==
    /\ localOnly \in BOOLEAN /\ mayDegrade \in BOOLEAN
    /\ conns \in [Node -> Nat]
    /\ inFlight \in [Node -> [Model -> Nat]]
    /\ \A r \in Request :
         /\ req[r].pc \in Labels
         /\ req[r].client \in Name \cup {None} /\ req[r].allowed \subseteq Name
         /\ req[r].model \in Model \cup {None} /\ req[r].node \in Node \cup {None}
         /\ req[r].held \in [node : Node, model : Model] \cup {None}
         /\ req[r].tried \subseteq Node /\ req[r].attempt \in Nat
         /\ req[r].idx \in 0..req[r].clouds /\ req[r].clouds <= MaxClouds

\* A node's connection count and its count per model are those of the
\* requests now in a call to it: no failure, retry, substitution, refusal or
\* panic leaks a slot or returns one twice (proxy.go:614-635).
SlotsBalanced ==
    LET on(n) == {r \in Request : /\ req[r].pc \in {"gate", "upstream", "streaming"}
                                  /\ req[r].node = n}
    IN  \A n \in Node :
          /\ conns[n] = Cardinality(on(n))
          /\ \A m \in Model : inFlight[n][m] = Cardinality({r \in on(n) : req[r].model = m})

\* A request of a key that is local_only throughout never reaches a cloud
\* provider, whichever way it lost its node (proxy.go:69-93).
LocalOnlyKept ==
    \A r \in Request : req[r].sent => ~req[r].keptLocal

\* No node is called for a model the key may not use: the list survives
\* aliases, fallback chains and degradation (proxy.go:379-440, 1111-1113).
AllowListKept ==
    \A r \in Request : At(r, "upstream") =>
        \/ Permits(r, req[r].model)
        \/ req[r].client \in req[r].allowed /\ req[r].model = Resolve(req[r].client)

\* The retry budget holds across failovers and the substitution, however the
\* chains are declared: the first call, one per retry and one more for the
\* substituted model (proxy.go:552-558, 783-855).
CallsBounded ==
    \A r \in Request : req[r].calls <= MaxRetries + 2

\* A refunded request reached neither a node nor a provider, and is refunded
\* once (proxy.go:390-396, 684-695).
RefundedUnserved ==
    \A r \in Request : req[r].refunds > 0 =>
        req[r].refunds = 1 /\ req[r].calls = 0 /\ ~req[r].sent

\* A node gets the body of the model it is called for with its own profile
\* and no other's; a provider gets the client's model name and no profile
\* (proxy.go:655-664, 1069-1088).
BodyFollows ==
    \A r \in Request :
        /\ At(r, "upstream") => req[r].body = Profiled(Plain(req[r].model), req[r].node)
        /\ req[r].pc \in {"cloud", "calling"} => req[r].body = Plain(req[r].client)

\* Every request ends (proxy.go:741, 795: neither loop can spin), save one whose client
\* stays for a body that some upstream never finishes (proxy.go:110-112).
EveryRequestEnds ==
    \A r \in Request : []<>At(r, "idle") \/ <>[](Streams(r) /\ req[r].there)

\* What proxy.go:1108-1111 says: the set of tried nodes is per model and does
\* not carry over to a model switch.
TriedIsPerModel ==
    \A r \in Request : At(r, "failover") =>
        \A n \in req[r].tried : <<n, req[r].model>> \in req[r].failed

=============================================================================
