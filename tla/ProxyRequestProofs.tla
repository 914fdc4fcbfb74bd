------------------------- MODULE ProxyRequestProofs -------------------------
(***************************************************************************)
(* Proofs about the request handler, for any number of requests, nodes and *)
(* models, any aliases and chains, and any retry budget: no path leaks a   *)
(* slot or returns one twice, and what RequestKept says of policy, budget, *)
(* refunds and bodies holds on all of them.                                *)
(*                                                                         *)
(* The handler's locals are one record, and nearly all that is needed is   *)
(* said of one record at a time: at which label which of its fields means  *)
(* what (Good).  The exception is the key's local_only flag, which changes *)
(* under the handler's feet.  The slots then follow from who holds one:    *)
(* exactly the requests at the gate or in a call.                          *)
(*                                                                         *)
(* Beside the handler, the cloud budget and the usage figures, for any     *)
(* calendar and number of requests.  Once a cap is reached only the        *)
(* requests that were let through before may still spend (SpendInv), and   *)
(* every call is in exactly one of memory, queue and store (LedgerInv).    *)
(***************************************************************************)
EXTENDS MCProxyRequest, FiniteSetTheorems, WellFoundedInduction, TLAPS

-----------------------------------------------------------------------------
(* The invariant. *)

Body == [model : Name \cup {None}, profile : Node \cup {None}]
Slot == [node : Node, model : Model]
Fields ==
    {"pc", "client", "allowed", "model", "degradable", "node", "held", "tried", "attempt",
     "degradedOnce", "base", "body", "clouds", "idx", "there", "calls", "sent", "refunds",
     "answer", "keptLocal", "failed"}

\* The domain of every field.
Handled(q) ==
    /\ DOMAIN q = Fields
    /\ q.pc \in Labels /\ q.client \in Name \cup {None} /\ q.allowed \subseteq Name
    /\ q.model \in Model \cup {None} /\ q.node \in Node \cup {None}
    /\ q.held \in Slot \cup {None} /\ q.tried \subseteq Node /\ q.attempt \in Nat
    /\ q.base \in Body /\ q.body \in Body
    /\ q.clouds \in 0..MaxClouds /\ q.idx \in Nat /\ q.calls \in Nat /\ q.refunds \in Nat

Early   == {"idle", "arrived", "waiting", "noNode", "chosen", "gate"}
Calling == {"upstream", "streaming", "failover", "degrade", "next"}
Leaving == {"overflow", "cloud", "calling", "relaying"}
Routed  == {"waiting", "noNode", "chosen", "gate"} \cup Calling
Holding == {"gate", "upstream", "streaming"}

HandlersTyped == DOMAIN req = Request /\ \A r \in Request : Handled(req[r])

\* A request beyond its admission has a model, and one that is about to take a
\* slot or has one has a node.
Placed(q) ==
    /\ q.pc # "idle" => q.client \in Name
    /\ q.pc \in Routed => q.model \in Model
    /\ q.pc \in Holding \cup {"chosen", "next"} => q.node \in Node
    /\ q.idx <= q.clouds

\* The slot it holds is the one of the call it is in.
HoldsSlot(q) ==
    IF q.pc \in Holding THEN q.held = [node |-> q.node, model |-> q.model] ELSE q.held = None

\* The model it was given is one its key may use.
MayUse(q) ==
    q.pc \in Routed => \/ q.allowed = {} \/ q.model \in q.allowed
                       \/ q.client \in q.allowed /\ q.model = Resolve(q.client)

\* Every call is one attempt; only the substitute is tried beyond the budget.
InBudget(q) ==
    /\ q.calls <= MaxRetries + 2
    /\ q.pc \in Early => q.calls = 0 /\ q.attempt = 0
    /\ q.pc \in Calling => q.calls = q.attempt + 1
    /\ q.pc = "failover" => q.attempt < MaxRetries
    /\ q.pc = "next" => q.attempt < MaxRetries \/ (q.attempt = MaxRetries /\ q.degradedOnce)
    /\ q.pc \in {"upstream", "degrade"} =>
         q.attempt <= MaxRetries \/ (q.attempt = MaxRetries + 1 /\ q.degradedOnce)

\* A refund is the last thing that happens to a request nobody served.
Refunded(q) ==
    /\ q.pc # "done" => q.refunds = 0
    /\ q.refunds > 0 => q.refunds = 1 /\ q.calls = 0 /\ ~q.sent
    /\ q.sent => q.pc \in {"cloud", "calling", "relaying", "done"}

\* What is sent is made from the plain body of the current model.
SendsBody(q) ==
    /\ q.pc \in Routed \cup {"leaving", "overflow"} => q.base = Plain(q.model)
    /\ q.pc \in {"upstream", "next"} => q.body = Profiled(Plain(q.model), q.node)
    /\ q.pc \in {"cloud", "calling"} => q.body = Plain(q.client)

Good(q) == /\ Placed(q) /\ HoldsSlot(q) /\ MayUse(q) /\ InBudget(q) /\ Refunded(q) /\ SendsBody(q)

\* A key that has been local_only throughout still is, and no request of it is
\* on its way out.
StaysLocal(q) ==
    q.keptLocal => localOnly /\ q.pc \notin Leaving /\ ~q.sent

HandlersGood ==
    /\ HandlersTyped
    /\ \A r \in Request : Good(req[r]) /\ StaysLocal(req[r])

\* Who holds a slot on a node, and for which model.
On(n)       == {r \in Request : req[r].pc \in Holding /\ req[r].node = n}
OnFor(n, m) == {r \in On(n) : req[r].model = m}

Slots ==
    /\ conns \in [Node -> Nat] /\ inFlight \in [Node -> [Model -> Nat]]
    /\ \A n \in Node : /\ conns[n] = Cardinality(On(n))
                       /\ \A m \in Model : inFlight[n][m] = Cardinality(OnFor(n, m))

PInv == localOnly \in BOOLEAN /\ mayDegrade \in BOOLEAN /\ HandlersGood /\ Slots

-----------------------------------------------------------------------------
(* Bodies and models. *)

LEMMA ModelsAreNames ==
    /\ Model \subseteq Name
    /\ \A c \in Name : Resolve(c) \in Model
BY ProxyAssumption DEF Name, Resolve

LEMMA BodyTypes ==
    /\ \A m \in Name \cup {None} : Plain(m) \in Body
    /\ \A b \in Body, n \in Node : Profiled(b, n) \in Body
    /\ \A m, c \in Name \cup {None} : [Plain(m) EXCEPT !.model = c] = Plain(c)
BY DEF Plain, Profiled, Body

LEMMA IdleType == Handled(Idle) /\ Good(Idle) /\ Idle.pc = "idle" /\ ~Idle.keptLocal
<1>1. Plain(None) \in Body
  BY BodyTypes
<1>2. Handled(Idle)
  BY <1>1, ProxyAssumption DEF Idle, Handled, Fields, Labels
<1>3. Good(Idle)
  BY ProxyAssumption DEF Idle, Good, Placed, HoldsSlot, MayUse, InBudget, Refunded, SendsBody,
         Early, Calling, Routed, Holding
<1>. QED
  BY <1>2, <1>3 DEF Idle

LEMMA IdleSent == ~Idle.sent /\ DOMAIN Idle = Fields
BY DEF Idle, Fields

LEMMA HandlerMoves ==
    ASSUME HandlersTyped, NEW r \in Request, NEW q, Handled(q), req' = [req EXCEPT ![r] = q]
    PROVE  HandlersTyped'
BY DEF HandlersTyped

LEMMA GoodMoves ==
    ASSUME HandlersTyped, \A s \in Request : Good(req[s]), NEW r \in Request, NEW q, Good(q),
           req' = [req EXCEPT ![r] = q]
    PROVE  (\A s \in Request : Good(req[s]))'
BY DEF HandlersTyped

-----------------------------------------------------------------------------
(* Steps of the handlers. *)

\* Every step leaves the handlers' variables in their domains.
LEMMA StepTypes == PInv /\ [Next]_vars => HandlersTyped'
<1>. SUFFICES ASSUME PInv, [Next]_vars PROVE HandlersTyped'
  OBVIOUS
<1>a. HandlersTyped /\ \A r \in Request : Placed(req[r])
  BY DEF PInv, HandlersGood, Good, HandlersTyped
<1>1. ASSUME NEW r \in Request, Arrive(r) PROVE HandlersTyped'
  <2>1. PICK c \in Name, l \in AllowLists :
          req' = [req EXCEPT ![r] = [Idle EXCEPT !.pc = "arrived", !.client = c, !.allowed = l,
                                                 !.there = TRUE, !.keptLocal = localOnly]]
    BY <1>1 DEF Arrive
  <2>2. Handled([Idle EXCEPT !.pc = "arrived", !.client = c, !.allowed = l,
                             !.there = TRUE, !.keptLocal = localOnly])
    BY IdleType, ProxyAssumption DEF Handled, Fields, Labels
  <2>. QED
    BY <1>a, <2>1, <2>2, HandlerMoves
<1>2. ASSUME NEW r \in Request, RefuseEarly(r) PROVE HandlersTyped'
  BY <1>a, <1>2 DEF RefuseEarly, Return, At, HandlersTyped, Handled, Fields, Labels
<1>3. ASSUME NEW r \in Request, RefuseModel(r) PROVE HandlersTyped'
  BY <1>a, <1>3 DEF RefuseModel, PermitsRequested, At, HandlersTyped, Handled, Fields, Labels
<1>4. ASSUME NEW r \in Request, Admit(r) PROVE HandlersTyped'
  <2>0. Handled(req[r]) /\ req[r].client \in Name
    BY <1>a, <1>4 DEF Admit, At, HandlersTyped, Placed
  <2>1. Resolve(req[r].client) \in Model /\ Fallback[Resolve(req[r].client)] \subseteq Model
    BY <2>0, ModelsAreNames, ProxyAssumption
  <2>2. PICK alt \in Model :
          \/ req' = [req EXCEPT ![r] = [req[r] EXCEPT !.pc = "waiting", !.model = alt,
                                          !.base = Plain(alt), !.degradable = mayDegrade]]
          \/ Return(r, "refused")
    BY <2>1, <1>4 DEF Admit
  <2>3. Handled([req[r] EXCEPT !.pc = "waiting", !.model = alt, !.base = Plain(alt),
                               !.degradable = mayDegrade])
    BY <2>0, BodyTypes, ModelsAreNames DEF Handled, Fields, Labels
  <2>4. Handled([req[r] EXCEPT !.pc = "done", !.answer = "refused"])
    BY <2>0 DEF Handled, Fields, Labels
  <2>. QED
    BY <1>a, <2>2, <2>3, <2>4, HandlerMoves DEF Return
<1>5. ASSUME NEW r \in Request, WaitRouted(r) PROVE HandlersTyped'
  BY <1>a, <1>5 DEF WaitRouted, At, HandlersTyped, Handled, Fields, Labels
<1>6. ASSUME NEW r \in Request, WaitEnded(r) PROVE HandlersTyped'
  BY <1>a, <1>6 DEF WaitEnded, At, HandlersTyped, Handled, Fields, Labels
<1>7. ASSUME NEW r \in Request, DegradeFirst(r) PROVE HandlersTyped'
  <2>0. Handled(req[r])
    BY <1>a DEF HandlersTyped
  <2>1. PICK m \in Chain[req[r].model], n \in Node :
          req' = [req EXCEPT ![r] = [Substituted(req[r], m, n) EXCEPT !.pc = "chosen"]]
    BY <1>7 DEF DegradeFirst, Substitutes
  <2>2. m \in Model
    <3>1. req[r].model \in Model
      BY <1>a, <1>7 DEF DegradeFirst, At, Placed, Routed, Calling
    <3>. QED
      BY <3>1, ProxyAssumption
  <2>3. Handled([Substituted(req[r], m, n) EXCEPT !.pc = "chosen"])
    BY <2>0, <2>2, BodyTypes, ModelsAreNames DEF Handled, Fields, Labels, Substituted
  <2>. QED
    BY <1>a, <2>1, <2>3, HandlerMoves
<1>8. ASSUME NEW r \in Request, GiveUpFirst(r) PROVE HandlersTyped'
  BY <1>a, <1>8 DEF GiveUpFirst, At, HandlersTyped, Handled, Fields, Labels
<1>9. ASSUME NEW r \in Request, Choose(r) PROVE HandlersTyped'
  BY <1>a, <1>9 DEF Choose, At, HandlersTyped, Handled, Fields, Labels, Slot, Placed,
     Routed, Holding, Calling
<1>10. ASSUME NEW r \in Request, Pass(r) PROVE HandlersTyped'
  BY <1>a, <1>10, BodyTypes DEF Pass, Count, CallBound, At, HandlersTyped, Handled, Fields,
     Labels, Placed, Holding
<1>11. ASSUME NEW r \in Request, RateLimited(r) PROVE HandlersTyped'
  BY <1>a, <1>11 DEF RateLimited, At, HandlersTyped, Handled, Fields, Labels
<1>12. ASSUME NEW r \in Request, BadURL(r) PROVE HandlersTyped'
  BY <1>a, <1>12 DEF BadURL, At, HandlersTyped, Handled, Fields, Labels
<1>13. ASSUME NEW r \in Request, Respond(r) PROVE HandlersTyped'
  BY <1>a, <1>13 DEF Respond, At, HandlersTyped, Handled, Fields, Labels
<1>14. ASSUME NEW r \in Request, Panic(r) PROVE HandlersTyped'
  BY <1>a, <1>14 DEF Panic, At, HandlersTyped, Handled, Fields, Labels
<1>15. ASSUME NEW r \in Request, Fail(r) PROVE HandlersTyped'
  <2>. DEFINE q == req[r]
              next == IF ~q.there THEN "done"
                      ELSE IF q.attempt < MaxRetries THEN "failover" ELSE "degrade"
  <2>0. Handled(q) /\ q.node \in Node
    BY <1>a, <1>15 DEF Fail, At, HandlersTyped, Placed, Holding
  <2>1. req' = [req EXCEPT
          ![r] = [q EXCEPT !.held = None, !.tried = q.tried \cup {q.node},
                           !.failed = q.failed \cup {<<q.node, q.model>>}, !.pc = next]]
    BY <1>15 DEF Fail
  <2>2. next \in Labels
    BY DEF Labels
  <2>. HIDE DEF next
  <2>3. Handled([q EXCEPT !.held = None, !.tried = q.tried \cup {q.node},
                          !.failed = q.failed \cup {<<q.node, q.model>>}, !.pc = next])
    BY <2>0, <2>2 DEF Handled, Fields
  <2>. QED
    BY <1>a, <2>1, <2>3, HandlerMoves
<1>16. ASSUME NEW r \in Request, Failover(r) PROVE HandlersTyped'
  BY <1>a, <1>16, BodyTypes DEF Failover, At, HandlersTyped, Handled, Fields, Labels
<1>17. ASSUME NEW r \in Request, FailoverLimited(r) PROVE HandlersTyped'
  BY <1>a, <1>17 DEF FailoverLimited, At, HandlersTyped, Handled, Fields, Labels
<1>18. ASSUME NEW r \in Request, FailoverEnds(r) PROVE HandlersTyped'
  BY <1>a, <1>18 DEF FailoverEnds, At, HandlersTyped, Handled, Fields, Labels
<1>19. ASSUME NEW r \in Request, Degrade(r) PROVE HandlersTyped'
  <2>0. Handled(req[r])
    BY <1>a DEF HandlersTyped
  <2>1. PICK m \in Chain[req[r].model], n \in Node :
          req' = [req EXCEPT ![r] = [Substituted(req[r], m, n) EXCEPT !.pc = "next",
                                            !.body = Profiled(Plain(m), n)]]
    BY <1>19 DEF Degrade, Substitutes
  <2>2. m \in Model
    <3>1. req[r].model \in Model
      BY <1>a, <1>19 DEF Degrade, At, Placed, Routed, Calling
    <3>. QED
      BY <3>1, ProxyAssumption
  <2>3. Handled([Substituted(req[r], m, n) EXCEPT !.pc = "next",
                                            !.body = Profiled(Plain(m), n)])
    BY <2>0, <2>2, BodyTypes, ModelsAreNames DEF Handled, Fields, Labels, Substituted
  <2>. QED
    BY <1>a, <2>1, <2>3, HandlerMoves
<1>20. ASSUME NEW r \in Request, DegradeEnds(r) PROVE HandlersTyped'
  BY <1>a, <1>20 DEF DegradeEnds, At, HandlersTyped, Handled, Fields, Labels
<1>21. ASSUME NEW r \in Request, Retry(r) PROVE HandlersTyped'
  <2>. DEFINE q == req[r]
  <2>0. Handled(q) /\ q.node \in Node /\ q.model \in Model
    BY <1>a, <1>21 DEF Retry, At, HandlersTyped, Placed, Routed, Calling
  <2>1. \/ req' = [req EXCEPT ![r] = [q EXCEPT !.pc = "upstream", !.attempt = Count(q.attempt),
                       !.calls = Count(q.calls), !.held = [node |-> q.node, model |-> q.model]]]
        \/ req' = [req EXCEPT ![r] = [q EXCEPT !.pc = "done", !.answer = "refused"]]
    BY <1>21 DEF Retry, Return
  <2>2. Count(q.attempt) \in Nat /\ Count(q.calls) \in Nat
    BY <2>0, ProxyAssumption DEF Count, CallBound, Handled
  <2>3. [node |-> q.node, model |-> q.model] \in Slot
    BY <2>0 DEF Slot
  <2>4. Handled([q EXCEPT !.pc = "upstream", !.attempt = Count(q.attempt),
                    !.calls = Count(q.calls), !.held = [node |-> q.node, model |-> q.model]])
    BY <2>0, <2>2, <2>3 DEF Handled, Fields, Labels
  <2>5. Handled([q EXCEPT !.pc = "done", !.answer = "refused"])
    BY <2>0 DEF Handled, Fields, Labels
  <2>. QED
    BY <1>a, <2>1, <2>4, <2>5, HandlerMoves
<1>22. ASSUME NEW r \in Request, Block(r) PROVE HandlersTyped'
  BY <1>a, <1>22 DEF Block, Return, At, HandlersTyped, Handled, Fields, Labels
<1>23. ASSUME NEW r \in Request, Unblock(r) PROVE HandlersTyped'
  BY <1>a, <1>23 DEF Unblock, At, HandlersTyped, Handled, Fields, Labels
<1>24. ASSUME NEW r \in Request, NoOverflow(r) PROVE HandlersTyped'
  BY <1>a, <1>24 DEF NoOverflow, Return, At, HandlersTyped, Handled, Fields, Labels
<1>25. ASSUME NEW r \in Request, Overflow(r) PROVE HandlersTyped'
  BY <1>a, <1>25 DEF Overflow, CloudRequestFor, At, HandlersTyped, Handled, Fields, Labels,
     Body, Placed
<1>26. ASSUME NEW r \in Request, CloudAbandon(r) PROVE HandlersTyped'
  BY <1>a, <1>26 DEF CloudAbandon, Return, At, HandlersTyped, Handled, Fields, Labels
<1>27. ASSUME NEW r \in Request, CloudCall(r) PROVE HandlersTyped'
  BY <1>a, <1>27 DEF CloudCall, At, HandlersTyped, Handled, Fields, Labels
<1>28. ASSUME NEW r \in Request, CloudRespond(r) PROVE HandlersTyped'
  BY <1>a, <1>28 DEF CloudRespond, Return, At, HandlersTyped, Handled, Fields, Labels
<1>29. ASSUME NEW r \in Request, CloudFail(r) PROVE HandlersTyped'
  <2>. DEFINE q == req[r]
  <2>0. Handled(q)
    BY <1>a DEF HandlersTyped
  <2>1. \/ req' = [req EXCEPT ![r] = [q EXCEPT !.pc = "cloud", !.idx = q.idx + 1]]
        \/ req' = [req EXCEPT ![r] = [q EXCEPT !.pc = "done", !.answer = "refused"]]
    BY <1>29 DEF CloudFail, Return
  <2>2. Handled([q EXCEPT !.pc = "cloud", !.idx = q.idx + 1])
    BY <2>0 DEF Handled, Fields, Labels
  <2>3. Handled([q EXCEPT !.pc = "done", !.answer = "refused"])
    BY <2>0 DEF Handled, Fields, Labels
  <2>. QED
    BY <1>a, <2>1, <2>2, <2>3, HandlerMoves
<1>30. ASSUME NEW r \in Request, CloudBadURL(r) PROVE HandlersTyped'
  BY <1>a, <1>30 DEF CloudBadURL, Return, At, HandlersTyped, Handled, Fields, Labels
<1>31. ASSUME NEW r \in Request, Forget(r) PROVE HandlersTyped'
  BY <1>a, <1>31, IdleType DEF Forget, At, HandlersTyped, Handled, Fields, Labels
<1>32. ASSUME NEW r \in Request, Disconnect(r) PROVE HandlersTyped'
  BY <1>a, <1>32 DEF Disconnect, At, HandlersTyped, Handled, Fields, Labels
<1>33. ASSUME PatchKey PROVE HandlersTyped'
  BY <1>a, <1>33 DEF PatchKey, Handled, Fields, HandlersTyped
<1>34. ASSUME UNCHANGED vars PROVE HandlersTyped'
  BY <1>a, <1>34 DEF vars, HandlersTyped
<1>35. ASSUME NEW r \in Request, Answer(r) PROVE HandlersTyped'
  BY <1>a, <1>35 DEF Answer, At, HandlersTyped, Handled, Fields, Labels
<1>36. ASSUME NEW r \in Request, CloudAnswer(r) PROVE HandlersTyped'
  BY <1>a, <1>36 DEF CloudAnswer, At, HandlersTyped, Handled, Fields, Labels
<1>. QED
  BY <1>1, <1>2, <1>3, <1>4, <1>5, <1>6, <1>7, <1>8, <1>9, <1>10, <1>11, <1>12, <1>13,
     <1>14, <1>15, <1>16, <1>17, <1>18, <1>19, <1>20, <1>21, <1>22, <1>23, <1>24, <1>25,
     <1>26, <1>27, <1>28, <1>29, <1>30, <1>31, <1>32, <1>33, <1>34, <1>35,
     <1>36 DEF Next, Step, StreamEnds

\* What the fields mean at a label is settled on the way to it.
LEMMA StepGood == PInv /\ [Next]_vars => (\A s \in Request : Good(req[s]))'
<1>. SUFFICES ASSUME PInv, [Next]_vars PROVE (\A s \in Request : Good(req[s]))'
  OBVIOUS
<1>a. HandlersTyped /\ \A r \in Request : Good(req[r])
  BY DEF PInv, HandlersGood
<1>1. ASSUME NEW r \in Request, Arrive(r) PROVE (\A s \in Request : Good(req[s]))'
  BY <1>a, <1>1, IdleType, ProxyAssumption
  DEF Arrive, At, HandlersTyped, Handled, Fields, Labels, Good, Placed, HoldsSlot, MayUse,
     InBudget, Refunded, SendsBody,
      Early, Calling, Routed, Holding, Leaving
<1>2. ASSUME NEW r \in Request, RefuseEarly(r) PROVE (\A s \in Request : Good(req[s]))'
  BY <1>a, <1>2, ProxyAssumption
  DEF RefuseEarly, Return, At, HandlersTyped, Handled, Fields, Labels, Good, Placed,
     HoldsSlot, MayUse, InBudget, Refunded, SendsBody,
      Early, Calling, Routed, Holding, Leaving
<1>3. ASSUME NEW r \in Request, RefuseModel(r) PROVE (\A s \in Request : Good(req[s]))'
  BY <1>a, <1>3, ProxyAssumption
  DEF RefuseModel, PermitsRequested, At, HandlersTyped, Handled, Fields, Labels, Good,
     Placed, HoldsSlot, MayUse, InBudget, Refunded, SendsBody,
      Early, Calling, Routed, Holding, Leaving
<1>4. ASSUME NEW r \in Request, Admit(r) PROVE (\A s \in Request : Good(req[s]))'
  <2>0. Handled(req[r]) /\ Good(req[r])
    BY <1>a DEF HandlersTyped
  <2>1. /\ req[r].pc = "arrived" /\ req[r].client \in Name
        /\ PermitsRequested(r, Resolve(req[r].client))
    BY <2>0, <1>4 DEF Admit, At, Good, Placed
  <2>2. /\ Resolve(req[r].client) \in Model /\ Fallback[Resolve(req[r].client)] \subseteq Model
        /\ req[r].client \in DOMAIN Alias \/ Resolve(req[r].client) = req[r].client
    BY <2>1, ModelsAreNames, ProxyAssumption DEF Resolve
  <2>3. PICK alt \in {Resolve(req[r].client)}
                      \cup {a \in Fallback[Resolve(req[r].client)] : Permits(r, a)} :
          \/ req' = [req EXCEPT ![r] = [req[r] EXCEPT
                       !.pc = "waiting", !.model = alt, !.base = Plain(alt), !.degradable = mayDegrade]]
          \/ req' = [req EXCEPT ![r] = [req[r] EXCEPT !.pc = "done", !.answer = "refused"]]
    BY <1>4 DEF Admit, Return
  <2>4. /\ alt \in Model
        /\ \/ req[r].allowed = {} \/ alt \in req[r].allowed
           \/ req[r].client \in req[r].allowed /\ alt = Resolve(req[r].client)
    BY <2>1, <2>2, <2>3 DEF PermitsRequested, Permits
  <2>. DEFINE after == [req[r] EXCEPT !.pc = "waiting", !.model = alt, !.base = Plain(alt),
                       !.degradable = mayDegrade]
  <2>5. Good(after)
    <3>1. Placed(after)
      BY <2>0, <2>1, <2>4, ProxyAssumption DEF Good, Placed, Routed, Calling, Holding,
         Handled, Fields
    <3>2. HoldsSlot(after)
      BY <2>0, <2>1, <2>4, ProxyAssumption DEF Good, HoldsSlot, Holding, Handled, Fields
    <3>3. MayUse(after)
      BY <2>0, <2>1, <2>4, ProxyAssumption DEF Good, MayUse, Routed, Calling, Handled, Fields
    <3>4. InBudget(after)
      BY <2>0, <2>1, <2>4, ProxyAssumption DEF Good, InBudget, Early, Calling, Handled, Fields
    <3>5. Refunded(after)
      BY <2>0, <2>1, <2>4, ProxyAssumption DEF Good, Refunded, InBudget, Early, Handled, Fields
    <3>6. SendsBody(after)
      BY <2>0, <2>1, <2>4, ProxyAssumption DEF Good, SendsBody, Routed, Calling, Handled, Fields
    <3>. QED
      BY <3>1, <3>2, <3>3, <3>4, <3>5, <3>6 DEF Good
  <2>. DEFINE turned == [req[r] EXCEPT !.pc = "done", !.answer = "refused"]
  <2>6. Good(turned)
    <3>1. Placed(turned)
      BY <2>0, <2>1, ProxyAssumption DEF Good, Placed, Routed, Calling, Holding, Handled, Fields
    <3>2. HoldsSlot(turned)
      BY <2>0, <2>1, ProxyAssumption DEF Good, HoldsSlot, Holding, Handled, Fields
    <3>3. MayUse(turned)
      BY <2>0, <2>1, ProxyAssumption DEF Good, MayUse, Routed, Calling, Handled, Fields
    <3>4. InBudget(turned)
      BY <2>0, <2>1, ProxyAssumption DEF Good, InBudget, Early, Calling, Handled, Fields
    <3>5. Refunded(turned)
      BY <2>0, <2>1, ProxyAssumption DEF Good, Refunded, InBudget, Early, Handled, Fields
    <3>6. SendsBody(turned)
      BY <2>0, <2>1, ProxyAssumption DEF Good, SendsBody, Routed, Calling, Handled, Fields
    <3>. QED
      BY <3>1, <3>2, <3>3, <3>4, <3>5, <3>6 DEF Good
  <2>. QED
    BY <1>a, <2>3, <2>5, <2>6, GoodMoves
<1>5. ASSUME NEW r \in Request, WaitRouted(r) PROVE (\A s \in Request : Good(req[s]))'
  <2>0. Handled(req[r]) /\ Good(req[r])
    BY <1>a DEF HandlersTyped
  <2>1. PICK n \in Node :
          req' = [req EXCEPT ![r] = [req[r] EXCEPT !.pc = "chosen", !.node = n]]
    BY <1>5 DEF WaitRouted
  <2>2. req[r].pc = "waiting"
    BY <1>5 DEF WaitRouted, At
  <2>. DEFINE after == [req[r] EXCEPT !.pc = "chosen", !.node = n]
  <2>3. Good(after)
    <3>1. Placed(after)
      BY <2>0, <2>2 DEF Good, Placed, Routed, Calling, Holding, Handled, Fields
    <3>2. HoldsSlot(after)
      BY <2>0, <2>2 DEF Good, HoldsSlot, Holding, Handled, Fields
    <3>3. MayUse(after)
      BY <2>0, <2>2 DEF Good, MayUse, Routed, Calling, Handled, Fields
    <3>4. InBudget(after)
      BY <2>0, <2>2 DEF Good, InBudget, Early, Calling, Handled, Fields
    <3>5. Refunded(after)
      BY <2>0, <2>2 DEF Good, Refunded, InBudget, Early, Handled, Fields
    <3>6. SendsBody(after)
      BY <2>0, <2>2 DEF Good, SendsBody, Routed, Calling, Handled, Fields
    <3>. QED
      BY <3>1, <3>2, <3>3, <3>4, <3>5, <3>6 DEF Good
  <2>. QED
    BY <1>a, <2>1, <2>3, GoodMoves
<1>6. ASSUME NEW r \in Request, WaitEnded(r) PROVE (\A s \in Request : Good(req[s]))'
  BY <1>a, <1>6, ProxyAssumption
  DEF WaitEnded, At, HandlersTyped, Handled, Fields, Labels, Good, Placed, HoldsSlot,
     MayUse, InBudget, Refunded, SendsBody,
      Early, Calling, Routed, Holding, Leaving
<1>7. ASSUME NEW r \in Request, DegradeFirst(r) PROVE (\A s \in Request : Good(req[s]))'
  <2>0. Handled(req[r]) /\ Good(req[r])
    BY <1>a DEF HandlersTyped
  <2>1. PICK m \in Chain[req[r].model], n \in Node :
          /\ req' = [req EXCEPT ![r] = [Substituted(req[r], m, n) EXCEPT !.pc = "chosen"]]
          /\ Permits(r, m)
    BY <1>7 DEF DegradeFirst, Substitutes
  <2>2. req[r].pc = "noNode" /\ req[r].model \in Model
    BY <2>0, <1>7 DEF DegradeFirst, At, Good, Placed, Routed, Calling
  <2>3. m \in Model /\ (req[r].allowed = {} \/ m \in req[r].allowed)
    BY <2>1, <2>2, ProxyAssumption DEF Permits
  <2>. DEFINE after == [Substituted(req[r], m, n) EXCEPT !.pc = "chosen"]
  <2>4. Good(after)
    <3>1. Placed(after)
      BY <2>0, <2>2, <2>3, ProxyAssumption DEF Good, Placed, Routed, Calling, Holding,
         Handled, Fields, Substituted
    <3>2. HoldsSlot(after)
      BY <2>0, <2>2, <2>3, ProxyAssumption DEF Good, HoldsSlot, Holding, Handled, Fields,
         Substituted
    <3>3. MayUse(after)
      BY <2>0, <2>2, <2>3, ProxyAssumption DEF Good, MayUse, Routed, Calling, Handled,
         Fields, Substituted
    <3>4. InBudget(after)
      BY <2>0, <2>2, <2>3, ProxyAssumption DEF Good, InBudget, Early, Calling, Handled,
         Fields, Substituted
    <3>5. Refunded(after)
      BY <2>0, <2>2, <2>3, ProxyAssumption DEF Good, Refunded, InBudget, Early, Handled,
         Fields, Substituted
    <3>6. SendsBody(after)
      BY <2>0, <2>2, <2>3, ProxyAssumption DEF Good, SendsBody, Routed, Calling, Handled,
         Fields, Substituted
    <3>. QED
      BY <3>1, <3>2, <3>3, <3>4, <3>5, <3>6 DEF Good
  <2>. QED
    BY <1>a, <2>1, <2>4, GoodMoves
<1>8. ASSUME NEW r \in Request, GiveUpFirst(r) PROVE (\A s \in Request : Good(req[s]))'
  BY <1>a, <1>8, ProxyAssumption
  DEF GiveUpFirst, At, HandlersTyped, Handled, Fields, Labels, Good, Placed, HoldsSlot,
     MayUse, InBudget, Refunded, SendsBody,
      Early, Calling, Routed, Holding, Leaving
<1>9. ASSUME NEW r \in Request, Choose(r) PROVE (\A s \in Request : Good(req[s]))'
  BY <1>a, <1>9, ProxyAssumption
  DEF Choose, At, HandlersTyped, Handled, Fields, Labels, Good, Placed, HoldsSlot, MayUse,
     InBudget, Refunded, SendsBody,
      Early, Calling, Routed, Holding, Leaving
<1>10. ASSUME NEW r \in Request, Pass(r) PROVE (\A s \in Request : Good(req[s]))'
  BY <1>a, <1>10, BodyTypes, ProxyAssumption
  DEF Pass, Count, CallBound, At, HandlersTyped, Handled, Fields, Labels, Good, Placed,
     HoldsSlot, MayUse, InBudget, Refunded, SendsBody,
      Early, Calling, Routed, Holding, Leaving
<1>11. ASSUME NEW r \in Request, RateLimited(r) PROVE (\A s \in Request : Good(req[s]))'
  BY <1>a, <1>11, ProxyAssumption
  DEF RateLimited, At, HandlersTyped, Handled, Fields, Labels, Good, Placed, HoldsSlot,
     MayUse, InBudget, Refunded, SendsBody,
      Early, Calling, Routed, Holding, Leaving
<1>12. ASSUME NEW r \in Request, BadURL(r) PROVE (\A s \in Request : Good(req[s]))'
  BY <1>a, <1>12, ProxyAssumption
  DEF BadURL, At, HandlersTyped, Handled, Fields, Labels, Good, Placed, HoldsSlot, MayUse,
     InBudget, Refunded, SendsBody,
      Early, Calling, Routed, Holding, Leaving
<1>13. ASSUME NEW r \in Request, Respond(r) PROVE (\A s \in Request : Good(req[s]))'
  BY <1>a, <1>13, ProxyAssumption
  DEF Respond, At, HandlersTyped, Handled, Fields, Labels, Good, Placed, HoldsSlot, MayUse,
     InBudget, Refunded, SendsBody,
      Early, Calling, Routed, Holding, Leaving
<1>14. ASSUME NEW r \in Request, Panic(r) PROVE (\A s \in Request : Good(req[s]))'
  BY <1>a, <1>14, ProxyAssumption
  DEF Panic, At, HandlersTyped, Handled, Fields, Labels, Good, Placed, HoldsSlot, MayUse,
     InBudget, Refunded, SendsBody,
      Early, Calling, Routed, Holding, Leaving
<1>15. ASSUME NEW r \in Request, Fail(r) PROVE (\A s \in Request : Good(req[s]))'
  BY <1>a, <1>15, ProxyAssumption
  DEF Fail, At, HandlersTyped, Handled, Fields, Labels, Good, Placed, HoldsSlot, MayUse,
     InBudget, Refunded, SendsBody,
      Early, Calling, Routed, Holding, Leaving
<1>16. ASSUME NEW r \in Request, Failover(r) PROVE (\A s \in Request : Good(req[s]))'
  <2>0. Handled(req[r]) /\ Good(req[r])
    BY <1>a DEF HandlersTyped
  <2>1. PICK n \in Node :
          req' = [req EXCEPT ![r] = [req[r] EXCEPT !.pc = "next", !.node = n,
                       !.body = Profiled(req[r].base, n)]]
    BY <1>16 DEF Failover
  <2>2. req[r].pc = "failover"
    BY <1>16 DEF Failover, At
  <2>. DEFINE after == [req[r] EXCEPT !.pc = "next", !.node = n,
                       !.body = Profiled(req[r].base, n)]
  <2>3. Good(after)
    <3>1. Placed(after)
      BY <2>0, <2>2, ProxyAssumption DEF Good, Placed, Routed, Calling, Holding, Handled, Fields
    <3>2. HoldsSlot(after)
      BY <2>0, <2>2, ProxyAssumption DEF Good, HoldsSlot, Holding, Handled, Fields
    <3>3. MayUse(after)
      BY <2>0, <2>2, ProxyAssumption DEF Good, MayUse, Routed, Calling, Handled, Fields
    <3>4. InBudget(after)
      BY <2>0, <2>2, ProxyAssumption DEF Good, InBudget, Early, Calling, Handled, Fields
    <3>5. Refunded(after)
      BY <2>0, <2>2, ProxyAssumption DEF Good, Refunded, InBudget, Early, Handled, Fields
    <3>6. SendsBody(after)
      BY <2>0, <2>2, ProxyAssumption DEF Good, SendsBody, Routed, Calling, Handled, Fields
    <3>. QED
      BY <3>1, <3>2, <3>3, <3>4, <3>5, <3>6 DEF Good
  <2>. QED
    BY <1>a, <2>1, <2>3, GoodMoves
<1>17. ASSUME NEW r \in Request, FailoverLimited(r) PROVE (\A s \in Request : Good(req[s]))'
  BY <1>a, <1>17, ProxyAssumption
  DEF FailoverLimited, At, HandlersTyped, Handled, Fields, Labels, Good, Placed, HoldsSlot,
     MayUse, InBudget, Refunded, SendsBody,
      Early, Calling, Routed, Holding, Leaving
<1>18. ASSUME NEW r \in Request, FailoverEnds(r) PROVE (\A s \in Request : Good(req[s]))'
  BY <1>a, <1>18, ProxyAssumption
  DEF FailoverEnds, At, HandlersTyped, Handled, Fields, Labels, Good, Placed, HoldsSlot,
     MayUse, InBudget, Refunded, SendsBody,
      Early, Calling, Routed, Holding, Leaving
<1>19. ASSUME NEW r \in Request, Degrade(r) PROVE (\A s \in Request : Good(req[s]))'
  <2>0. Handled(req[r]) /\ Good(req[r])
    BY <1>a DEF HandlersTyped
  <2>1. PICK m \in Chain[req[r].model], n \in Node :
          /\ req' = [req EXCEPT ![r] = [Substituted(req[r], m, n) EXCEPT !.pc = "next",
                                            !.body = Profiled(Plain(m), n)]]
          /\ Permits(r, m)
    BY <1>19 DEF Degrade, Substitutes
  <2>2. req[r].pc = "degrade" /\ req[r].model \in Model /\ ~req[r].degradedOnce
    BY <2>0, <1>19 DEF Degrade, At, Good, Placed, Routed, Calling
  <2>3. m \in Model /\ (req[r].allowed = {} \/ m \in req[r].allowed)
    BY <2>1, <2>2, ProxyAssumption DEF Permits
  <2>. DEFINE after == [Substituted(req[r], m, n) EXCEPT !.pc = "next",
                                            !.body = Profiled(Plain(m), n)]
  <2>4. Good(after)
    <3>1. Placed(after)
      BY <2>0, <2>2, <2>3, ProxyAssumption DEF Good, Placed, Routed, Calling, Holding,
         Handled, Fields, Substituted
    <3>2. HoldsSlot(after)
      BY <2>0, <2>2, <2>3, ProxyAssumption DEF Good, HoldsSlot, Holding, Handled, Fields,
         Substituted
    <3>3. MayUse(after)
      BY <2>0, <2>2, <2>3, ProxyAssumption DEF Good, MayUse, Routed, Calling, Handled,
         Fields, Substituted
    <3>4. InBudget(after)
      BY <2>0, <2>2, <2>3, ProxyAssumption DEF Good, InBudget, Early, Calling, Handled,
         Fields, Substituted
    <3>5. Refunded(after)
      BY <2>0, <2>2, <2>3, ProxyAssumption DEF Good, Refunded, InBudget, Early, Handled,
         Fields, Substituted
    <3>6. SendsBody(after)
      BY <2>0, <2>2, <2>3, ProxyAssumption DEF Good, SendsBody, Routed, Calling, Handled,
         Fields, Substituted
    <3>. QED
      BY <3>1, <3>2, <3>3, <3>4, <3>5, <3>6 DEF Good
  <2>. QED
    BY <1>a, <2>1, <2>4, GoodMoves
<1>20. ASSUME NEW r \in Request, DegradeEnds(r) PROVE (\A s \in Request : Good(req[s]))'
  BY <1>a, <1>20, ProxyAssumption
  DEF DegradeEnds, At, HandlersTyped, Handled, Fields, Labels, Good, Placed, HoldsSlot,
     MayUse, InBudget, Refunded, SendsBody,
      Early, Calling, Routed, Holding, Leaving
<1>21. ASSUME NEW r \in Request, Retry(r) PROVE (\A s \in Request : Good(req[s]))'
  <2>0. Handled(req[r]) /\ Good(req[r])
    BY <1>a DEF HandlersTyped
  <2>1. \/ req' = [req EXCEPT ![r] = [req[r] EXCEPT
                       !.pc = "upstream", !.attempt = Count(req[r].attempt),
                       !.calls = Count(req[r].calls),
                       !.held = [node |-> req[r].node, model |-> req[r].model]]]
        \/ req' = [req EXCEPT ![r] = [req[r] EXCEPT !.pc = "done", !.answer = "refused"]]
    BY <1>21 DEF Retry, Return
  <2>2. req[r].pc = "next"
    BY <1>21 DEF Retry, At
  <2>3. /\ req[r].attempt \in Nat /\ req[r].calls = req[r].attempt + 1
        /\ req[r].attempt < MaxRetries \/ (req[r].attempt = MaxRetries /\ req[r].degradedOnce)
        /\ MaxRetries \in Nat
    BY <2>0, <2>2, ProxyAssumption DEF Good, InBudget, Calling, Handled
  <2>4. Count(req[r].attempt) = req[r].attempt + 1 /\ Count(req[r].calls) = req[r].calls + 1
    BY <2>3 DEF Count, CallBound
  <2>. DEFINE after == [req[r] EXCEPT
                       !.pc = "upstream", !.attempt = Count(req[r].attempt),
                       !.calls = Count(req[r].calls),
                       !.held = [node |-> req[r].node, model |-> req[r].model]]
  <2>5. Good(after)
    <3>1. Placed(after)
      BY <2>0, <2>2, <2>3, <2>4 DEF Good, Placed, Routed, Calling, Holding, Handled, Fields
    <3>2. HoldsSlot(after)
      BY <2>0, <2>2, <2>3, <2>4 DEF Good, HoldsSlot, Holding, Handled, Fields
    <3>3. MayUse(after)
      BY <2>0, <2>2, <2>3, <2>4 DEF Good, MayUse, Routed, Calling, Handled, Fields
    <3>4. InBudget(after)
      BY <2>0, <2>2, <2>3, <2>4 DEF Good, InBudget, Early, Calling, Handled, Fields
    <3>5. Refunded(after)
      BY <2>0, <2>2, <2>3, <2>4 DEF Good, Refunded, InBudget, Early, Handled, Fields
    <3>6. SendsBody(after)
      BY <2>0, <2>2, <2>3, <2>4 DEF Good, SendsBody, Routed, Calling, Handled, Fields
    <3>. QED
      BY <3>1, <3>2, <3>3, <3>4, <3>5, <3>6 DEF Good
  <2>. DEFINE turned == [req[r] EXCEPT !.pc = "done", !.answer = "refused"]
  <2>6. Good(turned)
    <3>1. Placed(turned)
      BY <2>0, <2>2, ProxyAssumption DEF Good, Placed, Routed, Calling, Holding, Handled, Fields
    <3>2. HoldsSlot(turned)
      BY <2>0, <2>2, ProxyAssumption DEF Good, HoldsSlot, Holding, Handled, Fields
    <3>3. MayUse(turned)
      BY <2>0, <2>2, ProxyAssumption DEF Good, MayUse, Routed, Calling, Handled, Fields
    <3>4. InBudget(turned)
      BY <2>0, <2>2, ProxyAssumption DEF Good, InBudget, Early, Calling, Handled, Fields
    <3>5. Refunded(turned)
      BY <2>0, <2>2, ProxyAssumption DEF Good, Refunded, InBudget, Early, Handled, Fields
    <3>6. SendsBody(turned)
      BY <2>0, <2>2, ProxyAssumption DEF Good, SendsBody, Routed, Calling, Handled, Fields
    <3>. QED
      BY <3>1, <3>2, <3>3, <3>4, <3>5, <3>6 DEF Good
  <2>. QED
    BY <1>a, <2>1, <2>5, <2>6, GoodMoves
<1>22. ASSUME NEW r \in Request, Block(r) PROVE (\A s \in Request : Good(req[s]))'
  BY <1>a, <1>22, ProxyAssumption
  DEF Block, Return, At, HandlersTyped, Handled, Fields, Labels, Good, Placed, HoldsSlot,
     MayUse, InBudget, Refunded, SendsBody,
      Early, Calling, Routed, Holding, Leaving
<1>23. ASSUME NEW r \in Request, Unblock(r) PROVE (\A s \in Request : Good(req[s]))'
  BY <1>a, <1>23, ProxyAssumption
  DEF Unblock, At, HandlersTyped, Handled, Fields, Labels, Good, Placed, HoldsSlot, MayUse,
     InBudget, Refunded, SendsBody,
      Early, Calling, Routed, Holding, Leaving
<1>24. ASSUME NEW r \in Request, NoOverflow(r) PROVE (\A s \in Request : Good(req[s]))'
  BY <1>a, <1>24, ProxyAssumption
  DEF NoOverflow, Return, At, HandlersTyped, Handled, Fields, Labels, Good, Placed,
     HoldsSlot, MayUse, InBudget, Refunded, SendsBody,
      Early, Calling, Routed, Holding, Leaving
<1>25. ASSUME NEW r \in Request, Overflow(r) PROVE (\A s \in Request : Good(req[s]))'
  <2>0. Handled(req[r]) /\ Good(req[r])
    BY <1>a DEF HandlersTyped
  <2>1. PICK k \in 1..MaxClouds :
          req' = [req EXCEPT ![r] = [req[r] EXCEPT !.pc = "cloud", !.body = CloudRequestFor(r),
                       !.clouds = k, !.idx = 1]]
    BY <1>25 DEF Overflow
  <2>2. req[r].pc = "overflow"
    BY <1>25 DEF Overflow, At
  <2>3. CloudRequestFor(r) = Plain(req[r].client)
    BY <2>0, <2>2, BodyTypes, ModelsAreNames DEF CloudRequestFor, Good, SendsBody, Handled
  <2>. DEFINE after == [req[r] EXCEPT !.pc = "cloud", !.body = CloudRequestFor(r),
                       !.clouds = k, !.idx = 1]
  <2>4. Good(after)
    <3>1. Placed(after)
      BY <2>0, <2>2, <2>3, ProxyAssumption DEF Good, Placed, Routed, Calling, Holding,
         Handled, Fields
    <3>2. HoldsSlot(after)
      BY <2>0, <2>2, <2>3, ProxyAssumption DEF Good, HoldsSlot, Holding, Handled, Fields
    <3>3. MayUse(after)
      BY <2>0, <2>2, <2>3, ProxyAssumption DEF Good, MayUse, Routed, Calling, Handled, Fields
    <3>4. InBudget(after)
      BY <2>0, <2>2, <2>3, ProxyAssumption DEF Good, InBudget, Early, Calling, Handled, Fields
    <3>5. Refunded(after)
      BY <2>0, <2>2, <2>3, ProxyAssumption DEF Good, Refunded, InBudget, Early, Handled, Fields
    <3>6. SendsBody(after)
      BY <2>0, <2>2, <2>3, ProxyAssumption DEF Good, SendsBody, Routed, Calling, Handled, Fields
    <3>. QED
      BY <3>1, <3>2, <3>3, <3>4, <3>5, <3>6 DEF Good
  <2>. QED
    BY <1>a, <2>1, <2>4, GoodMoves
<1>26. ASSUME NEW r \in Request, CloudAbandon(r) PROVE (\A s \in Request : Good(req[s]))'
  BY <1>a, <1>26, ProxyAssumption
  DEF CloudAbandon, Return, At, HandlersTyped, Handled, Fields, Labels, Good, Placed,
     HoldsSlot, MayUse, InBudget, Refunded, SendsBody,
      Early, Calling, Routed, Holding, Leaving
<1>27. ASSUME NEW r \in Request, CloudCall(r) PROVE (\A s \in Request : Good(req[s]))'
  BY <1>a, <1>27, ProxyAssumption
  DEF CloudCall, At, HandlersTyped, Handled, Fields, Labels, Good, Placed, HoldsSlot,
     MayUse, InBudget, Refunded, SendsBody,
      Early, Calling, Routed, Holding, Leaving
<1>28. ASSUME NEW r \in Request, CloudRespond(r) PROVE (\A s \in Request : Good(req[s]))'
  BY <1>a, <1>28, ProxyAssumption
  DEF CloudRespond, Return, At, HandlersTyped, Handled, Fields, Labels, Good, Placed,
     HoldsSlot, MayUse, InBudget, Refunded, SendsBody,
      Early, Calling, Routed, Holding, Leaving
<1>29. ASSUME NEW r \in Request, CloudFail(r) PROVE (\A s \in Request : Good(req[s]))'
  <2>0. Handled(req[r]) /\ Good(req[r])
    BY <1>a DEF HandlersTyped
  <2>1. \/ /\ req' = [req EXCEPT ![r] = [req[r] EXCEPT !.pc = "cloud", !.idx = req[r].idx + 1]]
           /\ req[r].idx < req[r].clouds
        \/ req' = [req EXCEPT ![r] = [req[r] EXCEPT !.pc = "done", !.answer = "refused"]]
    BY <1>29 DEF CloudFail, Return
  <2>2. req[r].pc \in {"cloud", "calling"}
    BY <1>29 DEF CloudFail, At
  <2>3. req[r].idx < req[r].clouds => Good([req[r] EXCEPT !.pc = "cloud", !.idx = req[r].idx + 1])
    BY <2>0, <2>2, ProxyAssumption
    DEF Good, Placed, HoldsSlot, MayUse, InBudget, Refunded, SendsBody,
        Early, Calling, Routed, Holding, Leaving, Handled, Fields
  <2>4. Good([req[r] EXCEPT !.pc = "done", !.answer = "refused"])
    BY <2>0, <2>2, ProxyAssumption
    DEF Good, Placed, HoldsSlot, MayUse, InBudget, Refunded, SendsBody,
        Early, Calling, Routed, Holding, Leaving, Handled, Fields
  <2>. QED
    BY <1>a, <2>1, <2>3, <2>4, GoodMoves
<1>30. ASSUME NEW r \in Request, CloudBadURL(r) PROVE (\A s \in Request : Good(req[s]))'
  BY <1>a, <1>30, ProxyAssumption
  DEF CloudBadURL, Return, At, HandlersTyped, Handled, Fields, Labels, Good, Placed,
     HoldsSlot, MayUse, InBudget, Refunded, SendsBody,
      Early, Calling, Routed, Holding, Leaving
<1>31. ASSUME NEW r \in Request, Forget(r) PROVE (\A s \in Request : Good(req[s]))'
  <2>1. req' = [req EXCEPT ![r] = Idle]
    BY <1>31 DEF Forget
  <2>2. \A s \in Request : req'[s] = IF s = r THEN Idle ELSE req[s]
    BY <1>a, <2>1 DEF HandlersTyped
  <2>. QED
    BY <1>a, <2>2, IdleType
<1>32. ASSUME NEW r \in Request, Disconnect(r) PROVE (\A s \in Request : Good(req[s]))'
  BY <1>a, <1>32, ProxyAssumption
  DEF Disconnect, At, HandlersTyped, Handled, Fields, Labels, Good, Placed, HoldsSlot,
     MayUse, InBudget, Refunded, SendsBody,
      Early, Calling, Routed, Holding, Leaving
<1>33. ASSUME PatchKey PROVE (\A s \in Request : Good(req[s]))'
  BY <1>a, <1>33, ProxyAssumption
  DEF PatchKey, HandlersTyped, Handled, Fields, Labels, Good, Placed, HoldsSlot, MayUse,
     InBudget, Refunded, SendsBody,
      Early, Calling, Routed, Holding, Leaving
<1>34. ASSUME UNCHANGED vars PROVE (\A s \in Request : Good(req[s]))'
  BY <1>a, <1>34 DEF vars
<1>35. ASSUME NEW r \in Request, Answer(r) PROVE (\A s \in Request : Good(req[s]))'
  BY <1>a, <1>35, ProxyAssumption
  DEF Answer, At, HandlersTyped, Handled, Fields, Labels, Good, Placed, HoldsSlot, MayUse,
     InBudget, Refunded, SendsBody,
      Early, Calling, Routed, Holding, Leaving
<1>36. ASSUME NEW r \in Request, CloudAnswer(r) PROVE (\A s \in Request : Good(req[s]))'
  BY <1>a, <1>36, ProxyAssumption
  DEF CloudAnswer, At, HandlersTyped, Handled, Fields, Labels, Good, Placed, HoldsSlot, MayUse,
     InBudget, Refunded, SendsBody,
      Early, Calling, Routed, Holding, Leaving
<1>. QED
  BY <1>1, <1>2, <1>3, <1>4, <1>5, <1>6, <1>7, <1>8, <1>9, <1>10, <1>11, <1>12, <1>13,
     <1>14, <1>15, <1>16, <1>17, <1>18, <1>19, <1>20, <1>21, <1>22, <1>23, <1>24, <1>25,
     <1>26, <1>27, <1>28, <1>29, <1>30, <1>31, <1>32, <1>33, <1>34, <1>35,
     <1>36 DEF Next, Step, StreamEnds

LEMMA LocalMoves ==
    ASSUME HandlersTyped, \A s \in Request : StaysLocal(req[s]), UNCHANGED localOnly,
           NEW r \in Request, NEW q, StaysLocal(q), req' = [req EXCEPT ![r] = q]
    PROVE  (\A s \in Request : StaysLocal(req[s]))'
BY DEF HandlersTyped, StaysLocal

\* No step takes a key's request out while the key has been local_only throughout.
LEMMA StepLocal == PInv /\ [Next]_vars => (\A s \in Request : StaysLocal(req[s]))'
<1>. SUFFICES ASSUME PInv, [Next]_vars PROVE (\A s \in Request : StaysLocal(req[s]))'
  OBVIOUS
<1>a. HandlersTyped /\ \A r \in Request : StaysLocal(req[r]) /\ Refunded(req[r])
  BY DEF PInv, HandlersGood, Good
<1>1. ASSUME NEW r \in Request, Arrive(r) PROVE (\A s \in Request : StaysLocal(req[s]))'
  <2>1. PICK c \in Name, l \in AllowLists :
          req' = [req EXCEPT ![r] = [Idle EXCEPT !.pc = "arrived", !.client = c, !.allowed = l,
                                                 !.there = TRUE, !.keptLocal = localOnly]]
    BY <1>1 DEF Arrive
  <2>2. StaysLocal([Idle EXCEPT !.pc = "arrived", !.client = c, !.allowed = l,
                                !.there = TRUE, !.keptLocal = localOnly])
    BY IdleSent DEF StaysLocal, Leaving
  <2>3. UNCHANGED localOnly
    BY <1>1 DEF Arrive
  <2>. QED
    BY <1>a, <2>1, <2>2, <2>3, LocalMoves
<1>2. ASSUME NEW r \in Request, RefuseEarly(r) PROVE (\A s \in Request : StaysLocal(req[s]))'
  BY <1>a, <1>2 DEF RefuseEarly, Return, At, HandlersTyped, Handled, Fields, StaysLocal,
     Leaving, Refunded
<1>3. ASSUME NEW r \in Request, RefuseModel(r) PROVE (\A s \in Request : StaysLocal(req[s]))'
  BY <1>a, <1>3 DEF RefuseModel, PermitsRequested, At, HandlersTyped, Handled, Fields,
     StaysLocal, Leaving, Refunded
<1>4. ASSUME NEW r \in Request, Admit(r) PROVE (\A s \in Request : StaysLocal(req[s]))'
  <2>0. Handled(req[r]) /\ StaysLocal(req[r]) /\ Refunded(req[r])
    BY <1>a DEF HandlersTyped
  <2>1. \/ \E k : req' = [req EXCEPT ![r] = [req[r] EXCEPT !.pc = "waiting", !.model = k,
                       !.base = Plain(k), !.degradable = mayDegrade]]
        \/ req' = [req EXCEPT ![r] = [req[r] EXCEPT !.pc = "done", !.answer = "refused"]]
    BY <1>4 DEF Admit, Return
  <2>2. At(r, "arrived") /\ UNCHANGED localOnly
    BY <1>4 DEF Admit
  <2>3. \A k : StaysLocal([req[r] EXCEPT !.pc = "waiting", !.model = k,
                       !.base = Plain(k), !.degradable = mayDegrade])
    BY <2>0, <2>2 DEF At, Handled, Fields, StaysLocal, Leaving
  <2>4. StaysLocal([req[r] EXCEPT !.pc = "done", !.answer = "refused"])
    BY <2>0, <2>2 DEF At, Handled, Fields, StaysLocal, Leaving
  <2>. QED
    BY <1>a, <2>1, <2>2, <2>3, <2>4, LocalMoves
<1>5. ASSUME NEW r \in Request, WaitRouted(r) PROVE (\A s \in Request : StaysLocal(req[s]))'
  BY <1>a, <1>5 DEF WaitRouted, At, HandlersTyped, Handled, Fields, StaysLocal, Leaving,
     Refunded
<1>6. ASSUME NEW r \in Request, WaitEnded(r) PROVE (\A s \in Request : StaysLocal(req[s]))'
  BY <1>a, <1>6 DEF WaitEnded, At, HandlersTyped, Handled, Fields, StaysLocal, Leaving, Refunded
<1>7. ASSUME NEW r \in Request, DegradeFirst(r) PROVE (\A s \in Request : StaysLocal(req[s]))'
  BY <1>a, <1>7 DEF DegradeFirst, Substitutes, Substituted, Permits, At, HandlersTyped,
     Handled, Fields, StaysLocal, Leaving, Refunded
<1>8. ASSUME NEW r \in Request, GiveUpFirst(r) PROVE (\A s \in Request : StaysLocal(req[s]))'
  BY <1>a, <1>8 DEF GiveUpFirst, At, HandlersTyped, Handled, Fields, StaysLocal, Leaving,
     Refunded
<1>9. ASSUME NEW r \in Request, Choose(r) PROVE (\A s \in Request : StaysLocal(req[s]))'
  BY <1>a, <1>9 DEF Choose, At, HandlersTyped, Handled, Fields, StaysLocal, Leaving, Refunded
<1>10. ASSUME NEW r \in Request, Pass(r) PROVE (\A s \in Request : StaysLocal(req[s]))'
  BY <1>a, <1>10 DEF Pass, Count, CallBound, At, HandlersTyped, Handled, Fields, StaysLocal,
     Leaving, Refunded
<1>11. ASSUME NEW r \in Request, RateLimited(r) PROVE (\A s \in Request : StaysLocal(req[s]))'
  BY <1>a, <1>11 DEF RateLimited, At, HandlersTyped, Handled, Fields, StaysLocal, Leaving,
     Refunded
<1>12. ASSUME NEW r \in Request, BadURL(r) PROVE (\A s \in Request : StaysLocal(req[s]))'
  BY <1>a, <1>12 DEF BadURL, At, HandlersTyped, Handled, Fields, StaysLocal, Leaving, Refunded
<1>13. ASSUME NEW r \in Request, Respond(r) PROVE (\A s \in Request : StaysLocal(req[s]))'
  BY <1>a, <1>13 DEF Respond, At, HandlersTyped, Handled, Fields, StaysLocal, Leaving, Refunded
<1>14. ASSUME NEW r \in Request, Panic(r) PROVE (\A s \in Request : StaysLocal(req[s]))'
  BY <1>a, <1>14 DEF Panic, At, HandlersTyped, Handled, Fields, StaysLocal, Leaving, Refunded
<1>15. ASSUME NEW r \in Request, Fail(r) PROVE (\A s \in Request : StaysLocal(req[s]))'
  BY <1>a, <1>15 DEF Fail, At, HandlersTyped, Handled, Fields, StaysLocal, Leaving, Refunded
<1>16. ASSUME NEW r \in Request, Failover(r) PROVE (\A s \in Request : StaysLocal(req[s]))'
  BY <1>a, <1>16 DEF Failover, At, HandlersTyped, Handled, Fields, StaysLocal, Leaving, Refunded
<1>17. ASSUME NEW r \in Request, FailoverLimited(r) PROVE (\A s \in Request : StaysLocal(req[s]))'
  BY <1>a, <1>17 DEF FailoverLimited, At, HandlersTyped, Handled, Fields, StaysLocal,
     Leaving, Refunded
<1>18. ASSUME NEW r \in Request, FailoverEnds(r) PROVE (\A s \in Request : StaysLocal(req[s]))'
  BY <1>a, <1>18 DEF FailoverEnds, At, HandlersTyped, Handled, Fields, StaysLocal, Leaving,
     Refunded
<1>19. ASSUME NEW r \in Request, Degrade(r) PROVE (\A s \in Request : StaysLocal(req[s]))'
  BY <1>a, <1>19 DEF Degrade, Substitutes, Substituted, Permits, At, HandlersTyped, Handled,
     Fields, StaysLocal, Leaving, Refunded
<1>20. ASSUME NEW r \in Request, DegradeEnds(r) PROVE (\A s \in Request : StaysLocal(req[s]))'
  BY <1>a, <1>20 DEF DegradeEnds, At, HandlersTyped, Handled, Fields, StaysLocal, Leaving,
     Refunded
<1>21. ASSUME NEW r \in Request, Retry(r) PROVE (\A s \in Request : StaysLocal(req[s]))'
  <2>0. Handled(req[r]) /\ StaysLocal(req[r]) /\ Refunded(req[r])
    BY <1>a DEF HandlersTyped
  <2>1. \/ req' = [req EXCEPT ![r] = [req[r] EXCEPT
                       !.pc = "upstream", !.attempt = Count(req[r].attempt),
                       !.calls = Count(req[r].calls),
                       !.held = [node |-> req[r].node, model |-> req[r].model]]]
        \/ req' = [req EXCEPT ![r] = [req[r] EXCEPT !.pc = "done", !.answer = "refused"]]
    BY <1>21 DEF Retry, Return
  <2>2. At(r, "next") /\ UNCHANGED localOnly
    BY <1>21 DEF Retry
  <2>3. StaysLocal([req[r] EXCEPT
                       !.pc = "upstream", !.attempt = Count(req[r].attempt),
                       !.calls = Count(req[r].calls),
                       !.held = [node |-> req[r].node, model |-> req[r].model]])
    BY <2>0, <2>2 DEF At, Handled, Fields, StaysLocal, Leaving
  <2>4. StaysLocal([req[r] EXCEPT !.pc = "done", !.answer = "refused"])
    BY <2>0, <2>2 DEF At, Handled, Fields, StaysLocal, Leaving
  <2>. QED
    BY <1>a, <2>1, <2>2, <2>3, <2>4, LocalMoves
<1>22. ASSUME NEW r \in Request, Block(r) PROVE (\A s \in Request : StaysLocal(req[s]))'
  BY <1>a, <1>22 DEF Block, Return, At, HandlersTyped, Handled, Fields, StaysLocal, Leaving,
     Refunded
<1>23. ASSUME NEW r \in Request, Unblock(r) PROVE (\A s \in Request : StaysLocal(req[s]))'
  BY <1>a, <1>23 DEF Unblock, At, HandlersTyped, Handled, Fields, StaysLocal, Leaving, Refunded
<1>24. ASSUME NEW r \in Request, NoOverflow(r) PROVE (\A s \in Request : StaysLocal(req[s]))'
  BY <1>a, <1>24 DEF NoOverflow, Return, At, HandlersTyped, Handled, Fields, StaysLocal,
     Leaving, Refunded
<1>25. ASSUME NEW r \in Request, Overflow(r) PROVE (\A s \in Request : StaysLocal(req[s]))'
  BY <1>a, <1>25 DEF Overflow, CloudRequestFor, At, HandlersTyped, Handled, Fields,
     StaysLocal, Leaving, Refunded
<1>26. ASSUME NEW r \in Request, CloudAbandon(r) PROVE (\A s \in Request : StaysLocal(req[s]))'
  BY <1>a, <1>26 DEF CloudAbandon, Return, At, HandlersTyped, Handled, Fields, StaysLocal,
     Leaving, Refunded
<1>27. ASSUME NEW r \in Request, CloudCall(r) PROVE (\A s \in Request : StaysLocal(req[s]))'
  BY <1>a, <1>27 DEF CloudCall, At, HandlersTyped, Handled, Fields, StaysLocal, Leaving,
     Refunded
<1>28. ASSUME NEW r \in Request, CloudRespond(r) PROVE (\A s \in Request : StaysLocal(req[s]))'
  BY <1>a, <1>28 DEF CloudRespond, Return, At, HandlersTyped, Handled, Fields, StaysLocal,
     Leaving, Refunded
<1>29. ASSUME NEW r \in Request, CloudFail(r) PROVE (\A s \in Request : StaysLocal(req[s]))'
  <2>0. Handled(req[r]) /\ StaysLocal(req[r]) /\ Refunded(req[r])
    BY <1>a DEF HandlersTyped
  <2>1. \/ req' = [req EXCEPT ![r] = [req[r] EXCEPT !.pc = "cloud", !.idx = req[r].idx + 1]]
        \/ req' = [req EXCEPT ![r] = [req[r] EXCEPT !.pc = "done", !.answer = "refused"]]
    BY <1>29 DEF CloudFail, Return
  <2>2. (At(r, "calling") \/ At(r, "cloud")) /\ UNCHANGED localOnly
    BY <1>29 DEF CloudFail
  <2>3. StaysLocal([req[r] EXCEPT !.pc = "cloud", !.idx = req[r].idx + 1])
    BY <2>0, <2>2 DEF At, Handled, Fields, StaysLocal, Leaving
  <2>4. StaysLocal([req[r] EXCEPT !.pc = "done", !.answer = "refused"])
    BY <2>0, <2>2 DEF At, Handled, Fields, StaysLocal, Leaving
  <2>. QED
    BY <1>a, <2>1, <2>2, <2>3, <2>4, LocalMoves
<1>30. ASSUME NEW r \in Request, CloudBadURL(r) PROVE (\A s \in Request : StaysLocal(req[s]))'
  BY <1>a, <1>30 DEF CloudBadURL, Return, At, HandlersTyped, Handled, Fields, StaysLocal,
     Leaving, Refunded
<1>31. ASSUME NEW r \in Request, Forget(r) PROVE (\A s \in Request : StaysLocal(req[s]))'
  BY <1>a, <1>31, IdleType DEF Forget, At, HandlersTyped, Handled, Fields, StaysLocal,
     Leaving, Refunded
<1>32. ASSUME NEW r \in Request, Disconnect(r) PROVE (\A s \in Request : StaysLocal(req[s]))'
  BY <1>a, <1>32 DEF Disconnect, At, HandlersTyped, Handled, Fields, StaysLocal, Leaving,
     Refunded
<1>33. ASSUME PatchKey PROVE (\A s \in Request : StaysLocal(req[s]))'
  <2>1. PICK l \in BOOLEAN : /\ localOnly' = l
                             /\ req' = [s \in Request |->
                                          [req[s] EXCEPT !.keptLocal = req[s].keptLocal /\ l]]
    BY <1>33 DEF PatchKey
  <2>2. ASSUME NEW s \in Request PROVE StaysLocal(req[s])'
    <3>1. DOMAIN req[s] = Fields /\ StaysLocal(req[s])
      BY <1>a DEF HandlersTyped, Handled
    <3>2. req'[s] = [req[s] EXCEPT !.keptLocal = req[s].keptLocal /\ l]
      BY <2>1
    <3>3. /\ req'[s].keptLocal = (req[s].keptLocal /\ l)
          /\ req'[s].pc = req[s].pc /\ req'[s].sent = req[s].sent
      BY <3>1, <3>2 DEF Fields
    <3>. QED
      BY <2>1, <3>1, <3>3 DEF StaysLocal
  <2>. QED
    BY <2>2
<1>34. ASSUME UNCHANGED vars PROVE (\A s \in Request : StaysLocal(req[s]))'
  BY <1>a, <1>34 DEF vars, StaysLocal
<1>35. ASSUME NEW r \in Request, Answer(r) PROVE (\A s \in Request : StaysLocal(req[s]))'
  BY <1>a, <1>35 DEF Answer, At, HandlersTyped, Handled, Fields, StaysLocal, Leaving, Refunded
<1>36. ASSUME NEW r \in Request, CloudAnswer(r) PROVE (\A s \in Request : StaysLocal(req[s]))'
  BY <1>a, <1>36 DEF CloudAnswer, At, HandlersTyped, Handled, Fields, StaysLocal, Leaving, Refunded
<1>. QED
  BY <1>1, <1>2, <1>3, <1>4, <1>5, <1>6, <1>7, <1>8, <1>9, <1>10, <1>11, <1>12, <1>13,
     <1>14, <1>15, <1>16, <1>17, <1>18, <1>19, <1>20, <1>21, <1>22, <1>23, <1>24, <1>25,
     <1>26, <1>27, <1>28, <1>29, <1>30, <1>31, <1>32, <1>33, <1>34, <1>35,
     <1>36 DEF Next, Step, StreamEnds

-----------------------------------------------------------------------------
(* The slots. *)

LEMMA SlotSizes ==
    \A n \in Node : /\ IsFiniteSet(On(n)) /\ Cardinality(On(n)) \in Nat
                    /\ \A m \in Model :
                         IsFiniteSet(OnFor(n, m)) /\ Cardinality(OnFor(n, m)) \in Nat
<1>1. TAKE n \in Node
<1>2. On(n) \subseteq Request /\ \A m \in Model : OnFor(n, m) \subseteq Request
  BY DEF On, OnFor
<1>3. IsFiniteSet(On(n)) /\ \A m \in Model : IsFiniteSet(OnFor(n, m))
  BY <1>2, ProxyAssumption, FS_Subset
<1>. QED
  BY <1>3, FS_CardinalityType

\* A step after which the same requests hold the same slots.
LEMMA SlotsSame ==
    ASSUME Slots, UNCHANGED <<conns, inFlight>>,
           \A s \in Request :
               /\ req'[s].pc \in Holding <=> req[s].pc \in Holding
               /\ req[s].pc \in Holding =>
                    req'[s].node = req[s].node /\ req'[s].model = req[s].model
    PROVE  Slots'
<1>1. \A n \in Node : On(n)' = On(n)
  BY DEF On
<1>2. \A n \in Node, m \in Model : OnFor(n, m)' = OnFor(n, m)
  BY <1>1 DEF OnFor, On
<1>. QED
  BY <1>1, <1>2 DEF Slots

\* A request that takes a slot is counted once, there.
LEMMA SlotTaken ==
    ASSUME Slots, NEW r \in Request, NEW n0 \in Node, NEW m0 \in Model, Acquire(n0, m0),
           req[r].pc \notin Holding, req'[r].pc \in Holding,
           req'[r].node = n0, req'[r].model = m0,
           \A s \in Request \ {r} : req'[s] = req[s]
    PROVE  Slots'
<1>1. \A n \in Node : On(n)' = IF n = n0 THEN On(n) \cup {r} ELSE On(n)
  BY DEF On
<1>2. \A n \in Node, m \in Model :
          OnFor(n, m)' = IF n = n0 /\ m = m0 THEN OnFor(n, m) \cup {r} ELSE OnFor(n, m)
  BY <1>1 DEF OnFor, On
<1>3. \A n \in Node : r \notin On(n) /\ \A m \in Model : r \notin OnFor(n, m)
  BY DEF On, OnFor
<1>4. \A n \in Node : /\ Cardinality(On(n) \cup {r}) = Cardinality(On(n)) + 1
                      /\ \A m \in Model :
                           Cardinality(OnFor(n, m) \cup {r}) = Cardinality(OnFor(n, m)) + 1
  BY <1>3, SlotSizes, FS_AddElement
<1>5. conns \in [Node -> Nat] /\ inFlight \in [Node -> [Model -> Nat]]
  BY DEF Slots
<1>6. /\ conns' \in [Node -> Nat]
      /\ \A n \in Node : conns'[n] = IF n = n0 THEN conns[n] + 1 ELSE conns[n]
  BY <1>5 DEF Acquire
<1>7. inFlight' \in [Node -> [Model -> Nat]]
  BY <1>5 DEF Acquire
<1>8. \A n \in Node, m \in Model :
          inFlight'[n][m] = IF n = n0 /\ m = m0 THEN inFlight[n][m] + 1 ELSE inFlight[n][m]
  BY <1>5 DEF Acquire
<1>9. \A n \in Node : conns'[n] = Cardinality(On(n)')
  BY <1>1, <1>4, <1>6 DEF Slots
<1>10. ASSUME NEW n \in Node, NEW m \in Model PROVE inFlight'[n][m] = Cardinality(OnFor(n, m)')
  <2>0. inFlight[n][m] = Cardinality(OnFor(n, m))
    BY DEF Slots
  <2>1. CASE n = n0 /\ m = m0
    <3>1. OnFor(n, m)' = OnFor(n, m) \cup {r}
      BY <1>2, <2>1
    <3>2. Cardinality(OnFor(n, m) \cup {r}) = Cardinality(OnFor(n, m)) + 1
      BY <1>4
    <3>3. inFlight'[n][m] = inFlight[n][m] + 1
      BY <1>8, <2>1
    <3>. QED
      BY <2>0, <3>1, <3>2, <3>3
  <2>2. CASE ~(n = n0 /\ m = m0)
    <3>1. OnFor(n, m)' = OnFor(n, m)
      BY <1>2, <2>2
    <3>2. inFlight'[n][m] = inFlight[n][m]
      BY <1>8, <2>2
    <3>. QED
      BY <2>0, <3>1, <3>2
  <2>. QED
    BY <2>1, <2>2
<1>. QED
  BY <1>6, <1>7, <1>9, <1>10 DEF Slots

\* One that gives its slot back is no longer counted, and the counts were not zero.
LEMMA SlotReturned ==
    ASSUME Slots, NEW r \in Request, Good(req[r]), Handled(req[r]), Release(r),
           req[r].pc \in Holding, req'[r].pc \notin Holding,
           \A s \in Request \ {r} : req'[s] = req[s]
    PROVE  Slots'
<1>. DEFINE n0 == req[r].node
            m0 == req[r].model
<1>0. n0 \in Node /\ m0 \in Model
  BY DEF Good, Placed, Holding, Routed, Calling
<1>1. \A n \in Node : On(n)' = IF n = n0 THEN On(n) \ {r} ELSE On(n)
  BY DEF On
<1>2. \A n \in Node, m \in Model :
          OnFor(n, m)' = IF n = n0 /\ m = m0 THEN OnFor(n, m) \ {r} ELSE OnFor(n, m)
  BY <1>1 DEF OnFor, On
<1>3. r \in On(n0) /\ r \in OnFor(n0, m0)
  BY DEF On, OnFor
<1>4. /\ Cardinality(On(n0) \ {r}) = Cardinality(On(n0)) - 1
      /\ Cardinality(OnFor(n0, m0) \ {r}) = Cardinality(OnFor(n0, m0)) - 1
  <2>1. IsFiniteSet(On(n0)) /\ IsFiniteSet(OnFor(n0, m0))
    BY <1>0, SlotSizes
  <2>. HIDE DEF n0, m0
  <2>2. Cardinality(On(n0) \ {r}) = Cardinality(On(n0)) - 1
    BY <1>3, <2>1, FS_RemoveElement
  <2>3. Cardinality(OnFor(n0, m0) \ {r}) = Cardinality(OnFor(n0, m0)) - 1
    BY <1>3, <2>1, FS_RemoveElement
  <2>. QED
    BY <2>2, <2>3
<1>5. /\ Cardinality(On(n0) \ {r}) \in Nat /\ Cardinality(OnFor(n0, m0) \ {r}) \in Nat
  BY <1>0, SlotSizes, FS_RemoveElement, FS_CardinalityType
<1>6. conns \in [Node -> Nat] /\ inFlight \in [Node -> [Model -> Nat]]
  BY DEF Slots
<1>7. conns[n0] > 0 /\ inFlight[n0][m0] > 0
  BY <1>0, <1>4, <1>5, SlotSizes DEF Slots
<1>8. /\ conns' = [conns EXCEPT ![n0] = Decr(@)]
      /\ inFlight' = [inFlight EXCEPT ![n0][m0] = Decr(@)]
  <2>1. req[r].held = [node |-> n0, model |-> m0]
    BY DEF Good, HoldsSlot
  <2>2. req[r].held # None
    BY <1>0, <2>1, ProxyAssumption
  <2>3. req[r].held.node = n0 /\ req[r].held.model = m0
    BY <2>1
  <2>. QED
    BY <2>2, <2>3 DEF Release
<1>. HIDE DEF n0, m0
<1>9. /\ conns' \in [Node -> Nat]
      /\ \A n \in Node : conns'[n] = IF n = n0 THEN conns[n] - 1 ELSE conns[n]
  BY <1>0, <1>6, <1>7, <1>8 DEF Decr
<1>10. inFlight' \in [Node -> [Model -> Nat]]
  BY <1>0, <1>6, <1>7, <1>8 DEF Decr
<1>11. \A n \in Node, m \in Model :
          inFlight'[n][m] = IF n = n0 /\ m = m0 THEN inFlight[n][m] - 1 ELSE inFlight[n][m]
  BY <1>0, <1>6, <1>7, <1>8 DEF Decr
<1>12. \A n \in Node : conns'[n] = Cardinality(On(n)')
  BY <1>1, <1>4, <1>9 DEF Slots
<1>13. \A n \in Node, m \in Model : inFlight'[n][m] = Cardinality(OnFor(n, m)')
  <2>1. TAKE n \in Node, m \in Model
  <2>2. inFlight[n][m] = Cardinality(OnFor(n, m))
    BY DEF Slots
  <2>3. inFlight'[n][m] = IF n = n0 /\ m = m0 THEN inFlight[n][m] - 1 ELSE inFlight[n][m]
    BY <1>11
  <2>4. OnFor(n, m)' = IF n = n0 /\ m = m0 THEN OnFor(n, m) \ {r} ELSE OnFor(n, m)
    BY <1>2
  <2>. HIDE DEF OnFor
  <2>. QED
    BY <1>4, <2>2, <2>3, <2>4
<1>. QED
  BY <1>9, <1>10, <1>12, <1>13 DEF Slots

LEMMA SlotsMove ==
    ASSUME Slots, HandlersTyped, NEW r \in Request, NEW q,
           req[r].pc \notin Holding, q.pc \notin Holding,
           req' = [req EXCEPT ![r] = q], UNCHANGED <<conns, inFlight>>
    PROVE  Slots'
<1>1. req'[r].pc \notin Holding /\ \A s \in Request \ {r} : req'[s] = req[s]
  BY DEF HandlersTyped
<1>. QED
  BY <1>1, SlotsSame

\* Every path takes its slot once and gives it back once.
LEMMA StepSlots == PInv /\ [Next]_vars => Slots'
<1>. SUFFICES ASSUME PInv, [Next]_vars PROVE Slots'
  OBVIOUS
<1>a. HandlersTyped /\ Slots /\ \A r \in Request : Good(req[r]) /\ Handled(req[r])
  BY DEF PInv, HandlersGood, HandlersTyped
<1>1. ASSUME NEW r \in Request, Arrive(r) PROVE Slots'
  <2>1. \A s \in Request :
          /\ req'[s].pc \in Holding <=> req[s].pc \in Holding
          /\ req[s].pc \in Holding => req'[s].node = req[s].node /\ req'[s].model = req[s].model
    BY <1>a, <1>1, IdleType DEF Arrive, At, HandlersTyped, Handled, Fields, Holding
  <2>2. UNCHANGED <<conns, inFlight>>
    BY <1>1 DEF Arrive
  <2>. QED
    BY <1>a, <2>1, <2>2, SlotsSame
<1>2. ASSUME NEW r \in Request, RefuseEarly(r) PROVE Slots'
  <2>1. \A s \in Request :
          /\ req'[s].pc \in Holding <=> req[s].pc \in Holding
          /\ req[s].pc \in Holding => req'[s].node = req[s].node /\ req'[s].model = req[s].model
    BY <1>a, <1>2 DEF RefuseEarly, Return, At, HandlersTyped, Handled, Fields, Holding
  <2>2. UNCHANGED <<conns, inFlight>>
    BY <1>2 DEF RefuseEarly
  <2>. QED
    BY <1>a, <2>1, <2>2, SlotsSame
<1>3. ASSUME NEW r \in Request, RefuseModel(r) PROVE Slots'
  <2>1. \A s \in Request :
          /\ req'[s].pc \in Holding <=> req[s].pc \in Holding
          /\ req[s].pc \in Holding => req'[s].node = req[s].node /\ req'[s].model = req[s].model
    BY <1>a, <1>3 DEF RefuseModel, PermitsRequested, At, HandlersTyped, Handled, Fields, Holding
  <2>2. UNCHANGED <<conns, inFlight>>
    BY <1>3 DEF RefuseModel
  <2>. QED
    BY <1>a, <2>1, <2>2, SlotsSame
<1>4. ASSUME NEW r \in Request, Admit(r) PROVE Slots'
  <2>0. Handled(req[r]) /\ UNCHANGED <<conns, inFlight>>
    BY <1>a, <1>4 DEF Admit
  <2>1. \/ \E k : req' = [req EXCEPT ![r] = [req[r] EXCEPT !.pc = "waiting", !.model = k,
                       !.base = Plain(k), !.degradable = mayDegrade]]
        \/ req' = [req EXCEPT ![r] = [req[r] EXCEPT !.pc = "done", !.answer = "refused"]]
    BY <1>4 DEF Admit, Return
  <2>2. req[r].pc \notin Holding
    BY <1>4 DEF Admit, At, Holding
  <2>3. \A k : ([req[r] EXCEPT !.pc = "waiting", !.model = k,
                       !.base = Plain(k), !.degradable = mayDegrade]).pc \notin Holding
    BY <2>0 DEF Handled, Fields, Holding
  <2>4. ([req[r] EXCEPT !.pc = "done", !.answer = "refused"]).pc \notin Holding
    BY <2>0 DEF Handled, Fields, Holding
  <2>. QED
    BY <1>a, <2>0, <2>1, <2>2, <2>3, <2>4, SlotsMove
<1>5. ASSUME NEW r \in Request, WaitRouted(r) PROVE Slots'
  <2>1. \A s \in Request :
          /\ req'[s].pc \in Holding <=> req[s].pc \in Holding
          /\ req[s].pc \in Holding => req'[s].node = req[s].node /\ req'[s].model = req[s].model
    BY <1>a, <1>5 DEF WaitRouted, At, HandlersTyped, Handled, Fields, Holding
  <2>2. UNCHANGED <<conns, inFlight>>
    BY <1>5 DEF WaitRouted
  <2>. QED
    BY <1>a, <2>1, <2>2, SlotsSame
<1>6. ASSUME NEW r \in Request, WaitEnded(r) PROVE Slots'
  <2>1. \A s \in Request :
          /\ req'[s].pc \in Holding <=> req[s].pc \in Holding
          /\ req[s].pc \in Holding => req'[s].node = req[s].node /\ req'[s].model = req[s].model
    BY <1>a, <1>6 DEF WaitEnded, At, HandlersTyped, Handled, Fields, Holding
  <2>2. UNCHANGED <<conns, inFlight>>
    BY <1>6 DEF WaitEnded
  <2>. QED
    BY <1>a, <2>1, <2>2, SlotsSame
<1>7. ASSUME NEW r \in Request, DegradeFirst(r) PROVE Slots'
  <2>1. \A s \in Request :
          /\ req'[s].pc \in Holding <=> req[s].pc \in Holding
          /\ req[s].pc \in Holding => req'[s].node = req[s].node /\ req'[s].model = req[s].model
    BY <1>a, <1>7 DEF DegradeFirst, Substitutes, Substituted, Permits, At, HandlersTyped,
       Handled, Fields, Holding
  <2>2. UNCHANGED <<conns, inFlight>>
    BY <1>7 DEF DegradeFirst
  <2>. QED
    BY <1>a, <2>1, <2>2, SlotsSame
<1>8. ASSUME NEW r \in Request, GiveUpFirst(r) PROVE Slots'
  <2>1. \A s \in Request :
          /\ req'[s].pc \in Holding <=> req[s].pc \in Holding
          /\ req[s].pc \in Holding => req'[s].node = req[s].node /\ req'[s].model = req[s].model
    BY <1>a, <1>8 DEF GiveUpFirst, At, HandlersTyped, Handled, Fields, Holding
  <2>2. UNCHANGED <<conns, inFlight>>
    BY <1>8 DEF GiveUpFirst
  <2>. QED
    BY <1>a, <2>1, <2>2, SlotsSame
<1>9. ASSUME NEW r \in Request, Choose(r) PROVE Slots'
  <2>1. req[r].pc = "chosen" /\ Acquire(req[r].node, req[r].model)
    BY <1>9 DEF Choose, At
  <2>2. req[r].node \in Node /\ req[r].model \in Model /\ req[r].pc \notin Holding
    BY <1>a, <2>1 DEF Good, Placed, Routed, Calling, Holding
  <2>3. /\ req'[r].pc \in Holding /\ req'[r].node = req[r].node /\ req'[r].model = req[r].model
        /\ \A s \in Request \ {r} : req'[s] = req[s]
    BY <1>a, <1>9 DEF Choose, HandlersTyped, Handled, Fields, Holding
  <2>. QED
    BY <1>a, <2>1, <2>2, <2>3, SlotTaken
<1>10. ASSUME NEW r \in Request, Pass(r) PROVE Slots'
  <2>1. \A s \in Request :
          /\ req'[s].pc \in Holding <=> req[s].pc \in Holding
          /\ req[s].pc \in Holding => req'[s].node = req[s].node /\ req'[s].model = req[s].model
    BY <1>a, <1>10 DEF Pass, Count, CallBound, At, HandlersTyped, Handled, Fields, Holding
  <2>2. UNCHANGED <<conns, inFlight>>
    BY <1>10 DEF Pass
  <2>. QED
    BY <1>a, <2>1, <2>2, SlotsSame
<1>11. ASSUME NEW r \in Request, RateLimited(r) PROVE Slots'
  <2>1. req[r].pc \in Holding /\ Release(r)
    BY <1>a, <1>11 DEF RateLimited, At, Good, HoldsSlot, Holding
  <2>2. req'[r].pc \notin Holding /\ \A s \in Request \ {r} : req'[s] = req[s]
    BY <1>a, <1>11 DEF RateLimited, HandlersTyped, Handled, Fields, Holding
  <2>. QED
    BY <1>a, <2>1, <2>2, SlotReturned
<1>12. ASSUME NEW r \in Request, BadURL(r) PROVE Slots'
  <2>1. req[r].pc \in Holding /\ Release(r)
    BY <1>a, <1>12 DEF BadURL, At, Good, HoldsSlot, Holding
  <2>2. req'[r].pc \notin Holding /\ \A s \in Request \ {r} : req'[s] = req[s]
    BY <1>a, <1>12 DEF BadURL, HandlersTyped, Handled, Fields, Holding
  <2>. QED
    BY <1>a, <2>1, <2>2, SlotReturned
<1>13. ASSUME NEW r \in Request, Respond(r) PROVE Slots'
  <2>1. req[r].pc \in Holding /\ Release(r)
    BY <1>a, <1>13 DEF Respond, At, Good, HoldsSlot, Holding
  <2>2. req'[r].pc \notin Holding /\ \A s \in Request \ {r} : req'[s] = req[s]
    BY <1>a, <1>13 DEF Respond, HandlersTyped, Handled, Fields, Holding
  <2>. QED
    BY <1>a, <2>1, <2>2, SlotReturned
<1>14. ASSUME NEW r \in Request, Panic(r) PROVE Slots'
  <2>1. req[r].pc \in Holding /\ Release(r)
    BY <1>a, <1>14 DEF Panic, At, Good, HoldsSlot, Holding
  <2>2. req'[r].pc \notin Holding /\ \A s \in Request \ {r} : req'[s] = req[s]
    BY <1>a, <1>14 DEF Panic, HandlersTyped, Handled, Fields, Holding
  <2>. QED
    BY <1>a, <2>1, <2>2, SlotReturned
<1>15. ASSUME NEW r \in Request, Fail(r) PROVE Slots'
  <2>1. req[r].pc \in Holding /\ Release(r)
    BY <1>a, <1>15 DEF Fail, At, Good, HoldsSlot, Holding
  <2>2. req'[r].pc \notin Holding /\ \A s \in Request \ {r} : req'[s] = req[s]
    BY <1>a, <1>15 DEF Fail, HandlersTyped, Handled, Fields, Holding
  <2>. QED
    BY <1>a, <2>1, <2>2, SlotReturned
<1>16. ASSUME NEW r \in Request, Failover(r) PROVE Slots'
  <2>1. \A s \in Request :
          /\ req'[s].pc \in Holding <=> req[s].pc \in Holding
          /\ req[s].pc \in Holding => req'[s].node = req[s].node /\ req'[s].model = req[s].model
    BY <1>a, <1>16 DEF Failover, At, HandlersTyped, Handled, Fields, Holding
  <2>2. UNCHANGED <<conns, inFlight>>
    BY <1>16 DEF Failover
  <2>. QED
    BY <1>a, <2>1, <2>2, SlotsSame
<1>17. ASSUME NEW r \in Request, FailoverLimited(r) PROVE Slots'
  <2>1. \A s \in Request :
          /\ req'[s].pc \in Holding <=> req[s].pc \in Holding
          /\ req[s].pc \in Holding => req'[s].node = req[s].node /\ req'[s].model = req[s].model
    BY <1>a, <1>17 DEF FailoverLimited, At, HandlersTyped, Handled, Fields, Holding
  <2>2. UNCHANGED <<conns, inFlight>>
    BY <1>17 DEF FailoverLimited
  <2>. QED
    BY <1>a, <2>1, <2>2, SlotsSame
<1>18. ASSUME NEW r \in Request, FailoverEnds(r) PROVE Slots'
  <2>1. \A s \in Request :
          /\ req'[s].pc \in Holding <=> req[s].pc \in Holding
          /\ req[s].pc \in Holding => req'[s].node = req[s].node /\ req'[s].model = req[s].model
    BY <1>a, <1>18 DEF FailoverEnds, At, HandlersTyped, Handled, Fields, Holding
  <2>2. UNCHANGED <<conns, inFlight>>
    BY <1>18 DEF FailoverEnds
  <2>. QED
    BY <1>a, <2>1, <2>2, SlotsSame
<1>19. ASSUME NEW r \in Request, Degrade(r) PROVE Slots'
  <2>1. \A s \in Request :
          /\ req'[s].pc \in Holding <=> req[s].pc \in Holding
          /\ req[s].pc \in Holding => req'[s].node = req[s].node /\ req'[s].model = req[s].model
    BY <1>a, <1>19 DEF Degrade, Substitutes, Substituted, Permits, At, HandlersTyped,
       Handled, Fields, Holding
  <2>2. UNCHANGED <<conns, inFlight>>
    BY <1>19 DEF Degrade
  <2>. QED
    BY <1>a, <2>1, <2>2, SlotsSame
<1>20. ASSUME NEW r \in Request, DegradeEnds(r) PROVE Slots'
  <2>1. \A s \in Request :
          /\ req'[s].pc \in Holding <=> req[s].pc \in Holding
          /\ req[s].pc \in Holding => req'[s].node = req[s].node /\ req'[s].model = req[s].model
    BY <1>a, <1>20 DEF DegradeEnds, At, HandlersTyped, Handled, Fields, Holding
  <2>2. UNCHANGED <<conns, inFlight>>
    BY <1>20 DEF DegradeEnds
  <2>. QED
    BY <1>a, <2>1, <2>2, SlotsSame
<1>21. ASSUME NEW r \in Request, Retry(r) PROVE Slots'
  <2>1. req[r].pc = "next"
    BY <1>21 DEF Retry, At
  <2>2. req[r].node \in Node /\ req[r].model \in Model /\ req[r].pc \notin Holding
    BY <1>a, <2>1 DEF Good, Placed, Routed, Calling, Holding
  <2>3. ASSUME Acquire(req[r].node, req[r].model),
               req' = [req EXCEPT ![r] = [req[r] EXCEPT !.pc = "upstream",
                            !.attempt = Count(req[r].attempt), !.calls = Count(req[r].calls),
                            !.held = [node |-> req[r].node, model |-> req[r].model]]]
        PROVE  Slots'
    <3>1. /\ req'[r].pc \in Holding /\ req'[r].node = req[r].node /\ req'[r].model = req[r].model
          /\ \A s \in Request \ {r} : req'[s] = req[s]
      BY <1>a, <2>3 DEF HandlersTyped, Handled, Fields, Holding
    <3>. QED
      BY <1>a, <2>2, <2>3, <3>1, SlotTaken
  <2>4. CASE Return(r, "refused") /\ UNCHANGED <<conns, inFlight>>
    BY <1>a, <2>1, <2>4, SlotsSame DEF Return, HandlersTyped, Handled, Fields, Holding
  <2>. QED
    BY <1>a, <1>21, <2>3, <2>4 DEF Retry
<1>22. ASSUME NEW r \in Request, Block(r) PROVE Slots'
  <2>1. \A s \in Request :
          /\ req'[s].pc \in Holding <=> req[s].pc \in Holding
          /\ req[s].pc \in Holding => req'[s].node = req[s].node /\ req'[s].model = req[s].model
    BY <1>a, <1>22 DEF Block, Return, At, HandlersTyped, Handled, Fields, Holding
  <2>2. UNCHANGED <<conns, inFlight>>
    BY <1>22 DEF Block
  <2>. QED
    BY <1>a, <2>1, <2>2, SlotsSame
<1>23. ASSUME NEW r \in Request, Unblock(r) PROVE Slots'
  <2>1. \A s \in Request :
          /\ req'[s].pc \in Holding <=> req[s].pc \in Holding
          /\ req[s].pc \in Holding => req'[s].node = req[s].node /\ req'[s].model = req[s].model
    BY <1>a, <1>23 DEF Unblock, At, HandlersTyped, Handled, Fields, Holding
  <2>2. UNCHANGED <<conns, inFlight>>
    BY <1>23 DEF Unblock
  <2>. QED
    BY <1>a, <2>1, <2>2, SlotsSame
<1>24. ASSUME NEW r \in Request, NoOverflow(r) PROVE Slots'
  <2>1. \A s \in Request :
          /\ req'[s].pc \in Holding <=> req[s].pc \in Holding
          /\ req[s].pc \in Holding => req'[s].node = req[s].node /\ req'[s].model = req[s].model
    BY <1>a, <1>24 DEF NoOverflow, Return, At, HandlersTyped, Handled, Fields, Holding
  <2>2. UNCHANGED <<conns, inFlight>>
    BY <1>24 DEF NoOverflow
  <2>. QED
    BY <1>a, <2>1, <2>2, SlotsSame
<1>25. ASSUME NEW r \in Request, Overflow(r) PROVE Slots'
  <2>1. \A s \in Request :
          /\ req'[s].pc \in Holding <=> req[s].pc \in Holding
          /\ req[s].pc \in Holding => req'[s].node = req[s].node /\ req'[s].model = req[s].model
    BY <1>a, <1>25 DEF Overflow, CloudRequestFor, At, HandlersTyped, Handled, Fields, Holding
  <2>2. UNCHANGED <<conns, inFlight>>
    BY <1>25 DEF Overflow
  <2>. QED
    BY <1>a, <2>1, <2>2, SlotsSame
<1>26. ASSUME NEW r \in Request, CloudAbandon(r) PROVE Slots'
  <2>1. \A s \in Request :
          /\ req'[s].pc \in Holding <=> req[s].pc \in Holding
          /\ req[s].pc \in Holding => req'[s].node = req[s].node /\ req'[s].model = req[s].model
    BY <1>a, <1>26 DEF CloudAbandon, Return, At, HandlersTyped, Handled, Fields, Holding
  <2>2. UNCHANGED <<conns, inFlight>>
    BY <1>26 DEF CloudAbandon
  <2>. QED
    BY <1>a, <2>1, <2>2, SlotsSame
<1>27. ASSUME NEW r \in Request, CloudCall(r) PROVE Slots'
  <2>1. \A s \in Request :
          /\ req'[s].pc \in Holding <=> req[s].pc \in Holding
          /\ req[s].pc \in Holding => req'[s].node = req[s].node /\ req'[s].model = req[s].model
    BY <1>a, <1>27 DEF CloudCall, At, HandlersTyped, Handled, Fields, Holding
  <2>2. UNCHANGED <<conns, inFlight>>
    BY <1>27 DEF CloudCall
  <2>. QED
    BY <1>a, <2>1, <2>2, SlotsSame
<1>28. ASSUME NEW r \in Request, CloudRespond(r) PROVE Slots'
  <2>1. \A s \in Request :
          /\ req'[s].pc \in Holding <=> req[s].pc \in Holding
          /\ req[s].pc \in Holding => req'[s].node = req[s].node /\ req'[s].model = req[s].model
    BY <1>a, <1>28 DEF CloudRespond, Return, At, HandlersTyped, Handled, Fields, Holding
  <2>2. UNCHANGED <<conns, inFlight>>
    BY <1>28 DEF CloudRespond
  <2>. QED
    BY <1>a, <2>1, <2>2, SlotsSame
<1>29. ASSUME NEW r \in Request, CloudFail(r) PROVE Slots'
  <2>0. Handled(req[r]) /\ UNCHANGED <<conns, inFlight>>
    BY <1>a, <1>29 DEF CloudFail
  <2>1. \/ req' = [req EXCEPT ![r] = [req[r] EXCEPT !.pc = "cloud", !.idx = req[r].idx + 1]]
        \/ req' = [req EXCEPT ![r] = [req[r] EXCEPT !.pc = "done", !.answer = "refused"]]
    BY <1>29 DEF CloudFail, Return
  <2>2. req[r].pc \notin Holding
    BY <1>29 DEF CloudFail, At, Holding
  <2>3. ([req[r] EXCEPT !.pc = "cloud", !.idx = req[r].idx + 1]).pc \notin Holding
    BY <2>0 DEF Handled, Fields, Holding
  <2>4. ([req[r] EXCEPT !.pc = "done", !.answer = "refused"]).pc \notin Holding
    BY <2>0 DEF Handled, Fields, Holding
  <2>. QED
    BY <1>a, <2>0, <2>1, <2>2, <2>3, <2>4, SlotsMove
<1>30. ASSUME NEW r \in Request, CloudBadURL(r) PROVE Slots'
  <2>1. \A s \in Request :
          /\ req'[s].pc \in Holding <=> req[s].pc \in Holding
          /\ req[s].pc \in Holding => req'[s].node = req[s].node /\ req'[s].model = req[s].model
    BY <1>a, <1>30 DEF CloudBadURL, Return, At, HandlersTyped, Handled, Fields, Holding
  <2>2. UNCHANGED <<conns, inFlight>>
    BY <1>30 DEF CloudBadURL
  <2>. QED
    BY <1>a, <2>1, <2>2, SlotsSame
<1>31. ASSUME NEW r \in Request, Forget(r) PROVE Slots'
  <2>1. \A s \in Request :
          /\ req'[s].pc \in Holding <=> req[s].pc \in Holding
          /\ req[s].pc \in Holding => req'[s].node = req[s].node /\ req'[s].model = req[s].model
    BY <1>a, <1>31, IdleType DEF Forget, At, HandlersTyped, Handled, Fields, Holding
  <2>2. UNCHANGED <<conns, inFlight>>
    BY <1>31 DEF Forget
  <2>. QED
    BY <1>a, <2>1, <2>2, SlotsSame
<1>32. ASSUME NEW r \in Request, Disconnect(r) PROVE Slots'
  <2>1. \A s \in Request :
          /\ req'[s].pc \in Holding <=> req[s].pc \in Holding
          /\ req[s].pc \in Holding => req'[s].node = req[s].node /\ req'[s].model = req[s].model
    BY <1>a, <1>32 DEF Disconnect, At, HandlersTyped, Handled, Fields, Holding
  <2>2. UNCHANGED <<conns, inFlight>>
    BY <1>32 DEF Disconnect
  <2>. QED
    BY <1>a, <2>1, <2>2, SlotsSame
<1>33. ASSUME PatchKey PROVE Slots'
  <2>1. \A s \in Request :
          /\ req'[s].pc \in Holding <=> req[s].pc \in Holding
          /\ req[s].pc \in Holding => req'[s].node = req[s].node /\ req'[s].model = req[s].model
    BY <1>a, <1>33 DEF PatchKey, HandlersTyped, Handled, Fields, Holding
  <2>2. UNCHANGED <<conns, inFlight>>
    BY <1>33 DEF PatchKey
  <2>. QED
    BY <1>a, <2>1, <2>2, SlotsSame
<1>34. ASSUME UNCHANGED vars PROVE Slots'
  BY <1>a, <1>34, SlotsSame DEF vars
<1>35. ASSUME NEW r \in Request, Answer(r) PROVE Slots'
  <2>1. \A s \in Request :
          /\ req'[s].pc \in Holding <=> req[s].pc \in Holding
          /\ req[s].pc \in Holding => req'[s].node = req[s].node /\ req'[s].model = req[s].model
    BY <1>a, <1>35 DEF Answer, At, HandlersTyped, Handled, Fields, Holding
  <2>2. UNCHANGED <<conns, inFlight>>
    BY <1>35 DEF Answer
  <2>. QED
    BY <1>a, <2>1, <2>2, SlotsSame
<1>36. ASSUME NEW r \in Request, CloudAnswer(r) PROVE Slots'
  <2>1. \A s \in Request :
          /\ req'[s].pc \in Holding <=> req[s].pc \in Holding
          /\ req[s].pc \in Holding => req'[s].node = req[s].node /\ req'[s].model = req[s].model
    BY <1>a, <1>36 DEF CloudAnswer, At, HandlersTyped, Handled, Fields, Holding
  <2>2. UNCHANGED <<conns, inFlight>>
    BY <1>36 DEF CloudAnswer
  <2>. QED
    BY <1>a, <2>1, <2>2, SlotsSame
<1>. QED
  BY <1>1, <1>2, <1>3, <1>4, <1>5, <1>6, <1>7, <1>8, <1>9, <1>10, <1>11, <1>12, <1>13,
     <1>14, <1>15, <1>16, <1>17, <1>18, <1>19, <1>20, <1>21, <1>22, <1>23, <1>24, <1>25,
     <1>26, <1>27, <1>28, <1>29, <1>30, <1>31, <1>32, <1>33, <1>34, <1>35,
     <1>36 DEF Next, Step, StreamEnds

-----------------------------------------------------------------------------
(* The invariant holds. *)

LEMMA InitHolds == Init => PInv
<1>. SUFFICES ASSUME Init PROVE PInv
  OBVIOUS
<1>1. \A r \in Request : req[r] = Idle
  BY DEF Init
<1>2. HandlersTyped
  BY <1>1, IdleType DEF Init, HandlersTyped
<1>3. \A r \in Request : Good(req[r]) /\ StaysLocal(req[r])
  BY <1>1, IdleType DEF StaysLocal
<1>4. \A n \in Node : On(n) = {} /\ \A m \in Model : OnFor(n, m) = {}
  BY <1>1, IdleType DEF On, OnFor, Holding
<1>5. Slots
  BY <1>4, FS_EmptySet DEF Init, Slots
<1>. QED
  BY <1>2, <1>3, <1>5 DEF Init, PInv, HandlersGood

LEMMA StepFlags ==
    PInv /\ [Next]_vars => localOnly' \in BOOLEAN /\ mayDegrade' \in BOOLEAN
<1>. SUFFICES ASSUME PInv, [Next]_vars PROVE localOnly' \in BOOLEAN /\ mayDegrade' \in BOOLEAN
  OBVIOUS
<1>1. localOnly \in BOOLEAN /\ mayDegrade \in BOOLEAN
  BY DEF PInv
<1>2. CASE PatchKey
  BY <1>2 DEF PatchKey
<1>3. CASE UNCHANGED <<localOnly, mayDegrade>>
  BY <1>1, <1>3
<1>4. UNCHANGED vars => UNCHANGED <<localOnly, mayDegrade>>
  BY DEF vars
<1>5. ASSUME NEW r \in Request, Arrive(r) \/ Disconnect(r) \/ Step(r)
      PROVE  UNCHANGED <<localOnly, mayDegrade>>
  BY <1>5 DEF Step, StreamEnds, Admit, Answer, Arrive, BadURL, Block, Choose, CloudAbandon, CloudBadURL,
     CloudAnswer, CloudCall, CloudFail,
      CloudRespond, Degrade, DegradeEnds, DegradeFirst, Disconnect, Fail, Failover,
      FailoverEnds, FailoverLimited, Forget, GiveUpFirst, NoOverflow, Overflow, Panic, Pass,
      RateLimited, RefuseEarly, RefuseModel, Respond, Retry, Return, Unblock, WaitEnded,
      WaitRouted
<1>. QED
  BY <1>2, <1>3, <1>4, <1>5 DEF Next

LEMMA StepHolds == PInv /\ [Next]_vars => PInv'
BY StepTypes, StepGood, StepLocal, StepSlots, StepFlags DEF PInv, HandlersGood

LEMMA Invariance == Spec => []PInv
BY InitHolds, StepHolds, PTL DEF Spec

-----------------------------------------------------------------------------
(* What it implies. *)

LEMMA SlotsImplied == PInv => SlotsBalanced
<1>. SUFFICES ASSUME PInv PROVE SlotsBalanced
  OBVIOUS
<1>. QED
  BY DEF PInv, Slots, SlotsBalanced, On, OnFor, Holding

LEMMA KeptImplied == PInv => RequestKept
<1>. SUFFICES ASSUME PInv PROVE RequestKept
  OBVIOUS
<1>1. \A r \in Request : Handled(req[r]) /\ Good(req[r]) /\ StaysLocal(req[r])
  BY DEF PInv, HandlersGood, HandlersTyped
<1>2. TypeOK
  BY <1>1 DEF PInv, Slots, Handled, Good, Placed, TypeOK, Slot
<1>3. LocalOnlyKept
  BY <1>1 DEF StaysLocal, LocalOnlyKept
<1>4. AllowListKept
  BY <1>1 DEF Good, MayUse, Routed, Calling, AllowListKept, At, Permits
<1>5. CallsBounded
  BY <1>1 DEF Good, InBudget, CallsBounded
<1>6. RefundedUnserved
  BY <1>1 DEF Good, Refunded, RefundedUnserved
<1>7. BodyFollows
  BY <1>1 DEF Good, SendsBody, BodyFollows, At
<1>. QED
  BY <1>2, <1>3, <1>4, <1>5, <1>6, <1>7 DEF RequestKept

\* No path of the handler leaks a slot or gives one back twice: not a failure, a
\* retry, a substitution, a refusal or a panic (proxy.go:614-635).
THEOREM SlotsKept == Spec => []SlotsBalanced
BY Invariance, SlotsImplied, PTL

\* Whatever a request goes through, its key's policy, the retry budget, the refund
\* and the body it is sent with hold (proxy.go:69-93, 379-440, 552-558, 655-695,
\* 783-855, 1069-1088).
THEOREM RequestsKept == Spec => []RequestKept
BY Invariance, KeptImplied, PTL

\* Beside the parts checked in the same run, which leave the handler alone, too.
THEOREM RequestsKeptBesides == RequestSpec => [](SlotsBalanced /\ RequestKept)
<1>1. RequestInit => PInv
  BY InitHolds DEF RequestInit
<1>2. PInv /\ [RequestNext]_requestVars => PInv'
  <2>. SUFFICES ASSUME [RequestNext]_requestVars PROVE [Next]_vars
    BY StepHolds
  <2>. QED
    BY DEF RequestNext, Only, requestVars
<1>. QED
  BY <1>1, <1>2, SlotsImplied, KeptImplied, PTL DEF RequestSpec

-----------------------------------------------------------------------------
(* Sums over finite sets. *)

\* A family of subsets of a finite set has a smallest member.
LEMMA SmallestSet ==
    ASSUME NEW M, IsFiniteSet(M), NEW F, F \subseteq SUBSET M, F # {}
    PROVE \E X \in F : \A Y \in F : Y \subseteq X => Y = X
<1>1. IsWellFoundedOn(StrictSubsetOrdering(M), SUBSET M)
    BY FS_FiniteSubsetsOfFinite, FS_StrictSubsetOrderingWellFounded
<1>2. PICK X \in F : \A Y \in F : ~(<<Y, X>> \in StrictSubsetOrdering(M))
    BY <1>1, WFMin
<1>3. ASSUME NEW Y \in F, Y \subseteq X, Y # X PROVE FALSE
  <2>1. <<Y, X>> \in (SUBSET M) \X (SUBSET M)
      OBVIOUS
  <2>2. <<Y, X>> \in StrictSubsetOrdering(M)
      BY <1>3, <2>1 DEF StrictSubsetOrdering
  <2> QED
      BY <1>2, <2>2
<1> QED
    BY <1>3

\* A sum as a number of units.
UnitsOf(f, S) == {p \in S \X Nat : 1 <= p[2] /\ p[2] <= f[p[1]]}

LEMMA UnitsAdd ==
    ASSUME NEW M, NEW f \in [M -> Nat], NEW S \in SUBSET M, NEW x \in S,
           IsFiniteSet(UnitsOf(f, S \ {x}))
    PROVE /\ IsFiniteSet(UnitsOf(f, S))
          /\ Cardinality(UnitsOf(f, S)) = f[x] + Cardinality(UnitsOf(f, S \ {x}))
<1> DEFINE one == {x} \X (1 .. f[x])
           rest == UnitsOf(f, S \ {x})
<1>1. f[x] \in Nat
    OBVIOUS
<1>2. IsFiniteSet(one) /\ Cardinality(one) = f[x]
  <2>1. IsFiniteSet({x}) /\ Cardinality({x}) = 1
      BY FS_Singleton
  <2>2. IsFiniteSet(1 .. f[x]) /\ Cardinality(1 .. f[x]) = f[x]
      BY <1>1, FS_Interval
  <2>3. IsFiniteSet(one) /\ Cardinality(one) = 1 * f[x]
      BY <2>1, <2>2, FS_Product
  <2> QED
      BY <1>1, <2>3
<1>3. UnitsOf(f, S) = one \cup rest
    BY <1>1 DEF UnitsOf
<1>4. one \cap rest = {}
    BY DEF UnitsOf
<1>5. Cardinality({}) = 0 /\ IsFiniteSet(rest)
    BY FS_EmptySet
<1> HIDE DEF one, rest
<1>6. /\ IsFiniteSet(one \cup rest)
      /\ Cardinality(one \cup rest) = Cardinality(one) + Cardinality(rest) - 0
  <2>1. /\ IsFiniteSet(one \cup rest)
        /\ Cardinality(one \cup rest)
             = Cardinality(one) + Cardinality(rest) - Cardinality(one \cap rest)
      BY <1>2, <1>5, FS_Union
  <2>2. Cardinality(one \cap rest) = 0
      BY <1>4, <1>5
  <2> QED
      BY <2>1, <2>2
<1>7. Cardinality(rest) \in Nat
    BY FS_CardinalityType DEF rest
<1> QED
    BY <1>1, <1>2, <1>3, <1>6, <1>7 DEF rest

LEMMA UnitsFinite ==
    ASSUME NEW M, IsFiniteSet(M), NEW f \in [M -> Nat], NEW S \in SUBSET M
    PROVE IsFiniteSet(UnitsOf(f, S))
<1> DEFINE Bad == {T \in SUBSET M : ~IsFiniteSet(UnitsOf(f, T))}
<1>1. SUFFICES ASSUME Bad # {} PROVE FALSE
    OBVIOUS
<1>2. PICK X \in Bad : \A Y \in Bad : Y \subseteq X => Y = X
  <2>1. Bad \subseteq SUBSET M
      OBVIOUS
  <2> HIDE DEF Bad
  <2> QED
      BY <1>1, <2>1, SmallestSet
<1>3. CASE X = {}
  <2>1. UnitsOf(f, {}) = {}
      BY DEF UnitsOf
  <2> QED
      BY <1>2, <1>3, <2>1, FS_EmptySet
<1>4. CASE X # {}
  <2>1. PICK x \in X : TRUE
      BY <1>4
  <2>2. X \ {x} \notin Bad
      BY <1>2, <2>1
  <2>3. IsFiniteSet(UnitsOf(f, X \ {x}))
      BY <2>2
  <2> QED
      BY <2>3, UnitsAdd
<1> QED
    BY <1>3, <1>4

LEMMA CostIsUnits ==
    ASSUME NEW M, IsFiniteSet(M), NEW f \in [M -> Nat], NEW S \in SUBSET M
    PROVE Cost(f, S) = Cardinality(UnitsOf(f, S))
<1> DEFINE pick(s) == CHOOSE x \in s : TRUE
           Grow(h) == [s \in SUBSET S |-> IF s = {} THEN 0
                                          ELSE f[CHOOSE x \in s : TRUE]
                                               + h[s \ {CHOOSE x \in s : TRUE}]]
           w == [s \in SUBSET S |-> Cardinality(UnitsOf(f, s))]
           g == CHOOSE iter : iter = Grow(iter)
<1>1. Cost(f, S) = g[S]
    BY DEF Cost, MapThenSumSet, MapThenFoldSet
<1>2. ASSUME NEW s \in SUBSET S, s # {}
      PROVE w[s] = f[pick(s)] + w[s \ {pick(s)}]
  <2>1. pick(s) \in s /\ s \in SUBSET M /\ s \ {pick(s)} \in SUBSET M
      BY <1>2
  <2>2. IsFiniteSet(UnitsOf(f, s \ {pick(s)}))
      BY <2>1, UnitsFinite
  <2> HIDE DEF pick
  <2>3. Cardinality(UnitsOf(f, s)) = f[pick(s)] + Cardinality(UnitsOf(f, s \ {pick(s)}))
      BY <2>1, <2>2, UnitsAdd
  <2> QED
      BY <2>1, <2>3
<1>3. w[{}] = 0
  <2>1. UnitsOf(f, {}) = {}
      BY DEF UnitsOf
  <2> QED
      BY <2>1, FS_EmptySet
<1>4. w = Grow(w)
  <2>1. DOMAIN Grow(w) = SUBSET S /\ DOMAIN w = SUBSET S
      OBVIOUS
  <2>2. \A s \in SUBSET S : w[s] = Grow(w)[s]
      BY <1>2, <1>3
  <2>3. w = [s \in SUBSET S |-> w[s]] /\ Grow(w) = [s \in SUBSET S |-> Grow(w)[s]]
      OBVIOUS
  <2> HIDE DEF w, Grow
  <2> QED
      BY <2>2, <2>3
<1> HIDE DEF w
<1>5. g = Grow(g)
    BY <1>4
<1> HIDE DEF g
<1> DEFINE Bad == {s \in SUBSET S : g[s] # w[s]}
<1>6. Bad = {}
  <2>1. SUFFICES ASSUME Bad # {} PROVE FALSE
      OBVIOUS
  <2>2. IsFiniteSet(S)
      BY FS_Subset
  <2>3. PICK X \in Bad : \A Y \in Bad : Y \subseteq X => Y = X
    <3>1. Bad \subseteq SUBSET S
        OBVIOUS
    <3> HIDE DEF Bad
    <3> QED
        BY <2>1, <2>2, <3>1, SmallestSet
  <2>4. g[{}] = 0
      BY <1>5
  <2>5. X # {} /\ pick(X) \in X
      BY <1>3, <2>3, <2>4
  <2>6. g[X] = f[pick(X)] + g[X \ {pick(X)}]
      BY <1>5, <2>3, <2>5
  <2>7. w[X] = f[pick(X)] + w[X \ {pick(X)}]
      BY <1>2, <2>3, <2>5
  <2> HIDE DEF pick
  <2>8. X \ {pick(X)} \in SUBSET S /\ X \ {pick(X)} \notin Bad
      BY <2>3, <2>5
  <2>9. g[X \ {pick(X)}] = w[X \ {pick(X)}]
      BY <2>8
  <2> QED
      BY <2>3, <2>6, <2>7, <2>9
<1>7. g[S] = w[S]
    BY <1>6
<1> QED
    BY <1>1, <1>7 DEF w

\* Taking a day away takes its share.
LEMMA CostSplit ==
    ASSUME NEW M, IsFiniteSet(M), NEW f \in [M -> Nat], NEW S \in SUBSET M
    PROVE /\ Cost(f, S) \in Nat /\ Cost(f, {}) = 0
          /\ \A x \in S : Cost(f, S) = f[x] + Cost(f, S \ {x})
<1>1. Cost(f, S) \in Nat
    BY CostIsUnits, UnitsFinite, FS_CardinalityType
<1>2. Cost(f, {}) = 0
  <2>1. UnitsOf(f, {}) = {}
      BY DEF UnitsOf
  <2>2. Cost(f, {}) = Cardinality(UnitsOf(f, {}))
      BY CostIsUnits
  <2> QED
      BY <2>1, <2>2, FS_EmptySet
<1>3. ASSUME NEW x \in S PROVE Cost(f, S) = f[x] + Cost(f, S \ {x})
    BY CostIsUnits, UnitsFinite, UnitsAdd
<1> QED
    BY <1>1, <1>2, <1>3

\* More days, each as dear or dearer, cost no less.
LEMMA CostGrows ==
    ASSUME NEW M, IsFiniteSet(M), NEW f \in [M -> Nat], NEW h \in [M -> Nat],
           NEW S \in SUBSET M, NEW T \in SUBSET M, S \subseteq T,
           \A x \in S : f[x] <= h[x]
    PROVE Cost(f, S) <= Cost(h, T)
<1>1. UnitsOf(f, S) \subseteq UnitsOf(h, T)
  <2>1. SUFFICES ASSUME NEW p \in UnitsOf(f, S) PROVE p \in UnitsOf(h, T)
      OBVIOUS
  <2>2. p \in S \X Nat /\ 1 <= p[2] /\ p[2] <= f[p[1]]
      BY DEF UnitsOf
  <2>3. p[1] \in S /\ p[2] \in Nat /\ f[p[1]] \in Nat /\ h[p[1]] \in Nat /\ f[p[1]] <= h[p[1]]
      BY <2>2
  <2>4. p[2] <= h[p[1]]
      BY <2>2, <2>3
  <2> QED
      BY <2>2, <2>4 DEF UnitsOf
<1>2. IsFiniteSet(UnitsOf(h, T))
    BY UnitsFinite
<1>3. Cardinality(UnitsOf(f, S)) <= Cardinality(UnitsOf(h, T))
    BY <1>1, <1>2, FS_Subset
<1> QED
    BY <1>3, CostIsUnits

LEMMA CostTake ==
    ASSUME NEW M, IsFiniteSet(M), NEW f \in [M -> Nat], NEW S \in SUBSET M, NEW x \in S
    PROVE Cost(f, S) = f[x] + Cost(f, S \ {x})
BY CostSplit

\* What one day more costs is added to every sum that day is in.
LEMMA CostBump ==
    ASSUME NEW M, IsFiniteSet(M), NEW f \in [M -> Nat], NEW x \in M, NEW c \in Nat,
           NEW h \in [M -> Nat], h[x] = f[x] + c, \A y \in M \ {x} : h[y] = f[y],
           NEW S \in SUBSET M
    PROVE /\ x \in S => Cost(h, S) = Cost(f, S) + c
          /\ x \notin S => Cost(h, S) = Cost(f, S)
<1>1. \A T \in SUBSET M : Cost(h, T) \in Nat /\ Cost(f, T) \in Nat
    BY CostSplit
<1>2. ASSUME NEW T \in SUBSET M, x \notin T PROVE Cost(h, T) = Cost(f, T)
  <2>1. \A y \in T : h[y] <= f[y] /\ f[y] <= h[y]
      BY <1>2
  <2>2. Cost(h, T) <= Cost(f, T) /\ Cost(f, T) <= Cost(h, T)
      BY <2>1, CostGrows
  <2>3. Cost(h, T) \in Nat /\ Cost(f, T) \in Nat
      BY <1>1
  <2> QED
      BY <2>2, <2>3
<1>3. ASSUME x \in S PROVE Cost(h, S) = Cost(f, S) + c
  <2>1. Cost(h, S) = h[x] + Cost(h, S \ {x})
      BY <1>3, CostTake
  <2>2. Cost(f, S) = f[x] + Cost(f, S \ {x})
      BY <1>3, CostTake
  <2>3. Cost(h, S \ {x}) = Cost(f, S \ {x}) /\ Cost(f, S \ {x}) \in Nat
      BY <1>1, <1>2
  <2> QED
      BY <2>1, <2>2, <2>3
<1> QED
    BY <1>2, <1>3

-----------------------------------------------------------------------------
(* Days and months. *)

LEMMA DaysFinite == IsFiniteSet(Days)
BY SpendAssumption, FS_Interval DEF Days

LEMMA Starts ==
    ASSUME NEW d \in Nat
    PROVE /\ MonthStart(d) \in Nat /\ MonthStart(d) <= d /\ d < MonthStart(d) + SpendMonth
          /\ MonthStart(d) = SpendMonth * (d \div SpendMonth) /\ d \div SpendMonth \in Nat
<1>1. SpendMonth \in Nat \ {0}
    BY SpendAssumption
<1>2. d % SpendMonth \in 0 .. (SpendMonth - 1)
    BY <1>1
<1>3. d = SpendMonth * (d \div SpendMonth) + (d % SpendMonth)
    BY <1>1
<1>4. d \div SpendMonth \in Nat
    BY <1>1
<1> QED
    BY <1>1, <1>2, <1>3, <1>4 DEF MonthStart

LEMMA OneQuotient ==
    ASSUME NEW k \in Nat \ {0}, NEW a \in Nat, NEW b \in Nat, k * a < k * b + k
    PROVE a <= b
<1>1. SUFFICES ASSUME a >= b + 1 PROVE FALSE
    OBVIOUS
<1>2. PICK c \in Nat : a = b + 1 + c
  <2>1. a - (b + 1) \in Nat
      BY <1>1
  <2> QED
      BY <2>1
<1>3. k * a = k * b + k + k * c
    BY <1>2
<1>4. k * c \in Nat /\ k * b \in Nat
    OBVIOUS
<1> QED
    BY <1>3, <1>4

\* Days between two of a month are of that month.
LEMMA MonthsConnect ==
    ASSUME NEW d \in Nat, NEW e \in Nat, NEW g \in Nat, e <= d, d <= g,
           MonthStart(e) = MonthStart(g)
    PROVE MonthStart(d) = MonthStart(g)
<1>1. SpendMonth \in Nat \ {0}
    BY SpendAssumption
<1> DEFINE p == d \div SpendMonth
           q == g \div SpendMonth
<1>2. /\ p \in Nat /\ q \in Nat /\ MonthStart(d) = SpendMonth * p /\ MonthStart(g) = SpendMonth * q
      /\ MonthStart(d) <= d /\ d < MonthStart(d) + SpendMonth
      /\ MonthStart(g) <= g /\ g < MonthStart(g) + SpendMonth
      /\ MonthStart(e) <= e /\ MonthStart(d) \in Nat /\ MonthStart(g) \in Nat
    BY Starts
<1> HIDE DEF p, q
<1>3. SpendMonth * p < SpendMonth * q + SpendMonth
    BY <1>1, <1>2
<1>4. SpendMonth * q < SpendMonth * p + SpendMonth
    BY <1>1, <1>2
<1>5. p <= q /\ q <= p
    BY <1>1, <1>2, <1>3, <1>4, OneQuotient
<1> QED
    BY <1>2, <1>5
-----------------------------------------------------------------------------
(* The budget: the invariant. *)

AskFields == {"pc", "cap", "month", "day", "cost", "over", "overKey"}
AskSteps == {"idle", "daily", "monthly", "key", "keyMonthly", "call", "track"}
AskTyped(q) ==
    /\ DOMAIN q = AskFields
    /\ q.pc \in AskSteps /\ q.cap \in Nat /\ q.month \in Nat /\ q.cost \in {0, 1}
    /\ q.day \in Nat /\ q.day <= spendDay /\ q.over \subseteq {"day", "month"}

ThisMonth(d) == MonthStart(d) = MonthStart(spendDay)
Spent(ds) == Cost(bucket, ds)

\* A cap that was read today, or this month, is none above the peak.
UnderPeak(q) ==
    /\ q.pc = "daily" /\ q.day = spendDay => Ceiling(q.cap) <= peak.day
    /\ q.pc = "daily" /\ ThisMonth(q.day) => Ceiling(q.month) <= peak.month
    /\ q.pc = "monthly" /\ ThisMonth(q.day) => Ceiling(q.cap) <= peak.month

\* A check that began beyond a global cap still meets it.
StillOver(q) ==
    /\ "day" \in q.over =>
         /\ q.pc = "daily"
         /\ Reached(Spent(Since(q.day)), q.cap)
    /\ "month" \in q.over =>
         /\ q.pc \in {"daily", "monthly"}
         /\ q.pc = "daily" => Reached(Spent(Since(MonthStart(q.day))), q.month)
         /\ q.pc = "monthly" => Reached(Spent(Since(MonthStart(q.day))), q.cap)

\* Who is checked, who is spending, and who may still spend whatever is spent today
\* or this month.
Checks(q) == q.pc \in {"daily", "monthly", "key", "keyMonthly"}
Spends(q) == q.pc \in {"call", "track"}
DayLate(q) ==
    \/ Spends(q) \/ q.pc \in {"monthly", "key", "keyMonthly"}
    \/ q.pc = "daily" /\ q.day # spendDay
MonthLate(q) ==
    \/ Spends(q) \/ q.pc \in {"key", "keyMonthly"}
    \/ q.pc \in {"daily", "monthly"} /\ ~ThisMonth(q.day)
Checking == {r \in Overflows : Checks(ask[r])}
Spending == {r \in Overflows : Spends(ask[r])}
LateToday == {r \in Overflows : DayLate(ask[r])}
LateThisMonth == {r \in Overflows : MonthLate(ask[r])}

SpendTyped ==
    /\ spendDay \in Days /\ sent \in Nat
    /\ caps \in [day : Nat, month : Nat, keyDay : Nat, keyMonth : Nat]
    /\ peak \in [day : Nat, month : Nat]
    /\ paid \in [day : Nat, month : Nat] /\ failures \in [day : Nat, month : Nat]
    /\ Ceiling(caps.day) <= peak.day /\ Ceiling(caps.month) <= peak.month
    /\ bucket \in [Days -> Nat] /\ \A d \in Days : d > spendDay => bucket[d] = 0
    /\ ask = [r \in Overflows |-> ask[r]]
Asking ==
    \A r \in Overflows : AskTyped(ask[r]) /\ UnderPeak(ask[r]) /\ StillOver(ask[r])

\* No call without a check, and no cost without a call.
CallsCounted ==
    /\ sent + Cardinality(Checking) <= MaxCalls + Cardinality(Overflows)
    /\ Spent(Days) + Cardinality(Spending) <= sent

\* Once a peak is reached, only those who may still spend do.
Overrun(spent, top, late) ==
    \/ top > MaxCalls
    \/ spent < top
    \/ spent + Cardinality(late) <= top + Cardinality(Overflows) - 1

\* Every failure lets one request pass or leaves one cost out of the sums.
Unwritten(span, spent) == paid[span] - spent
Top(span, spent) == peak[span] + (failures[span] - Unwritten(span, spent))
Fits(span, spent, late) ==
    /\ Unwritten(span, spent) \in 0 .. failures[span]
    /\ Overrun(spent, Top(span, spent), late)
DayFits == Fits("day", bucket[spendDay], LateToday)
MonthFits == Fits("month", Spent(MonthOf(spendDay)), LateThisMonth)

SpendInv == SpendTyped /\ Asking /\ CallsCounted /\ DayFits /\ MonthFits

-----------------------------------------------------------------------------
(* What is known of sums and of sets of requests. *)

LEMMA SpentKnown ==
    ASSUME SpendTyped, NEW S \in SUBSET Days
    PROVE /\ Spent(S) \in Nat
          /\ \A T \in SUBSET S : Spent(T) \in Nat /\ Spent(T) <= Spent(S)
          /\ \A d \in S : bucket[d] \in Nat /\ bucket[d] <= Spent(S)
<1>1. bucket \in [Days -> Nat]
    BY DEF SpendTyped
<1>2. Cost(bucket, S) \in Nat
    BY <1>1, DaysFinite, CostSplit
<1>3. ASSUME NEW T \in SUBSET S PROVE Cost(bucket, T) \in Nat /\ Cost(bucket, T) <= Cost(bucket, S)
  <2>1. T \in SUBSET Days /\ T \subseteq S /\ \A x \in T : bucket[x] <= bucket[x]
      BY <1>1
  <2> QED
      BY <1>1, <2>1, DaysFinite, CostSplit, CostGrows
<1>4. ASSUME NEW d \in S PROVE bucket[d] \in Nat /\ bucket[d] <= Cost(bucket, S)
  <2>1. Cost(bucket, S) = bucket[d] + Cost(bucket, S \ {d})
      BY <1>1, DaysFinite, CostSplit
  <2>2. Cost(bucket, S \ {d}) \in Nat /\ bucket[d] \in Nat
      BY <1>1, <1>3
  <2> QED
      BY <2>1, <2>2
<1> QED
    BY <1>2, <1>3, <1>4 DEF Spent

LEMMA Counts ==
    ASSUME NEW S \in SUBSET Overflows, NEW r \in Overflows
    PROVE /\ Cardinality(S) \in Nat /\ Cardinality(Overflows) \in Nat
          /\ Cardinality(S) <= Cardinality(Overflows)
          /\ Cardinality(S \cup {r}) <= Cardinality(S) + 1
          /\ r \in S => Cardinality(S \ {r}) = Cardinality(S) - 1
          /\ r \notin S => Cardinality(S) <= Cardinality(Overflows) - 1
<1>1. IsFiniteSet(Overflows) /\ IsFiniteSet(S)
    BY SpendAssumption, FS_Subset
<1>2. Cardinality(S) \in Nat /\ Cardinality(Overflows) \in Nat
    BY <1>1, FS_CardinalityType
<1>3. \A T \in SUBSET Overflows : Cardinality(T) <= Cardinality(Overflows)
    BY <1>1, FS_Subset
<1>4. Cardinality(S \cup {r}) = IF r \in S THEN Cardinality(S) ELSE Cardinality(S) + 1
    BY <1>1, FS_AddElement
<1>5. Cardinality(S \ {r}) = IF r \in S THEN Cardinality(S) - 1 ELSE Cardinality(S)
    BY <1>1, FS_RemoveElement
<1>6. ASSUME r \notin S PROVE Cardinality(S) <= Cardinality(Overflows) - 1
  <2>1. Cardinality(S \cup {r}) = Cardinality(S) + 1 /\ S \cup {r} \in SUBSET Overflows
      BY <1>4, <1>6
  <2>2. Cardinality(S) + 1 <= Cardinality(Overflows)
      BY <1>3, <2>1
  <2> QED
      BY <1>2, <2>2
<1> QED
    BY <1>2, <1>3, <1>4, <1>5, <1>6

LEMMA SetMoves ==
    ASSUME NEW S \in SUBSET Overflows, NEW T \in SUBSET Overflows, NEW r \in Overflows, NEW b \in BOOLEAN,
           T = IF b THEN S \cup {r} ELSE S \ {r}
    PROVE /\ b => Cardinality(T) <= Cardinality(S) + 1
          /\ b /\ r \in S => Cardinality(T) = Cardinality(S)
          /\ ~b => Cardinality(T) <= Cardinality(S)
          /\ ~b /\ r \in S => Cardinality(T) = Cardinality(S) - 1
<1>1. Cardinality(S) \in Nat
    BY Counts
<1>2. CASE b /\ r \in S
  <2>1. T = S
      BY <1>2
  <2> QED
      BY <1>1, <1>2, <2>1
<1>3. CASE b /\ r \notin S
  <2>1. T = S \cup {r}
      BY <1>3
  <2>2. Cardinality(S \cup {r}) <= Cardinality(S) + 1
      BY Counts
  <2> QED
      BY <1>3, <2>1, <2>2
<1>4. CASE ~b /\ r \in S
  <2>1. T = S \ {r}
      BY <1>4
  <2>2. Cardinality(S \ {r}) = Cardinality(S) - 1
      BY <1>4, Counts
  <2> QED
      BY <1>1, <1>4, <2>1, <2>2
<1>5. CASE ~b /\ r \notin S
  <2>1. T = S
      BY <1>5
  <2>2. Cardinality(T) = Cardinality(S)
      BY <2>1, Zenon
  <2> QED
      BY <1>1, <1>5, <2>2
<1> QED
    BY <1>2, <1>3, <1>4, <1>5

LEMMA MonthSince ==
    ASSUME NEW d \in Days
    PROVE /\ MonthOf(d) \subseteq Since(MonthStart(d)) /\ Since(MonthStart(d)) \subseteq Days
          /\ d \in Since(d) /\ Since(d) \subseteq Days /\ d \in MonthOf(d) /\ MonthOf(d) \subseteq Days
<1>1. Days \subseteq Nat
    BY SpendAssumption DEF Days
<1>2. \A e \in Days : MonthStart(e) \in Nat /\ MonthStart(e) <= e
    BY <1>1, Starts
<1>3. \A e \in Days : e >= e
    BY <1>1
<1>4. \A e \in Days : MonthStart(e) = MonthStart(d) => e >= MonthStart(d)
    BY <1>1, <1>2
<1> HIDE DEF MonthStart
<1> QED
    BY <1>3, <1>4 DEF MonthOf, Since
LEMMA NothingSpent ==
    ASSUME SpendTyped, NEW S \in SUBSET Days, \A d \in S : bucket[d] = 0
    PROVE Spent(S) = 0
<1>1. UnitsOf(bucket, S) = {}
    BY DEF UnitsOf
<1>2. Cost(bucket, S) = Cardinality(UnitsOf(bucket, S))
    BY DaysFinite, CostIsUnits DEF SpendTyped
<1> QED
    BY <1>1, <1>2, FS_EmptySet DEF Spent

LEMMA Ceilings ==
    ASSUME NEW c \in Nat
    PROVE /\ Ceiling(c) \in Nat \ {0} /\ MaxCalls \in Nat
          /\ c = 0 => Ceiling(c) > MaxCalls
          /\ \A s \in Nat : ~Reached(s, c) => Ceiling(c) > MaxCalls \/ s < Ceiling(c)
BY SpendAssumption DEF Ceiling, Reached

LEMMA RestingGood ==
    ASSUME SpendTyped
    PROVE /\ AskTyped(Resting) /\ UnderPeak(Resting) /\ StillOver(Resting)
          /\ ~Checks(Resting) /\ ~Spends(Resting) /\ ~DayLate(Resting) /\ ~MonthLate(Resting)
<1>1. spendDay \in Nat
    BY SpendAssumption DEF SpendTyped, Days
<1> QED
    BY <1>1 DEF Resting, AskTyped, AskFields, AskSteps, UnderPeak, StillOver, Checks, Spends,
       DayLate, MonthLate

LEMMA SpendInitially == ASSUME SpendInit PROVE SpendInv
<1>1. SpendTyped
  <2>1. caps \in [day : Nat, month : Nat, keyDay : Nat, keyMonth : Nat]
      BY SpendAssumption DEF SpendInit
  <2>2. Ceiling(caps.day) \in Nat /\ Ceiling(caps.month) \in Nat
      BY <2>1, Ceilings
  <2>3. 0 \in Days
      BY SpendAssumption DEF Days
  <2> QED
      BY <2>1, <2>2, <2>3 DEF SpendInit, SpendTyped
<1>2. \A r \in Overflows : ask[r] = Resting
    BY DEF SpendInit
<1>3. Asking
    BY <1>1, <1>2, RestingGood DEF Asking
<1>4. Checking = {} /\ Spending = {} /\ LateToday = {} /\ LateThisMonth = {}
    BY <1>1, <1>2, RestingGood DEF Checking, Spending, LateToday, LateThisMonth
<1>5. Cardinality(Overflows) \in Nat /\ MaxCalls \in Nat
    BY SpendAssumption, FS_CardinalityType
<1>6. \A d \in Days : bucket[d] = 0
    BY DEF SpendInit
<1>7. spendDay \in Days /\ MonthOf(spendDay) \subseteq Days
    BY <1>1, MonthSince DEF SpendTyped
<1>8. Spent(Days) = 0 /\ Spent(MonthOf(spendDay)) = 0
    BY <1>1, <1>6, <1>7, NothingSpent
<1>9. CallsCounted
    BY <1>4, <1>5, <1>8, FS_EmptySet DEF CallsCounted, SpendInit
<1>10. peak.day \in Nat \ {0} /\ peak.month \in Nat \ {0}
    BY <1>1, Ceilings DEF SpendInit, SpendTyped
<1>11. DayFits /\ MonthFits
  <2>1. peak.day \in Nat /\ peak.month \in Nat /\ paid["day"] = 0 /\ paid["month"] = 0
        /\ failures["day"] = 0 /\ failures["month"] = 0
      BY <1>10 DEF SpendInit
  <2>2. Fits("day", 0, LateToday) /\ Fits("month", 0, LateThisMonth)
      BY <1>10, <2>1 DEF Fits, Unwritten, Top, Overrun
  <2> QED
      BY <1>6, <1>7, <1>8, <2>2 DEF DayFits, MonthFits
<1> QED
    BY <1>1, <1>3, <1>9, <1>11 DEF SpendInv

\* Where the sum rises by what the set of those who may still spend falls.
LEMMA OverrunKept ==
    ASSUME NEW s \in Nat, NEW t \in Nat, NEW p \in Nat, NEW L \in SUBSET Overflows,
           NEW K \in SUBSET Overflows, NEW r \in Overflows, Overrun(s, p, L),
           \/ t = s /\ K \subseteq L
           \/ t = s /\ (p > MaxCalls \/ s < p)
           \/ t <= s + 1 /\ r \in L /\ K = L \ {r}
    PROVE Overrun(t, p, K)
<1>1. IsFiniteSet(Overflows) /\ IsFiniteSet(L) /\ MaxCalls \in Nat
    BY SpendAssumption, FS_Subset
<1>2. Cardinality(L) \in Nat /\ Cardinality(K) \in Nat /\ Cardinality(Overflows) \in Nat
    BY Counts
<1>3. CASE t = s /\ K \subseteq L
  <2>1. Cardinality(K) <= Cardinality(L)
      BY <1>1, <1>3, FS_Subset
  <2> QED
      BY <1>1, <1>2, <1>3, <2>1 DEF Overrun
<1>4. CASE t = s /\ (p > MaxCalls \/ s < p)
    BY <1>4 DEF Overrun
<1>5. CASE t <= s + 1 /\ r \in L /\ K = L \ {r}
  <2>1. r \notin K /\ Cardinality(K) = Cardinality(L) - 1
        /\ Cardinality(K) <= Cardinality(Overflows) - 1
      BY <1>5, Counts
  <2> QED
      BY <1>1, <1>2, <1>5, <2>1 DEF Overrun
<1> QED
    BY <1>3, <1>4, <1>5

\* One more may spend where the peak rises.
LEMMA OneJoins ==
    ASSUME NEW s \in Nat, NEW p \in Nat, NEW t \in Nat, NEW L \in SUBSET Overflows,
           NEW K \in SUBSET Overflows, NEW r \in Overflows, Overrun(s, p, L), t > p,
           K \subseteq L \cup {r}
    PROVE Overrun(s, t, K)
<1>1. IsFiniteSet(Overflows) /\ MaxCalls \in Nat /\ L \cup {r} \in SUBSET Overflows
    BY SpendAssumption
<1>2. Cardinality(L) \in Nat /\ Cardinality(K) \in Nat /\ Cardinality(Overflows) \in Nat
      /\ Cardinality(L \cup {r}) \in Nat /\ Cardinality(L \cup {r}) <= Cardinality(L) + 1
    BY <1>1, Counts
<1>3. Cardinality(K) <= Cardinality(L \cup {r})
    BY <1>1, FS_Subset
<1> QED
    BY <1>1, <1>2, <1>3 DEF Overrun

\* What is known of a sum, of what is missing in it and of the peak above it.
LEMMA FitsKnown ==
    ASSUME SpendInv, NEW span \in {"day", "month"}, NEW s \in Nat, NEW L, Fits(span, s, L)
    PROVE /\ peak[span] \in Nat /\ failures[span] \in Nat /\ Unwritten(span, s) \in Nat
          /\ Unwritten(span, s) <= failures[span] /\ Top(span, s) \in Nat
          /\ peak[span] <= Top(span, s) /\ Overrun(s, Top(span, s), L)
<1>1. peak[span] \in Nat /\ failures[span] \in Nat /\ paid[span] \in Nat
    BY DEF SpendInv, SpendTyped
<1>2. Unwritten(span, s) \in 0 .. failures[span] /\ Overrun(s, Top(span, s), L)
    BY DEF Fits
<1> HIDE DEF Unwritten
<1> QED
    BY <1>1, <1>2 DEF Top

\* The same when a request goes on.
LEMMA FitsStay ==
    ASSUME SpendInv, NEW span \in {"day", "month"}, NEW s \in Nat, NEW L \in SUBSET Overflows,
           NEW K \in SUBSET Overflows, NEW r \in Overflows, Fits(span, s, L),
           peak'[span] = peak[span], paid'[span] = paid[span], failures'[span] \in Nat,
           \/ failures'[span] = failures[span]
              /\ (K \subseteq L \/ peak[span] > MaxCalls \/ s < peak[span])
           \/ failures'[span] = failures[span] + 1 /\ K \subseteq L \cup {r}
    PROVE /\ (paid'[span] - s) \in 0 .. failures'[span]
          /\ Overrun(s, peak'[span] + (failures'[span] - (paid'[span] - s)), K)
<1> DEFINE u == Unwritten(span, s)
           p == Top(span, s)
           t == peak'[span] + (failures'[span] - (paid'[span] - s))
<1>1. /\ peak[span] \in Nat /\ failures[span] \in Nat /\ u \in Nat /\ u <= failures[span]
      /\ p \in Nat /\ peak[span] <= p /\ Overrun(s, p, L) /\ MaxCalls \in Nat
    BY FitsKnown, SpendAssumption
<1>2. u = paid'[span] - s /\ p = peak[span] + (failures[span] - u)
      /\ t = peak[span] + (failures'[span] - u)
    BY DEF Unwritten, Top
<1> HIDE DEF u, p, t
<1>3. (paid'[span] - s) \in 0 .. failures'[span]
    BY <1>1, <1>2
<1>4. CASE failures'[span] = failures[span]
           /\ (K \subseteq L \/ peak[span] > MaxCalls \/ s < peak[span])
  <2>1. t = p
      BY <1>1, <1>2, <1>4
  <2>2. K \subseteq L \/ p > MaxCalls \/ s < p
      BY <1>1, <1>4
  <2>3. Overrun(s, p, K)
      BY <1>1, <2>2, OverrunKept
  <2> QED
      BY <1>3, <2>1, <2>3 DEF t
<1>5. CASE failures'[span] = failures[span] + 1 /\ K \subseteq L \cup {r}
  <2>1. t \in Nat /\ t > p
      BY <1>1, <1>2, <1>5
  <2>2. Overrun(s, t, K)
      BY <1>1, <1>5, <2>1, OneJoins
  <2> QED
      BY <1>3, <2>2 DEF t
<1> QED
    BY <1>4, <1>5

\* A request goes on; nothing is spent, and nothing is settled.  A sum that cannot be
\* read lets it go on whatever is spent.
LEMMA OneMoves ==
    ASSUME SpendInv, NEW r \in Overflows, NEW q, ask' = [ask EXCEPT ![r] = q],
           UNCHANGED <<spendDay, caps, bucket, peak, paid>>,
           failures' \in [day : Nat, month : Nat],
           failures'.day \in {failures.day, failures.day + 1},
           failures'.month \in {failures.month, failures.month + 1},
           AskTyped(q), UnderPeak(q), StillOver(q),
           \/ sent' = sent /\ (Spends(q) => Spends(ask[r]))
                           /\ (Checks(q) => Checks(ask[r]) \/ sent < MaxCalls)
           \/ sent' = sent + 1 /\ Checks(ask[r]) /\ ~Checks(q),
           DayLate(q) => DayLate(ask[r]) \/ peak.day > MaxCalls \/ bucket[spendDay] < peak.day
                                         \/ failures'.day = failures.day + 1,
           MonthLate(q) => MonthLate(ask[r]) \/ peak.month > MaxCalls
                                             \/ Spent(MonthOf(spendDay)) < peak.month
                                             \/ failures'.month = failures.month + 1
    PROVE SpendInv'
<1>1. SpendTyped /\ Asking /\ CallsCounted /\ DayFits /\ MonthFits
    BY DEF SpendInv
<1>2. sent \in Nat /\ sent' \in Nat /\ MaxCalls \in Nat
    BY <1>1, SpendAssumption DEF SpendTyped
<1>3. ask' = [s \in Overflows |-> IF s = r THEN q ELSE ask[s]] /\ ask' = [s \in Overflows |-> ask'[s]]
    BY <1>1 DEF SpendTyped
<1>4. SpendTyped'
    BY <1>1, <1>2, <1>3 DEF SpendTyped
<1>5. Asking'
    BY <1>1, <1>3 DEF Asking, AskTyped, UnderPeak, StillOver, ThisMonth, Spent
<1>6. /\ Checking' = IF Checks(q) THEN Checking \cup {r} ELSE Checking \ {r}
      /\ Spending' = IF Spends(q) THEN Spending \cup {r} ELSE Spending \ {r}
      /\ r \in Checking <=> Checks(ask[r])
      /\ r \in Spending <=> Spends(ask[r])
    BY <1>3 DEF Checking, Spending, Checks, Spends
<1>7. /\ LateToday' = IF DayLate(q) THEN LateToday \cup {r} ELSE LateToday \ {r}
      /\ r \in LateToday <=> DayLate(ask[r])
    BY <1>3 DEF LateToday, DayLate, Spends
<1>8. /\ LateThisMonth' = IF MonthLate(q) THEN LateThisMonth \cup {r} ELSE LateThisMonth \ {r}
      /\ r \in LateThisMonth <=> MonthLate(ask[r])
    BY <1>3 DEF LateThisMonth, MonthLate, Spends, ThisMonth
<1>9. /\ Checking \in SUBSET Overflows /\ Spending \in SUBSET Overflows
      /\ LateToday \in SUBSET Overflows /\ LateThisMonth \in SUBSET Overflows
      /\ Checking' \in SUBSET Overflows /\ Spending' \in SUBSET Overflows
      /\ LateToday' \in SUBSET Overflows /\ LateThisMonth' \in SUBSET Overflows
    BY DEF Checking, Spending, LateToday, LateThisMonth
<1>10. /\ Spent(Days)' = Spent(Days) /\ Spent(MonthOf(spendDay))' = Spent(MonthOf(spendDay))
    BY DEF Spent, MonthOf
<1>11. spendDay \in Days /\ MonthOf(spendDay) \in SUBSET Days
    BY <1>1, MonthSince DEF SpendTyped
<1>12. Spent(Days) \in Nat /\ Spent(MonthOf(spendDay)) \in Nat /\ bucket[spendDay] \in Nat
    BY <1>1, <1>11, SpentKnown
<1>13. DayFits'
  <2>1. /\ peak'["day"] = peak["day"] /\ paid'["day"] = paid["day"] /\ failures'["day"] \in Nat
        /\ bucket'[spendDay'] = bucket[spendDay]
      BY <1>1 DEF SpendTyped
  <2>2. \/ failures'["day"] = failures["day"]
           /\ (\/ LateToday' \subseteq LateToday
               \/ peak["day"] > MaxCalls \/ bucket[spendDay] < peak["day"])
        \/ failures'["day"] = failures["day"] + 1 /\ LateToday' \subseteq LateToday \cup {r}
      BY <1>7
  <2> DEFINE s == bucket[spendDay]
  <2>3. s \in Nat /\ Fits("day", s, LateToday) /\ "day" \in {"day", "month"}
      BY <1>1, <1>12 DEF DayFits
  <2>4. /\ (paid'["day"] - s) \in 0 .. failures'["day"]
        /\ Overrun(s, peak'["day"] + (failures'["day"] - (paid'["day"] - s)), LateToday')
    <3> HIDE DEF s
    <3>1. \/ failures'["day"] = failures["day"]
             /\ (\/ LateToday' \subseteq LateToday
                 \/ peak["day"] > MaxCalls \/ s < peak["day"])
          \/ failures'["day"] = failures["day"] + 1 /\ LateToday' \subseteq LateToday \cup {r}
        BY <2>2 DEF s
    <3> QED
        BY <1>9, <2>1, <2>3, <3>1, FitsStay
  <2> QED
      BY <2>1, <2>4 DEF DayFits, Fits, Unwritten, Top, Overrun
<1>14. MonthFits'
  <2>1. /\ peak'["month"] = peak["month"] /\ paid'["month"] = paid["month"]
        /\ failures'["month"] \in Nat
      BY <1>1 DEF SpendTyped
  <2> DEFINE s == Spent(MonthOf(spendDay))
  <2>2. \/ failures'["month"] = failures["month"]
           /\ (\/ LateThisMonth' \subseteq LateThisMonth
               \/ peak["month"] > MaxCalls \/ s < peak["month"])
        \/ failures'["month"] = failures["month"] + 1
           /\ LateThisMonth' \subseteq LateThisMonth \cup {r}
      BY <1>8
  <2>3. s \in Nat /\ Fits("month", s, LateThisMonth) /\ "month" \in {"day", "month"}
      BY <1>1, <1>12 DEF MonthFits
  <2>4. /\ (paid'["month"] - s) \in 0 .. failures'["month"]
        /\ Overrun(s, peak'["month"] + (failures'["month"] - (paid'["month"] - s)), LateThisMonth')
    <3> HIDE DEF s
    <3> QED
        BY <1>9, <2>1, <2>2, <2>3, FitsStay
  <2>5. Spent(MonthOf(spendDay))' = s
      BY <1>10
  <2> HIDE DEF s
  <2> QED
      BY <2>4, <2>5 DEF MonthFits, Fits, Unwritten, Top, Overrun
<1>15. CallsCounted'
  <2>1. /\ Cardinality(Checking) \in Nat /\ Cardinality(Spending) \in Nat
        /\ Cardinality(Checking') \in Nat /\ Cardinality(Spending') \in Nat
        /\ Cardinality(Overflows) \in Nat /\ Cardinality(Checking') <= Cardinality(Overflows)
      BY <1>9, Counts
  <2>2. /\ Checks(q) => Cardinality(Checking') <= Cardinality(Checking) + 1
        /\ Checks(q) /\ Checks(ask[r]) => Cardinality(Checking') = Cardinality(Checking)
        /\ ~Checks(q) => Cardinality(Checking') <= Cardinality(Checking)
        /\ ~Checks(q) /\ Checks(ask[r]) => Cardinality(Checking') = Cardinality(Checking) - 1
      BY <1>6, <1>9, SetMoves
  <2>3. /\ Spends(q) => Cardinality(Spending') <= Cardinality(Spending) + 1
        /\ Spends(q) /\ Spends(ask[r]) => Cardinality(Spending') = Cardinality(Spending)
        /\ ~Spends(q) => Cardinality(Spending') <= Cardinality(Spending)
      BY <1>6, <1>9, SetMoves
  <2>4. CASE sent' = sent /\ (Spends(q) => Spends(ask[r]))
                          /\ (Checks(q) => Checks(ask[r]) \/ sent < MaxCalls)
    <3>1. Cardinality(Spending') <= Cardinality(Spending)
        BY <2>1, <2>3, <2>4
    <3>2. sent + Cardinality(Checking') <= MaxCalls + Cardinality(Overflows)
        BY <1>1, <1>2, <2>1, <2>2, <2>4 DEF CallsCounted
    <3> QED
        BY <1>1, <1>2, <1>10, <1>12, <2>1, <2>4, <3>1, <3>2 DEF CallsCounted
  <2>5. CASE sent' = sent + 1 /\ Checks(ask[r]) /\ ~Checks(q)
    <3>1. Cardinality(Checking') = Cardinality(Checking) - 1
        BY <2>2, <2>5
    <3>2. Cardinality(Spending') <= Cardinality(Spending) + 1
        BY <2>1, <2>3
    <3> QED
        BY <1>1, <1>2, <1>10, <1>12, <2>1, <2>5, <3>1, <3>2 DEF CallsCounted
  <2> QED
      BY <2>4, <2>5
<1> QED
    BY <1>4, <1>5, <1>13, <1>14, <1>15 DEF SpendInv
-----------------------------------------------------------------------------
(* The check. *)

\* What a step of a check leaves alone, and what the request is afterwards.
LEMMA AskedTyped ==
    ASSUME SpendInv, NEW r \in Overflows
    PROVE /\ SpendTyped /\ AskTyped(ask[r]) /\ UnderPeak(ask[r]) /\ StillOver(ask[r])
          /\ spendDay \in Nat /\ caps.day \in Nat /\ caps.month \in Nat /\ caps.keyMonth \in Nat
          /\ peak.day \in Nat /\ peak.month \in Nat /\ sent \in Nat /\ MaxCalls \in Nat
          /\ failures \in [day : Nat, month : Nat]
          /\ ask[r].day \in Days /\ spendDay \in Days
<1>1. SpendTyped /\ AskTyped(ask[r]) /\ UnderPeak(ask[r]) /\ StillOver(ask[r])
    BY DEF SpendInv, Asking
<1>2. spendDay \in Nat /\ Days = 0 .. SpendDays /\ SpendDays \in Nat /\ MaxCalls \in Nat
      /\ spendDay \in Days
    BY <1>1, SpendAssumption DEF SpendTyped, Days
<1>3. ask[r].day \in Days
    BY <1>1, <1>2 DEF AskTyped
<1> QED
    BY <1>1, <1>2, <1>3 DEF SpendTyped

LEMMA BeginMoves ==
    ASSUME SpendInv, NEW r \in Overflows, BeginCheck(r)
    PROVE SpendInv'
<1> DEFINE beyond == {c \in {"day"} : Reached(bucket[spendDay], caps.day)} \cup
                     {c \in {"month"} : Reached(Cost(bucket, MonthOf(spendDay)), caps.month)}
           q == [Resting EXCEPT !.pc = "daily", !.cap = caps.day, !.month = caps.month,
                                !.day = spendDay, !.over = beyond]
<1>1. /\ ask' = [ask EXCEPT ![r] = q] /\ sent < MaxCalls /\ sent' = sent
      /\ UNCHANGED <<spendDay, caps, bucket, peak, paid, failures>>
    BY DEF BeginCheck, histories
<1>2. /\ DOMAIN q = AskFields /\ q.pc = "daily" /\ q.cap = caps.day /\ q.month = caps.month
      /\ q.day = spendDay /\ q.cost = 0 /\ q.over = beyond /\ beyond \subseteq {"day", "month"}
    BY DEF Resting, AskFields
<1> HIDE DEF q
<1>3. AskTyped(q)
    BY <1>2, AskedTyped DEF AskTyped, AskSteps
<1>4. UnderPeak(q)
    BY <1>2, AskedTyped DEF UnderPeak, SpendTyped
<1>5. StillOver(q)
  <2>1. SpendTyped /\ spendDay \in Days
      BY AskedTyped
  <2>2. /\ spendDay \in Since(spendDay) /\ Since(spendDay) \in SUBSET Days
        /\ MonthOf(spendDay) \in SUBSET Since(MonthStart(spendDay))
        /\ Since(MonthStart(spendDay)) \in SUBSET Days
      BY <2>1, MonthSince
  <2>3. bucket[spendDay] \in Nat /\ bucket[spendDay] <= Spent(Since(spendDay))
        /\ Spent(Since(spendDay)) \in Nat
      BY <2>1, <2>2, SpentKnown
  <2>4. /\ Spent(MonthOf(spendDay)) \in Nat
        /\ Spent(MonthOf(spendDay)) <= Spent(Since(MonthStart(spendDay)))
        /\ Spent(Since(MonthStart(spendDay))) \in Nat
      BY <2>1, <2>2, SpentKnown
  <2>5. caps.day \in Nat /\ caps.month \in Nat
      BY AskedTyped
  <2>6. Reached(bucket[spendDay], caps.day) => Reached(Spent(Since(spendDay)), caps.day)
      BY <2>3, <2>5 DEF Reached
  <2>7. Reached(Spent(MonthOf(spendDay)), caps.month)
          => Reached(Spent(Since(MonthStart(spendDay))), caps.month)
      BY <2>4, <2>5 DEF Reached
  <2>8. /\ "day" \in beyond => Reached(bucket[spendDay], caps.day)
        /\ "month" \in beyond => Reached(Spent(MonthOf(spendDay)), caps.month)
      BY DEF Spent
  <2> HIDE DEF beyond
  <2> QED
      BY <1>2, <2>6, <2>7, <2>8 DEF StillOver
<1>6. ~Spends(q) /\ ~DayLate(q) /\ ~MonthLate(q)
    BY <1>2 DEF Spends, DayLate, MonthLate, ThisMonth
<1> QED
    BY <1>1, <1>3, <1>4, <1>5, <1>6, AskedTyped, OneMoves

LEMMA RefuseMoves ==
    ASSUME SpendInv, NEW r \in Overflows, Refuse(r),
           UNCHANGED <<spendDay, caps, bucket, histories, sent>>
    PROVE SpendInv'
<1>1. /\ SpendTyped /\ ask' = [ask EXCEPT ![r] = Resting] /\ sent' = sent
      /\ UNCHANGED <<spendDay, caps, bucket, peak, paid, failures>>
    BY DEF SpendInv, Refuse, histories
<1> QED
    BY <1>1, RestingGood, AskedTyped, OneMoves

LEMMA DailyMoves ==
    ASSUME SpendInv, NEW r \in Overflows, CheckDaily(r)
    PROVE SpendInv'
<1> DEFINE old == ask[r]
<1>1. old.pc = "daily" /\ UNCHANGED <<spendDay, caps, bucket, peak, paid, sent>>
    BY DEF CheckDaily, FailsOpen, histories
<1>2. CASE Reached(Cost(bucket, Since(old.day)), old.cap) /\ Refuse(r) /\ UNCHANGED histories
    BY <1>1, <1>2, RefuseMoves
<1>3. CASE FailsOpen(r, "day", "monthly", old.month)
  <2> DEFINE q == [old EXCEPT !.pc = "monthly", !.cap = old.month, !.month = 0, !.over = old.over \ {"day"}]
  <2>1. ask' = [ask EXCEPT ![r] = q] /\ failures' = [failures EXCEPT !["day"] = @ + 1]
      BY <1>3 DEF FailsOpen
  <2>2. AskTyped(old) /\ UnderPeak(old) /\ StillOver(old) /\ failures \in [day : Nat, month : Nat]
      BY AskedTyped
  <2>3. /\ DOMAIN q = AskFields /\ q.pc = "monthly" /\ q.cap = old.month /\ q.month = 0
        /\ q.day = old.day /\ q.cost = old.cost /\ q.over = old.over \ {"day"}
      BY <2>2 DEF AskTyped, AskFields
  <2> HIDE DEF q
  <2>4. AskTyped(q) /\ UnderPeak(q)
      BY <1>1, <2>2, <2>3 DEF AskTyped, AskSteps, UnderPeak
  <2>5. StillOver(q)
      BY <1>1, <2>2, <2>3 DEF StillOver
  <2>6. /\ failures' \in [day : Nat, month : Nat]
        /\ failures'.day \in {failures.day, failures.day + 1}
        /\ failures'.month \in {failures.month, failures.month + 1}
        /\ failures'.day = failures.day + 1
      BY <2>1, <2>2
  <2>7. MonthLate(q) => MonthLate(old)
      BY <1>1, <2>3 DEF MonthLate, DayLate, Spends
  <2>8. ~Spends(q) /\ Checks(old)
      BY <1>1, <2>3 DEF Spends, Checks
  <2> QED
      BY <1>1, <2>1, <2>4, <2>5, <2>6, <2>7, <2>8, OneMoves
<1>4. CASE ~Reached(Cost(bucket, Since(old.day)), old.cap)
           /\ SpendStep(r, "monthly", old.month) /\ UNCHANGED histories
  <2> DEFINE q == [old EXCEPT !.pc = "monthly", !.cap = old.month, !.month = 0]
  <2>1. ask' = [ask EXCEPT ![r] = q]
      BY <1>4 DEF SpendStep
  <2>2. AskTyped(old) /\ UnderPeak(old) /\ StillOver(old)
      BY AskedTyped
  <2>3. /\ DOMAIN q = AskFields /\ q.pc = "monthly" /\ q.cap = old.month /\ q.month = 0
        /\ q.day = old.day /\ q.cost = old.cost /\ q.over = old.over
      BY <2>2 DEF AskTyped, AskFields
  <2> HIDE DEF q
  <2>4. AskTyped(q) /\ UnderPeak(q)
      BY <1>1, <2>2, <2>3 DEF AskTyped, AskSteps, UnderPeak
  <2>5. StillOver(q)
      BY <1>1, <1>4, <2>2, <2>3 DEF StillOver, Spent
  <2>6. DayLate(old) \/ peak.day > MaxCalls \/ bucket[spendDay] < peak.day
    <3>1. SUFFICES ASSUME old.day = spendDay PROVE peak.day > MaxCalls \/ bucket[spendDay] < peak.day
        BY <1>1 DEF DayLate
    <3>2. SpendTyped /\ spendDay \in Days /\ old.cap \in Nat /\ peak.day \in Nat
          /\ Ceiling(old.cap) <= peak.day
        BY <1>1, <2>2, <3>1, AskedTyped DEF UnderPeak, AskTyped
    <3>3. Spent(Since(spendDay)) \in Nat /\ bucket[spendDay] \in Nat
          /\ bucket[spendDay] <= Spent(Since(spendDay))
        BY <3>2, MonthSince, SpentKnown
    <3>4. ~Reached(Spent(Since(spendDay)), old.cap)
        BY <1>4, <3>1 DEF Spent
    <3>5. /\ Ceiling(old.cap) \in Nat /\ MaxCalls \in Nat
          /\ Ceiling(old.cap) > MaxCalls \/ Spent(Since(spendDay)) < Ceiling(old.cap)
        BY <3>2, <3>3, <3>4, Ceilings
    <3> QED
        BY <3>2, <3>3, <3>5
  <2>7. MonthLate(q) => MonthLate(old)
      BY <1>1, <2>3 DEF MonthLate, Spends
  <2>8. ~Spends(q) /\ Checks(old)
      BY <1>1, <2>3 DEF Spends, Checks
  <2>9. failures' = failures
      BY <1>4 DEF histories
  <2> QED
      BY <1>1, <2>1, <2>4, <2>5, <2>6, <2>7, <2>8, <2>9, AskedTyped, OneMoves
<1> QED
    BY <1>2, <1>3, <1>4 DEF CheckDaily

LEMMA MonthlyMoves ==
    ASSUME SpendInv, NEW r \in Overflows, CheckMonthly(r)
    PROVE SpendInv'
<1> DEFINE old == ask[r]
<1>1. old.pc = "monthly" /\ UNCHANGED <<spendDay, caps, bucket, peak, paid, sent>>
    BY DEF CheckMonthly, FailsOpen, histories
<1>2. CASE Reached(Cost(bucket, Since(MonthStart(old.day))), old.cap) /\ Refuse(r) /\ UNCHANGED histories
    BY <1>1, <1>2, RefuseMoves
<1>3. CASE FailsOpen(r, "month", "key", 0)
  <2> DEFINE q == [old EXCEPT !.pc = "key", !.cap = 0, !.month = 0, !.over = old.over \ {"month"}]
  <2>1. ask' = [ask EXCEPT ![r] = q] /\ failures' = [failures EXCEPT !["month"] = @ + 1]
      BY <1>3 DEF FailsOpen
  <2>2. AskTyped(old) /\ UnderPeak(old) /\ StillOver(old) /\ failures \in [day : Nat, month : Nat]
      BY AskedTyped
  <2>3. /\ DOMAIN q = AskFields /\ q.pc = "key" /\ q.cap = 0 /\ q.month = 0
        /\ q.day = old.day /\ q.cost = old.cost /\ q.over = old.over \ {"month"}
      BY <2>2 DEF AskTyped, AskFields
  <2> HIDE DEF q
  <2>4. AskTyped(q) /\ UnderPeak(q)
      BY <1>1, <2>2, <2>3 DEF AskTyped, AskSteps, UnderPeak
  <2>5. StillOver(q)
      BY <1>1, <2>2, <2>3 DEF StillOver
  <2>6. /\ failures' \in [day : Nat, month : Nat]
        /\ failures'.day \in {failures.day, failures.day + 1}
        /\ failures'.month \in {failures.month, failures.month + 1}
        /\ failures'.month = failures.month + 1
      BY <2>1, <2>2
  <2>7. DayLate(old)
      BY <1>1, <2>3 DEF MonthLate, DayLate, Spends
  <2>8. ~Spends(q) /\ Checks(old)
      BY <1>1, <2>3 DEF Spends, Checks
  <2> QED
      BY <1>1, <2>1, <2>4, <2>5, <2>6, <2>7, <2>8, OneMoves
<1>4. CASE ~Reached(Cost(bucket, Since(MonthStart(old.day))), old.cap)
           /\ SpendStep(r, "key", 0) /\ UNCHANGED histories
  <2> DEFINE q == [old EXCEPT !.pc = "key", !.cap = 0, !.month = 0]
  <2>1. ask' = [ask EXCEPT ![r] = q]
      BY <1>4 DEF SpendStep
  <2>2. AskTyped(old) /\ UnderPeak(old) /\ StillOver(old)
      BY AskedTyped
  <2>3. /\ DOMAIN q = AskFields /\ q.pc = "key" /\ q.cap = 0 /\ q.month = 0
        /\ q.day = old.day /\ q.cost = old.cost /\ q.over = old.over
      BY <2>2 DEF AskTyped, AskFields
  <2> HIDE DEF q
  <2>4. AskTyped(q) /\ UnderPeak(q)
      BY <1>1, <2>2, <2>3 DEF AskTyped, AskSteps, UnderPeak
  <2>5. StillOver(q)
      BY <1>1, <1>4, <2>2, <2>3 DEF StillOver, Spent
  <2>6. MonthLate(old) \/ peak.month > MaxCalls \/ Spent(MonthOf(spendDay)) < peak.month
    <3>1. SUFFICES ASSUME ThisMonth(old.day)
                   PROVE peak.month > MaxCalls \/ Spent(MonthOf(spendDay)) < peak.month
        BY <1>1 DEF MonthLate
    <3>2. SpendTyped /\ spendDay \in Days /\ old.cap \in Nat /\ peak.month \in Nat
          /\ Ceiling(old.cap) <= peak.month
        BY <1>1, <2>2, <3>1, AskedTyped DEF UnderPeak, AskTyped
    <3>3. /\ Spent(Since(MonthStart(spendDay))) \in Nat /\ Spent(MonthOf(spendDay)) \in Nat
          /\ Spent(MonthOf(spendDay)) <= Spent(Since(MonthStart(spendDay)))
        BY <3>2, MonthSince, SpentKnown
    <3>4. ~Reached(Spent(Since(MonthStart(spendDay))), old.cap)
        BY <1>4, <3>1 DEF Spent, ThisMonth
    <3>5. /\ Ceiling(old.cap) \in Nat /\ MaxCalls \in Nat
          /\ Ceiling(old.cap) > MaxCalls \/ Spent(Since(MonthStart(spendDay))) < Ceiling(old.cap)
        BY <3>2, <3>3, <3>4, Ceilings
    <3> QED
        BY <3>2, <3>3, <3>5
  <2>7. DayLate(old) /\ ~Spends(q) /\ Checks(old)
      BY <1>1, <2>3 DEF DayLate, Spends, Checks
  <2>9. failures' = failures
      BY <1>4 DEF histories
  <2> QED
      BY <1>1, <2>1, <2>4, <2>5, <2>6, <2>7, <2>9, AskedTyped, OneMoves
<1> QED
    BY <1>2, <1>3, <1>4 DEF CheckMonthly
LEMMA KeyDailyMoves ==
    ASSUME SpendInv, NEW r \in Overflows, CheckKeyDaily(r)
    PROVE SpendInv'
<1> DEFINE old == ask[r]
           beyond == /\ logChan = <<>>
                     /\ \A p \in Overflows : ask[p].pc \notin {"call", "track"}
                     /\ \/ Reached(Cost(bucket, Since(old.day)), caps.keyDay)
                        \/ Reached(Cost(bucket, Since(MonthStart(old.day))), caps.keyMonth)
<1>1. /\ old.pc = "key" /\ UNCHANGED <<spendDay, caps, bucket, histories, sent>>
      /\ UNCHANGED <<spendDay, caps, bucket, peak, paid, failures, sent>>
    BY DEF CheckKeyDaily, histories
<1>2. CASE ask' = [ask EXCEPT ![r] = Resting]
    BY <1>1, <1>2, RefuseMoves DEF Refuse
<1>3. ASSUME NEW failed \in BOOLEAN,
             ask' = [ask EXCEPT ![r] = [@ EXCEPT !.pc = "keyMonthly", !.cap = caps.keyMonth,
                                                 !.overKey = beyond /\ ~failed]]
      PROVE SpendInv'
  <2> DEFINE q == [old EXCEPT !.pc = "keyMonthly", !.cap = caps.keyMonth,
                              !.overKey = beyond /\ ~failed]
  <2>1. ask' = [ask EXCEPT ![r] = q]
      BY <1>3
  <2>2. AskTyped(old) /\ UnderPeak(old) /\ StillOver(old)
      BY AskedTyped
  <2> HIDE DEF beyond
  <2>3. /\ DOMAIN q = AskFields /\ q.pc = "keyMonthly" /\ q.cap = caps.keyMonth
        /\ q.month = old.month /\ q.day = old.day /\ q.cost = old.cost /\ q.over = old.over
      BY <2>2 DEF AskTyped, AskFields
  <2> HIDE DEF q
  <2>4. AskTyped(q) /\ UnderPeak(q)
      BY <1>1, <2>2, <2>3, AskedTyped DEF AskTyped, AskSteps, UnderPeak
  <2>5. StillOver(q)
      BY <1>1, <2>2, <2>3 DEF StillOver
  <2>6. DayLate(old) /\ MonthLate(old) /\ ~Spends(q) /\ Checks(old)
      BY <1>1, <2>3 DEF DayLate, MonthLate, Spends, Checks
  <2> QED
      BY <1>1, <2>1, <2>4, <2>5, <2>6, AskedTyped, OneMoves
<1>4. PICK failed \in BOOLEAN :
        ask' = [ask EXCEPT ![r] =
                IF ~failed /\ Reached(KeySpendSince(old.day), caps.keyDay) THEN Resting
                ELSE [@ EXCEPT !.pc = "keyMonthly", !.cap = caps.keyMonth,
                               !.overKey = beyond /\ ~failed]]
    BY DEF CheckKeyDaily
<1> QED
    BY <1>2, <1>3, <1>4

LEMMA KeyMonthlyMoves ==
    ASSUME SpendInv, NEW r \in Overflows, CheckKeyMonthly(r)
    PROVE SpendInv'
<1> DEFINE old == ask[r]
<1>1. /\ old.pc = "keyMonthly" /\ UNCHANGED <<spendDay, caps, bucket, histories>>
      /\ UNCHANGED <<spendDay, caps, bucket, peak, paid, failures>>
    BY DEF CheckKeyMonthly, histories
<1>2. CASE Refuse(r) /\ UNCHANGED sent
    BY <1>1, <1>2, RefuseMoves
<1>3. ASSUME NEW failed \in BOOLEAN, sent' = sent + 1,
             ask' = [ask EXCEPT ![r] = [@ EXCEPT !.pc = "call", !.cap = 0, !.month = 0,
                                                 !.overKey = ask[r].overKey /\ ~failed]]
      PROVE SpendInv'
  <2> DEFINE q == [old EXCEPT !.pc = "call", !.cap = 0, !.month = 0,
                              !.overKey = old.overKey /\ ~failed]
  <2>1. ask' = [ask EXCEPT ![r] = q]
      BY <1>3
  <2>2. AskTyped(old) /\ UnderPeak(old) /\ StillOver(old)
      BY AskedTyped
  <2>3. /\ DOMAIN q = AskFields /\ q.pc = "call" /\ q.cap = 0
        /\ q.month = 0 /\ q.day = old.day /\ q.cost = old.cost /\ q.over = old.over
      BY <2>2 DEF AskTyped, AskFields
  <2> HIDE DEF q
  <2>4. AskTyped(q) /\ UnderPeak(q)
      BY <1>1, <2>2, <2>3 DEF AskTyped, AskSteps, UnderPeak
  <2>5. StillOver(q)
      BY <1>1, <2>2, <2>3 DEF StillOver
  <2>6. DayLate(old) /\ MonthLate(old) /\ ~Checks(q) /\ Checks(old)
      BY <1>1, <2>3 DEF DayLate, MonthLate, Spends, Checks
  <2> QED
      BY <1>1, <1>3, <2>1, <2>4, <2>5, <2>6, AskedTyped, OneMoves
<1>4. PICK failed \in BOOLEAN :
        IF ~failed /\ Reached(KeySpendSince(MonthStart(old.day)), old.cap)
        THEN Refuse(r) /\ UNCHANGED sent
        ELSE /\ ask' = [ask EXCEPT ![r] = [@ EXCEPT !.pc = "call", !.cap = 0, !.month = 0,
                                                    !.overKey = ask[r].overKey /\ ~failed]]
             /\ sent' = sent + 1
    BY DEF CheckKeyMonthly
<1> QED
    BY <1>2, <1>3, <1>4

-----------------------------------------------------------------------------
(* After the call. *)

LEMMA LogMoves ==
    ASSUME SpendInv, NEW r \in Overflows, NEW cost \in {0, 1}, NEW tracked \in BOOLEAN,
           LogRequest(r, cost, tracked)
    PROVE SpendInv'
<1> DEFINE old == ask[r]
           q == [old EXCEPT !.pc = "track", !.cost = cost]
<1>1. /\ old.pc = "call" /\ UNCHANGED <<spendDay, caps, bucket, histories, sent>>
      /\ UNCHANGED <<spendDay, caps, bucket, peak, paid, failures, sent>>
    BY DEF LogRequest, histories
<1>2. CASE ~tracked
    BY <1>1, <1>2, RefuseMoves DEF LogRequest, Refuse
<1>3. CASE tracked
  <2>1. ask' = [ask EXCEPT ![r] = q]
      BY <1>3 DEF LogRequest
  <2>2. AskTyped(old) /\ UnderPeak(old) /\ StillOver(old)
      BY AskedTyped
  <2>3. /\ DOMAIN q = AskFields /\ q.pc = "track" /\ q.cap = old.cap
        /\ q.month = old.month /\ q.day = old.day /\ q.cost = cost /\ q.over = old.over
      BY <2>2 DEF AskTyped, AskFields
  <2> HIDE DEF q
  <2>4. AskTyped(q) /\ UnderPeak(q)
      BY <1>1, <2>2, <2>3 DEF AskTyped, AskSteps, UnderPeak
  <2>5. StillOver(q)
      BY <1>1, <2>2, <2>3 DEF StillOver
  <2>6. DayLate(old) /\ MonthLate(old) /\ ~Checks(q) /\ Spends(old)
      BY <1>1, <2>3 DEF DayLate, MonthLate, Spends, Checks
  <2> QED
      BY <1>1, <2>1, <2>4, <2>5, <2>6, AskedTyped, OneMoves
<1> QED
    BY <1>2, <1>3

\* What is spent only makes a check that meets a cap meet it still.
LEMMA OverStays ==
    ASSUME NEW s \in Nat, NEW t \in Nat, NEW c \in Nat, s <= t, Reached(s, c)
    PROVE Reached(t, c)
BY DEF Reached

LEMMA Rises ==
    ASSUME NEW s \in Nat, NEW p \in Nat, NEW t \in Nat, NEW L \in SUBSET Overflows,
           p <= t, Overrun(s, p, L)
    PROVE Overrun(s, t, L)
<1>1. Cardinality(L) \in Nat /\ Cardinality(Overflows) \in Nat /\ MaxCalls \in Nat
    BY SpendAssumption, FS_Subset, FS_CardinalityType
<1> QED
    BY <1>1 DEF Overrun

\* The same when a call is paid for, and recorded or not.
LEMMA FitsWhenPaid ==
    ASSUME SpendInv, NEW span \in {"day", "month"}, NEW s \in Nat, NEW t,
           NEW L \in SUBSET Overflows, NEW K \in SUBSET Overflows, NEW r \in Overflows,
           NEW c \in {0, 1}, NEW k \in {0, 1}, t = s + c,
           Fits(span, s, L), peak'[span] = peak[span], paid'[span] = paid[span] + k,
           r \in L, K = L \ {r},
           \/ c = k /\ failures'[span] = failures[span]
           \/ c = 0 /\ failures'[span] = failures[span] + 1
    PROVE /\ (paid'[span] - t) \in 0 .. failures'[span]
          /\ Overrun(t, peak'[span] + (failures'[span] - (paid'[span] - t)), K)
<1> DEFINE u == Unwritten(span, s)
           p == Top(span, s)
           w == peak'[span] + (failures'[span] - (paid'[span] - t))
<1>1. /\ peak[span] \in Nat /\ failures[span] \in Nat /\ u \in Nat /\ u <= failures[span]
      /\ p \in Nat /\ Overrun(s, p, L) /\ paid[span] \in Nat
    BY FitsKnown DEF SpendInv, SpendTyped
<1>2. u = paid[span] - s /\ p = peak[span] + (failures[span] - u)
    BY DEF Unwritten, Top
<1> HIDE DEF u, p
<1>3. (paid'[span] - t) \in 0 .. failures'[span] /\ w \in Nat /\ p <= w
    BY <1>1, <1>2
<1> HIDE DEF w
<1>4. Overrun(t, p, K)
    BY <1>1, OverrunKept
<1>5. Overrun(t, w, K)
    BY <1>1, <1>3, <1>4, Rises
<1> QED
    BY <1>3, <1>5 DEF w

LEMMA TrackMoves ==
    ASSUME SpendInv, NEW r \in Overflows, TrackCloudCostModel(r)
    PROVE SpendInv'
<1> DEFINE k == ask[r].cost
<1>a. /\ ask[r].pc = "track" /\ ask' = [ask EXCEPT ![r] = Resting]
      /\ UNCHANGED <<spendDay, caps, peak, sent>>
      /\ paid' = [day |-> paid.day + k, month |-> paid.month + k]
    BY DEF TrackCloudCostModel, Refuse
<1>b. k \in {0, 1} /\ SpendTyped /\ spendDay \in Days
    BY AskedTyped DEF AskTyped
<1> HIDE DEF k
<1>c. PICK c \in {0, 1} :
        /\ bucket' = [bucket EXCEPT ![spendDay] = @ + c]
        /\ \/ c = k /\ failures' = failures
           \/ c = 0 /\ failures' = [day |-> failures.day + 1, month |-> failures.month + 1]
  <2>1. CASE bucket' = [bucket EXCEPT ![spendDay] = @ + k] /\ failures' = failures
      BY <1>b, <2>1
  <2>2. CASE bucket' = bucket /\ failures' = [day |-> failures.day + 1, month |-> failures.month + 1]
    <3>1. bucket = [bucket EXCEPT ![spendDay] = @ + 0]
        BY <1>b DEF SpendTyped
    <3> QED
        BY <2>2, <3>1
  <2> QED
      BY <2>1, <2>2 DEF TrackCloudCostModel, k
<1>1. /\ ask[r].pc = "track" /\ bucket' = [bucket EXCEPT ![spendDay] = @ + c]
      /\ ask' = [ask EXCEPT ![r] = Resting] /\ UNCHANGED <<spendDay, caps, peak, sent>>
    BY <1>a, <1>c
<1>2. SpendTyped /\ Asking /\ CallsCounted /\ DayFits /\ MonthFits /\ spendDay \in Days
    BY DEF SpendInv, SpendTyped
<1>3. c \in {0, 1} /\ AskTyped(ask[r])
    BY AskedTyped DEF AskTyped
<1>4. /\ bucket \in [Days -> Nat] /\ bucket' \in [Days -> Nat]
      /\ bucket'[spendDay] = bucket[spendDay] + c
      /\ \A d \in Days \ {spendDay} : bucket'[d] = bucket[d]
    BY <1>1, <1>2, <1>3 DEF SpendTyped
<1>5. \A S \in SUBSET Days :
         /\ Cost(bucket', S) = IF spendDay \in S THEN Spent(S) + c ELSE Spent(S)
         /\ Spent(S) \in Nat /\ Cost(bucket', S) \in Nat /\ Spent(S) <= Cost(bucket', S)
         /\ Cost(bucket', S) <= Spent(S) + 1
  <2> TAKE S \in SUBSET Days
  <2>1. Spent(S) \in Nat
      BY <1>2, SpentKnown
  <2> DEFINE h == bucket'
  <2>2. /\ h \in [Days -> Nat] /\ h[spendDay] = bucket[spendDay] + c
        /\ \A d \in Days \ {spendDay} : h[d] = bucket[d]
      BY <1>4
  <2> HIDE DEF h
  <2>3. /\ spendDay \in S => Cost(h, S) = Cost(bucket, S) + c
        /\ spendDay \notin S => Cost(h, S) = Cost(bucket, S)
      BY <1>2, <1>3, <1>4, <2>2, DaysFinite, CostBump
  <2> QED
      BY <1>3, <2>1, <2>3 DEF Spent, h
<1>6. ask' = [s \in Overflows |-> IF s = r THEN Resting ELSE ask[s]] /\ ask' = [s \in Overflows |-> ask'[s]]
    BY <1>1, <1>2 DEF SpendTyped
<1>7. SpendTyped'
  <2>1. Days \subseteq Nat
      BY SpendAssumption DEF Days
  <2>2. \A d \in Days : d > spendDay => bucket'[d] = 0
      BY <1>2, <1>4, <2>1 DEF SpendTyped
  <2>3. paid' \in [day : Nat, month : Nat] /\ failures' \in [day : Nat, month : Nat]
      BY <1>2, <1>a, <1>b, <1>c DEF SpendTyped
  <2> QED
      BY <1>1, <1>2, <1>4, <1>6, <2>2, <2>3 DEF SpendTyped
<1>8. Asking'
  <2>1. SUFFICES ASSUME NEW s \in Overflows
                 PROVE (AskTyped(ask[s]) /\ UnderPeak(ask[s]) /\ StillOver(ask[s]))'
      BY DEF Asking
  <2>2. CASE s = r
    <3>1. ask'[s] = Resting
        BY <1>6, <2>2
    <3>2. AskTyped(Resting) /\ UnderPeak(Resting)
        BY <1>2, RestingGood
    <3>3. AskTyped(ask[s])' /\ UnderPeak(ask[s])'
        BY <1>1, <3>1, <3>2 DEF AskTyped, UnderPeak, ThisMonth
    <3>4. StillOver(ask[s])'
        BY <3>1 DEF StillOver, Resting
    <3> QED
        BY <3>3, <3>4
  <2>3. CASE s # r
    <3>1. ask'[s] = ask[s] /\ AskTyped(ask[s]) /\ UnderPeak(ask[s]) /\ StillOver(ask[s])
        BY <1>2, <1>6, <2>3 DEF Asking
    <3>2. AskTyped(ask[s])' /\ UnderPeak(ask[s])'
        BY <1>1, <3>1 DEF AskTyped, UnderPeak, ThisMonth
    <3>3. ask[s].day \in Days /\ ask[s].cap \in Nat /\ ask[s].month \in Nat
        BY <3>1, AskedTyped DEF AskTyped
    <3> DEFINE d == ask[s].day
               D == Since(d)
               M == Since(MonthStart(d))
    <3>4. D \in SUBSET Days /\ M \in SUBSET Days
        BY <3>3, MonthSince
    <3>5. /\ Reached(Spent(D), ask[s].cap) => Reached(Cost(bucket', D), ask[s].cap)
          /\ Reached(Spent(M), ask[s].month) => Reached(Cost(bucket', M), ask[s].month)
          /\ Reached(Spent(M), ask[s].cap) => Reached(Cost(bucket', M), ask[s].cap)
      <4> HIDE DEF D, M
      <4> QED
          BY <1>5, <3>3, <3>4, OverStays
    <3>6. StillOver(ask[s])'
        BY <3>1, <3>5 DEF StillOver, Spent, Since
    <3> QED
        BY <3>2, <3>6
  <2> QED
      BY <2>2, <2>3
<1>9. /\ ~Spends(Resting) /\ ~Checks(Resting) /\ ~DayLate(Resting) /\ ~MonthLate(Resting)
      /\ Spends(ask[r]) /\ ~Checks(ask[r]) /\ DayLate(ask[r]) /\ MonthLate(ask[r])
    BY <1>1, <1>2, RestingGood DEF Spends, Checks, DayLate, MonthLate
<1>10. /\ Checking' = Checking /\ Spending' = Spending \ {r} /\ r \in Spending
       /\ LateToday' = LateToday \ {r} /\ r \in LateToday
       /\ LateThisMonth' = LateThisMonth \ {r} /\ r \in LateThisMonth
    BY <1>1, <1>6, <1>9 DEF Checking, Spending, LateToday, LateThisMonth, Checks, Spends,
       DayLate,
       MonthLate, ThisMonth
<1>11. /\ Spending \in SUBSET Overflows /\ LateToday \in SUBSET Overflows
       /\ LateThisMonth \in SUBSET Overflows
       /\ LateToday' \in SUBSET Overflows /\ LateThisMonth' \in SUBSET Overflows
    BY DEF Spending, LateToday, LateThisMonth
<1>12. MonthOf(spendDay) \in SUBSET Days /\ bucket[spendDay] \in Nat
    BY <1>2, <1>4, MonthSince
<1>13. CallsCounted'
  <2>1. Cardinality(Spending \ {r}) = Cardinality(Spending) - 1 /\ Cardinality(Spending) \in Nat
      BY <1>10, <1>11, Counts
  <2>2. Spent(Days)' <= Spent(Days) + 1 /\ Spent(Days) \in Nat /\ Spent(Days)' \in Nat
    <3>1. Spent(Days)' = Cost(bucket', Days)
        BY DEF Spent
    <3> QED
        BY <1>5, <3>1
  <2>3. sent \in Nat /\ Cardinality(Spending') = Cardinality(Spending) - 1
      BY <1>2, <1>10, <2>1 DEF SpendTyped
  <2>4. Cardinality(Checking') = Cardinality(Checking)
      BY <1>10
  <2> QED
      BY <1>1, <1>2, <2>1, <2>2, <2>3, <2>4 DEF CallsCounted
<1>p. ASSUME NEW span \in {"day", "month"}
      PROVE /\ peak'[span] = peak[span] /\ paid'[span] = paid[span] + k
            /\ \/ c = k /\ failures'[span] = failures[span]
               \/ c = 0 /\ failures'[span] = failures[span] + 1
    BY <1>a, <1>c
<1>q. c \in {0, 1} /\ k \in {0, 1}
    BY <1>3, <1>b
<1>14. DayFits'
  <2>1. bucket[spendDay] \in Nat /\ Fits("day", bucket[spendDay], LateToday)
      BY <1>2, <1>12 DEF DayFits
  <2>2. bucket'[spendDay'] = bucket[spendDay] + c
      BY <1>1, <1>4
  <2>3. Fits("day", bucket[spendDay], LateToday)'
    <3> DEFINE s == bucket[spendDay]
               t == bucket'[spendDay']
    <3>1. s \in Nat /\ t = s + c /\ Fits("day", s, LateToday)
        BY <2>1, <2>2
    <3> HIDE DEF s, t
    <3>2. /\ (paid'["day"] - t) \in 0 .. failures'["day"]
          /\ Overrun(t, peak'["day"] + (failures'["day"] - (paid'["day"] - t)), LateToday')
        BY <1>10, <1>11, <1>p, <1>q, <3>1, FitsWhenPaid
    <3> QED
        BY <3>2 DEF t, Fits, Unwritten, Top, Overrun
  <2> QED
      BY <2>3 DEF DayFits
<1>15. MonthFits'
  <2>1. Spent(MonthOf(spendDay)) \in Nat /\ Spent(MonthOf(spendDay))' = Spent(MonthOf(spendDay)) + c
    <3>1. MonthOf(spendDay)' = MonthOf(spendDay) /\ spendDay \in MonthOf(spendDay)
        BY <1>1, <1>2, MonthSince DEF MonthOf
    <3>2. /\ Spent(MonthOf(spendDay)) \in Nat
          /\ Cost(bucket', MonthOf(spendDay)) = Spent(MonthOf(spendDay)) + c
        BY <1>5, <1>12, <3>1
    <3> QED
        BY <3>1, <3>2 DEF Spent
  <2>2. Fits("month", Spent(MonthOf(spendDay)), LateThisMonth)
      BY <1>2 DEF MonthFits
  <2> DEFINE s == Spent(MonthOf(spendDay))
             t == Spent(MonthOf(spendDay))'
  <2>3. s \in Nat /\ t = s + c /\ Fits("month", s, LateThisMonth)
      BY <2>1, <2>2
  <2>4. /\ (paid'["month"] - t) \in 0 .. failures'["month"]
        /\ Overrun(t, peak'["month"] + (failures'["month"] - (paid'["month"] - t)), LateThisMonth')
    <3> HIDE DEF s, t
    <3> QED
        BY <1>10, <1>11, <1>p, <1>q, <2>3, FitsWhenPaid
  <2> QED
      BY <2>4 DEF MonthFits, Fits, Unwritten, Top, Overrun
<1> QED
    BY <1>7, <1>8, <1>13, <1>14, <1>15 DEF SpendInv
-----------------------------------------------------------------------------
(* The settings and the clock. *)

LEMMA LateSets ==
    LateToday \in SUBSET Overflows /\ LateThisMonth \in SUBSET Overflows
BY DEF LateToday, LateThisMonth

LEMMA CapsMove ==
    ASSUME SpendInv, NEW c \in CapChoices, SetCaps(c)
    PROVE SpendInv'
<1>1. SpendTyped /\ Asking /\ CallsCounted /\ DayFits /\ MonthFits
    BY DEF SpendInv
<1>2. c \in [day : Nat, month : Nat, keyDay : Nat, keyMonth : Nat]
    BY SpendAssumption
<1>3. Ceiling(c.day) \in Nat /\ Ceiling(c.month) \in Nat
    BY <1>2, Ceilings
<1>4. /\ caps' = c /\ peak'.day = Higher(peak.day, Ceiling(c.day))
      /\ peak'.month = Higher(peak.month, Ceiling(c.month))
      /\ peak' = [day |-> peak'.day, month |-> peak'.month]
      /\ UNCHANGED <<spendDay, bucket, ask, paid, failures, sent>>
    BY DEF SetCaps
<1>5. /\ peak.day \in Nat /\ peak.month \in Nat /\ peak'.day \in Nat /\ peak'.month \in Nat
      /\ peak.day <= peak'.day /\ peak.month <= peak'.month
      /\ Ceiling(c.day) <= peak'.day /\ Ceiling(c.month) <= peak'.month
    BY <1>1, <1>3, <1>4 DEF SpendTyped, Higher
<1>6. SpendTyped'
    BY <1>1, <1>2, <1>4, <1>5 DEF SpendTyped
<1>7. Asking'
  <2>1. SUFFICES ASSUME NEW s \in Overflows
                 PROVE (AskTyped(ask[s]) /\ UnderPeak(ask[s]) /\ StillOver(ask[s]))'
      BY DEF Asking
  <2>2. AskTyped(ask[s]) /\ UnderPeak(ask[s]) /\ StillOver(ask[s]) /\ ask'[s] = ask[s]
      BY <1>1, <1>4 DEF Asking
  <2>3. AskTyped(ask[s])' /\ StillOver(ask[s])'
      BY <1>4, <2>2 DEF AskTyped, StillOver, Spent, Since
  <2>4. Ceiling(ask[s].cap) \in Nat /\ Ceiling(ask[s].month) \in Nat
      BY <2>2, Ceilings DEF AskTyped
  <2>5. UnderPeak(ask[s])'
      BY <1>4, <1>5, <2>2, <2>4 DEF UnderPeak, ThisMonth
  <2> QED
      BY <2>3, <2>5
<1>8. /\ Checking' = Checking /\ Spending' = Spending
      /\ LateToday' = LateToday /\ LateThisMonth' = LateThisMonth
    BY <1>4 DEF Checking, Spending, LateToday, LateThisMonth, Checks, Spends, DayLate,
       MonthLate,
       ThisMonth
<1>9. CallsCounted'
    BY <1>1, <1>4, <1>8 DEF CallsCounted, Spent
<1>10. spendDay \in Days /\ MonthOf(spendDay) \in SUBSET Days
    BY <1>1, MonthSince DEF SpendTyped
<1>11. Spent(MonthOf(spendDay)) \in Nat /\ bucket[spendDay] \in Nat
    BY <1>1, <1>10, SpentKnown DEF SpendTyped
<1>s. ASSUME NEW span \in {"day", "month"}, NEW s \in Nat, NEW L \in SUBSET Overflows,
             Fits(span, s, L), peak[span] <= peak'[span], peak'[span] \in Nat
      PROVE /\ (paid[span] - s) \in 0 .. failures[span]
            /\ Overrun(s, peak'[span] + (failures[span] - (paid[span] - s)), L)
  <2> DEFINE p == Top(span, s)
             t == peak'[span] + (failures[span] - (paid[span] - s))
  <2>1. /\ peak[span] \in Nat /\ failures[span] \in Nat /\ Unwritten(span, s) \in Nat
        /\ Unwritten(span, s) <= failures[span] /\ p \in Nat /\ Overrun(s, p, L)
      BY <1>s, FitsKnown
  <2>2. t \in Nat /\ p <= t /\ (paid[span] - s) \in 0 .. failures[span]
      BY <1>s, <2>1 DEF Top, Unwritten
  <2> HIDE DEF p, t
  <2>3. Overrun(s, t, L)
      BY <2>1, <2>2, Rises
  <2> QED
      BY <2>2, <2>3 DEF t
<1>12. DayFits'
  <2> DEFINE s == bucket[spendDay]
  <2>1. s \in Nat /\ Fits("day", s, LateToday) /\ peak["day"] <= peak'["day"] /\ peak'["day"] \in Nat
      BY <1>1, <1>5, <1>11 DEF DayFits
  <2>2. /\ (paid["day"] - s) \in 0 .. failures["day"]
        /\ Overrun(s, peak'["day"] + (failures["day"] - (paid["day"] - s)), LateToday)
    <3> HIDE DEF s
    <3> QED
        BY <1>s, <2>1, LateSets
  <2> QED
      BY <1>4, <1>8, <2>2 DEF DayFits, Fits, Unwritten, Top, Overrun
<1>13. MonthFits'
  <2>1. Spent(MonthOf(spendDay))' = Spent(MonthOf(spendDay))
      BY <1>4 DEF Spent, MonthOf
  <2> DEFINE s == Spent(MonthOf(spendDay))
  <2>2. /\ s \in Nat /\ Fits("month", s, LateThisMonth)
        /\ peak["month"] <= peak'["month"] /\ peak'["month"] \in Nat
      BY <1>1, <1>5, <1>11 DEF MonthFits
  <2>3. s' = s
      BY <2>1
  <2> HIDE DEF s
  <2>4. /\ (paid["month"] - s) \in 0 .. failures["month"]
        /\ Overrun(s, peak'["month"] + (failures["month"] - (paid["month"] - s)), LateThisMonth)
      BY <1>s, <2>2, LateSets
  <2>5. Fits("month", s, LateThisMonth)'
      BY <1>4, <1>8, <2>3, <2>4 DEF Fits, Unwritten, Top, Overrun
  <2> QED
      BY <2>5 DEF MonthFits, s
<1> QED
    BY <1>6, <1>7, <1>9, <1>12, <1>13 DEF SpendInv

LEMMA MidnightMoves ==
    ASSUME SpendInv, Midnight
    PROVE SpendInv'
<1>1. SpendTyped /\ Asking /\ CallsCounted /\ DayFits /\ MonthFits
    BY DEF SpendInv
<1>2. /\ spendDay < SpendDays /\ spendDay' = spendDay + 1
      /\ UNCHANGED <<caps, bucket, ask, sent>>
      /\ peak' = [day |-> Ceiling(caps.day),
                  month |-> IF MonthStart(spendDay') = MonthStart(spendDay)
                            THEN peak.month ELSE Ceiling(caps.month)]
      /\ paid' = [day |-> 0, month |-> IF MonthStart(spendDay') = MonthStart(spendDay)
                                       THEN paid.month ELSE 0]
      /\ failures' = [day |-> 0, month |-> IF MonthStart(spendDay') = MonthStart(spendDay)
                                           THEN failures.month ELSE 0]
    BY DEF Midnight
<1>3. /\ spendDay \in Nat /\ Days \subseteq Nat /\ spendDay \in Days /\ spendDay' \in Days
      /\ spendDay' \in Nat /\ spendDay <= spendDay' /\ spendDay # spendDay'
  <2>1. SpendDays \in Nat /\ Days = 0 .. SpendDays /\ spendDay \in Days
      BY <1>1, SpendAssumption DEF SpendTyped, Days
  <2>2. spendDay < SpendDays /\ spendDay' = spendDay + 1
      BY <1>2
  <2> QED
      BY <2>1, <2>2
<1>4. caps.day \in Nat /\ caps.month \in Nat /\ Ceiling(caps.day) \in Nat \ {0}
      /\ Ceiling(caps.month) \in Nat \ {0} /\ peak.day \in Nat /\ peak.month \in Nat
      /\ Ceiling(caps.month) <= peak.month
    BY <1>1, Ceilings DEF SpendTyped
<1>5. SpendTyped'
  <2>1. \A d \in Days : d > spendDay' => bucket[d] = 0
      BY <1>1, <1>2, <1>3 DEF SpendTyped
  <2> QED
      BY <1>1, <1>2, <1>3, <1>4, <2>1 DEF SpendTyped
<1>6. \A d \in Nat : d <= spendDay /\ MonthStart(d) = MonthStart(spendDay')
         => MonthStart(spendDay) = MonthStart(spendDay')
    BY <1>3, MonthsConnect
<1>7. \A s \in Overflows : /\ AskTyped(ask[s]) /\ UnderPeak(ask[s]) /\ StillOver(ask[s])
                           /\ ask'[s] = ask[s] /\ ask[s].day \in Nat /\ ask[s].day <= spendDay
    BY <1>1, <1>2 DEF Asking, AskTyped
<1>8. Asking'
  <2>1. SUFFICES ASSUME NEW s \in Overflows
                 PROVE (AskTyped(ask[s]) /\ UnderPeak(ask[s]) /\ StillOver(ask[s]))'
      BY DEF Asking
  <2> DEFINE q == ask[s]
  <2>2. AskTyped(q) /\ UnderPeak(q) /\ StillOver(q) /\ ask'[s] = q /\ q.day \in Nat /\ q.day <= spendDay
      BY <1>7
  <2>3. AskTyped(ask[s])' /\ StillOver(ask[s])'
      BY <1>2, <1>3, <2>2 DEF AskTyped, StillOver, Spent, Since
  <2>4. q.day # spendDay'
      BY <1>2, <1>3, <2>2
  <2>5. MonthStart(q.day) = MonthStart(spendDay') =>
          MonthStart(spendDay) = MonthStart(spendDay') /\ peak'.month = peak.month /\ ThisMonth(q.day)
      BY <1>2, <1>6, <2>2 DEF ThisMonth
  <2>6. UnderPeak(ask[s])'
      BY <2>2, <2>4, <2>5 DEF UnderPeak, ThisMonth
  <2> QED
      BY <2>3, <2>6
<1>9. Checking' = Checking /\ Spending' = Spending
    BY <1>2 DEF Checking, Spending, Checks, Spends
<1>10. CallsCounted'
    BY <1>1, <1>2, <1>9 DEF CallsCounted, Spent
<1>11. DayFits'
  <2>1. bucket'[spendDay'] = 0 /\ peak'.day = Ceiling(caps.day)
      BY <1>1, <1>2, <1>3 DEF SpendTyped
  <2>2. peak'["day"] \in Nat \ {0} /\ paid'["day"] = 0 /\ failures'["day"] = 0
      BY <1>2, <1>4
  <2>3. Fits("day", 0, LateToday)'
      BY <2>2 DEF Fits, Unwritten, Top, Overrun
  <2> QED
      BY <2>1, <2>3 DEF DayFits, Fits, Unwritten, Top, Overrun
<1>12. MonthFits'
  <2>1. CASE MonthStart(spendDay') = MonthStart(spendDay)
    <3>1. /\ peak'["month"] = peak["month"] /\ paid'["month"] = paid["month"]
          /\ failures'["month"] = failures["month"]
          /\ Spent(MonthOf(spendDay))' = Spent(MonthOf(spendDay))
        BY <1>2, <2>1 DEF Spent, MonthOf
    <3>2. LateThisMonth' = LateThisMonth
        BY <1>2, <2>1 DEF LateThisMonth, MonthLate, Spends, ThisMonth
    <3> QED
        BY <1>1, <3>1, <3>2 DEF MonthFits, Fits, Unwritten, Top, Overrun
  <2>2. CASE MonthStart(spendDay') # MonthStart(spendDay)
    <3>1. peak'["month"] \in Nat \ {0} /\ paid'["month"] = 0 /\ failures'["month"] = 0
        BY <1>2, <1>4, <2>2
    <3>2. \A d \in Days : MonthStart(d) = MonthStart(spendDay') => bucket'[d] = 0
      <4>1. SUFFICES ASSUME NEW d \in Days, MonthStart(d) = MonthStart(spendDay') PROVE bucket[d] = 0
          BY <1>2
      <4>2. ~(d <= spendDay)
          BY <1>3, <1>6, <2>2, <4>1
      <4> QED
          BY <1>1, <1>3, <4>2 DEF SpendTyped
    <3> DEFINE S == {d \in Days : MonthStart(d) = MonthStart(spendDay')}
    <3>3. MonthOf(spendDay)' = S
        BY DEF MonthOf
    <3>4. Spent(S) = 0
      <4>1. \A d \in S : bucket[d] = 0
          BY <1>2, <3>2
      <4> HIDE DEF S
      <4>2. S \in SUBSET Days
          BY DEF S
      <4> QED
          BY <1>1, <4>1, <4>2, NothingSpent
    <3>5. Spent(MonthOf(spendDay))' = 0
      <4>1. Spent(MonthOf(spendDay))' = Cost(bucket', MonthOf(spendDay)')
          BY DEF Spent
      <4> QED
          BY <1>2, <3>3, <3>4, <4>1 DEF Spent
    <3> QED
        BY <1>4, <3>1, <3>5 DEF MonthFits, Fits, Unwritten, Top, Overrun
  <2> QED
      BY <2>1, <2>2
<1> QED
    BY <1>5, <1>8, <1>10, <1>11, <1>12 DEF SpendInv

LEMMA SpendRests ==
    ASSUME SpendInv, UNCHANGED <<spendDay, caps, bucket, ask, peak, paid, failures, sent>>
    PROVE SpendInv'
<1>1. /\ Checking' = Checking /\ Spending' = Spending
      /\ LateToday' = LateToday /\ LateThisMonth' = LateThisMonth
    BY DEF Checking, Spending, LateToday, LateThisMonth, Checks, Spends, DayLate, MonthLate,
       ThisMonth
<1>2. \A s \in Overflows :
        (AskTyped(ask[s]) /\ UnderPeak(ask[s]) /\ StillOver(ask[s])) =>
        (AskTyped(ask[s]) /\ UnderPeak(ask[s]) /\ StillOver(ask[s]))'
    BY DEF AskTyped, UnderPeak, StillOver, ThisMonth, Spent, Since
<1>3. Asking'
    BY <1>2 DEF SpendInv, Asking
<1>4. CallsCounted' /\ DayFits' /\ MonthFits'
    BY <1>1 DEF SpendInv, CallsCounted, DayFits, MonthFits, Fits, Unwritten, Top, Overrun, Spent,
       MonthOf
<1>5. SpendTyped'
    BY DEF SpendInv, SpendTyped
<1> QED
    BY <1>3, <1>4, <1>5 DEF SpendInv

LEMMA SpendMoves == ASSUME SpendInv, [SpendNext]_spendVars PROVE SpendInv'
<1>1. CASE AppendRequest
    BY <1>1, SpendRests DEF AppendRequest, histories
<1>2. CASE UNCHANGED spendVars
    BY <1>2, SpendRests DEF spendVars, histories
<1>3. CASE \E r \in Overflows :
         \/ BeginCheck(r) \/ CheckDaily(r) \/ CheckMonthly(r) \/ CheckKeyDaily(r) \/ CheckKeyMonthly(r)
         \/ \E cost \in {0, 1}, tracked \in BOOLEAN : LogRequest(r, cost, tracked)
         \/ TrackCloudCostModel(r)
    BY <1>3, BeginMoves, DailyMoves, MonthlyMoves, KeyDailyMoves, KeyMonthlyMoves, LogMoves,
       TrackMoves
<1> QED
    BY <1>1, <1>2, <1>3, CapsMove, MidnightMoves DEF SpendNext

LEMMA SpendShown == ASSUME SpendInv PROVE SpendBounded /\ GlobalCapKept
<1>1. SpendTyped /\ Asking /\ CallsCounted /\ DayFits /\ MonthFits
    BY DEF SpendInv
<1>2. GlobalCapKept
  <2>1. \A r \in Overflows : ask[r].over \subseteq {"day", "month"} /\ StillOver(ask[r])
      BY <1>1 DEF Asking, AskTyped
  <2> QED
      BY <2>1 DEF StillOver, GlobalCapKept
<1>3. spendDay \in Days /\ MonthOf(spendDay) \in SUBSET Days /\ Days \in SUBSET Days
    BY <1>1, MonthSince DEF SpendTyped
<1>4. /\ Spent(MonthOf(spendDay)) \in Nat /\ bucket[spendDay] \in Nat /\ Spent(Days) \in Nat
      /\ Spent(MonthOf(spendDay)) <= Spent(Days) /\ bucket[spendDay] <= Spent(Days)
    BY <1>1, <1>3, SpentKnown
<1>5. IsFiniteSet(Overflows) /\ MaxCalls \in Nat /\ sent \in Nat /\ peak.day \in Nat /\ peak.month \in Nat
    BY <1>1, SpendAssumption DEF SpendTyped
<1>6. /\ Cardinality(Checking) \in Nat /\ Cardinality(Spending) \in Nat
      /\ Cardinality(LateToday) \in Nat /\ Cardinality(LateThisMonth) \in Nat
      /\ Cardinality(Overflows) \in Nat
  <2>1. \A S \in SUBSET Overflows : IsFiniteSet(S)
      BY <1>5, FS_Subset
  <2> QED
      BY <1>5, <2>1, FS_CardinalityType DEF Checking, Spending, LateToday, LateThisMonth
<1>7. Spent(Days) <= MaxCalls + Cardinality(Overflows)
    BY <1>1, <1>4, <1>5, <1>6 DEF CallsCounted
<1>8. ASSUME NEW s \in Nat, NEW p \in Nat, NEW L, Cardinality(L) \in Nat, s <= Spent(Days),
             Overrun(s, p, L)
      PROVE s <= p + (Cardinality(Overflows) - 1)
    BY <1>4, <1>5, <1>6, <1>7, <1>8 DEF Overrun
<1>9. ASSUME NEW span \in {"day", "month"}, NEW s \in Nat, NEW L \in SUBSET Overflows,
             Cardinality(L) \in Nat, s <= Spent(Days), Fits(span, s, L)
      PROVE paid[span] <= peak[span] + failures[span] + (Cardinality(Overflows) - 1)
  <2>1. /\ peak[span] \in Nat /\ failures[span] \in Nat /\ Unwritten(span, s) \in Nat
        /\ Top(span, s) \in Nat /\ Overrun(s, Top(span, s), L) /\ paid[span] \in Nat
      BY <1>9, FitsKnown DEF SpendInv, SpendTyped
  <2>2. s <= Top(span, s) + (Cardinality(Overflows) - 1)
      BY <1>8, <1>9, <2>1
  <2> QED
      BY <1>6, <2>1, <2>2 DEF Top, Unwritten
<1>10. paid.day <= peak.day + failures.day + (Cardinality(Overflows) - 1)
  <2>1. paid["day"] <= peak["day"] + failures["day"] + (Cardinality(Overflows) - 1)
      BY <1>1, <1>4, <1>6, <1>9, LateSets DEF DayFits
  <2> QED
      BY <2>1
<1>11. paid.month <= peak.month + failures.month + (Cardinality(Overflows) - 1)
  <2>1. paid["month"] <= peak["month"] + failures["month"] + (Cardinality(Overflows) - 1)
      BY <1>1, <1>4, <1>6, <1>9, LateSets DEF MonthFits
  <2> QED
      BY <2>1
<1> QED
    BY <1>2, <1>10, <1>11 DEF SpendBounded

-----------------------------------------------------------------------------
(* The usage figures: the invariant.                                         *)

LedgerTyped ==
    /\ process \in {"up", "closing", "exited", "crashed"}
    /\ live \in [count : SUBSET Calls, tokens : SUBSET Calls, spent : SUBSET Calls,
                 hourly : SUBSET Calls]
    /\ row \in [count : SUBSET Calls, spent : SUBSET Calls]
    /\ at \in [Calls -> {"idle", "tokens", "spent", "hourly", "bucket", "queue", "done", "cut"}]
    /\ statsChan \in Seq(LocalCalls) /\ Len(statsChan) <= StatsQueueSize
    /\ logger \in [pc : {"idle", "bucket", "gone"}, job : SUBSET LocalCalls]
    /\ flush \in [pc : {"idle", "count", "row", "setting", "gone"}, last : BOOLEAN,
                  tok : SUBSET Calls, count : SUBSET Calls, spent : SUBSET Calls]
    /\ buckets \subseteq Calls /\ refused \subseteq Calls /\ lost \subseteq Calls
    /\ cloudTok \subseteq Calls /\ spoiled \in BOOLEAN

\* Nothing of a process outlives it.
NothingLeft ==
    ~Running => /\ statsChan = <<>> /\ logger = NoJob /\ flush = NoFlush
                /\ \A c \in Calls : at[c] \in {"idle", "done", "cut"}

\* A call on its way is in the figures it has passed; one that is done is in the
\* store, on its way there, or accounted for.
OnItsWay == Range(statsChan) \cup logger.job
CallGood(c) ==
    /\ at[c] \in {"tokens", "spent", "bucket"} => c \in CloudCalls
    /\ at[c] = "queue" => c \in LocalCalls
    /\ at[c] = "tokens" => c \in live.count
    /\ at[c] \in {"bucket", "queue"} => c \in live.hourly
    /\ at[c] = "done" => c \in buckets \cup refused \cup lost \cup OnItsWay

\* A job is in the chart, and the logger has one only while it writes.
ChartGood ==
    /\ OnItsWay \subseteq live.hourly
    /\ Running /\ "hourly" \notin cold => buckets \subseteq live.hourly
    /\ logger.pc # "bucket" => logger.job = {}
    /\ \A c, d \in logger.job : c = d

\* The tokens stay behind the count, in memory, in a flush and in the store; the row
\* stays behind the counters.
FlushGood ==
    /\ "counters" \in cold => spoiled
    /\ ~spoiled =>
         /\ live.tokens \subseteq live.count /\ cloudTok \subseteq row.count
         /\ flush.pc = "count" => flush.tok \subseteq live.count
         /\ flush.pc = "row" => flush.tok \subseteq flush.count
         /\ flush.pc = "setting" => flush.tok \subseteq row.count
    /\ flush.pc = "row" => flush.count \subseteq live.count /\ flush.spent \subseteq live.spent
    /\ RowIsBehind

\* What is owed at the shutdown is on its way until the logger has returned.
OwedGood ==
    /\ logger.pc = "gone" => process = "closing"
    /\ process = "closing" => owed \subseteq buckets \cup refused \cup OnItsWay
    /\ (process = "closing" /\ logger.pc = "gone") \/ process = "exited" =>
         owed \subseteq buckets \cup refused

LedgerInv ==
    /\ LedgerTyped /\ NothingLeft /\ (\A c \in Calls : CallGood(c))
    /\ ChartGood /\ FlushGood /\ OwedGood

-----------------------------------------------------------------------------
(* The steps. *)

LEMMA QueueRange ==
    ASSUME NEW S, NEW s \in Seq(S)
    PROVE /\ \A c \in S : Range(Append(s, c)) = Range(s) \cup {c}
          /\ s # <<>> => /\ Range(s) = {Head(s)} \cup Range(Tail(s)) /\ Head(s) \in S
                         /\ Tail(s) \in Seq(S) /\ Len(Tail(s)) = Len(s) - 1
<1>1. ASSUME NEW c \in S PROVE Range(Append(s, c)) = Range(s) \cup {c}
  <2>1. DOMAIN s = 1 .. Len(s) /\ DOMAIN Append(s, c) = 1 .. Len(s) + 1 /\ Len(s) \in Nat
      OBVIOUS
  <2>2. \A i \in 1 .. Len(s) : Append(s, c)[i] = s[i]
      OBVIOUS
  <2>3. Append(s, c)[Len(s) + 1] = c
      OBVIOUS
  <2>4. 1 .. Len(s) + 1 = (1 .. Len(s)) \cup {Len(s) + 1}
      BY <2>1
  <2> QED
      BY <2>1, <2>2, <2>3, <2>4, Zenon DEF Range
<1>2. ASSUME s # <<>> PROVE Range(s) = {Head(s)} \cup Range(Tail(s))
  <2>1. /\ DOMAIN s = 1 .. Len(s) /\ DOMAIN Tail(s) = 1 .. Len(s) - 1
        /\ Len(s) \in Nat \ {0} /\ Head(s) = s[1]
      BY <1>2
  <2>2. \A i \in 1 .. Len(s) - 1 : Tail(s)[i] = s[i + 1]
      BY <1>2
  <2>3. \A i \in 1 .. Len(s) : i = 1 \/ (i - 1 \in 1 .. Len(s) - 1 /\ s[i] = Tail(s)[i - 1])
      BY <2>1, <2>2
  <2>4. \A i \in 1 .. Len(s) - 1 : i + 1 \in 1 .. Len(s)
      BY <2>1
  <2>5. 1 \in 1 .. Len(s)
      BY <2>1
  <2>6. ASSUME NEW v \in Range(s) PROVE v \in {Head(s)} \cup Range(Tail(s))
    <3>1. PICK i \in 1 .. Len(s) : v = s[i]
        BY <2>1, <2>6 DEF Range
    <3> QED
        BY <2>1, <2>3, <3>1 DEF Range
  <2>7. ASSUME NEW v \in Range(Tail(s)) PROVE v \in Range(s)
    <3>1. PICK i \in 1 .. Len(s) - 1 : v = Tail(s)[i]
        BY <2>1, <2>7 DEF Range
    <3> QED
        BY <2>1, <2>2, <2>4, <3>1 DEF Range
  <2>8. Head(s) \in Range(s)
      BY <2>1, <2>5 DEF Range
  <2> QED
      BY <2>6, <2>7, <2>8
<1>3. s # <<>> => Head(s) \in S /\ Tail(s) \in Seq(S) /\ Len(Tail(s)) = Len(s) - 1
    OBVIOUS
<1> QED
    BY <1>1, <1>2, <1>3

LEMMA LedgerInitially == ASSUME LedgerInit PROVE LedgerInv
<1>1. Range(statsChan) = {}
    BY DEF LedgerInit, Range
<1>2. LedgerTyped
  <2>1. statsChan \in Seq(LocalCalls) /\ Len(statsChan) = 0 /\ StatsQueueSize \in Nat
      BY LedgerAssumption DEF LedgerInit
  <2>2. Len(statsChan) <= StatsQueueSize
      BY <2>1
  <2>3. at \in [Calls -> {"idle", "tokens", "spent", "hourly", "bucket", "queue", "done", "cut"}]
      BY DEF LedgerInit
  <2>4. logger \in [pc : {"idle", "bucket", "gone"}, job : SUBSET LocalCalls]
      BY DEF LedgerInit, NoJob
  <2>5. flush \in [pc : {"idle", "count", "row", "setting", "gone"}, last : BOOLEAN,
                   tok : SUBSET Calls, count : SUBSET Calls, spent : SUBSET Calls]
      BY DEF LedgerInit, NoFlush
  <2> QED
      BY <2>1, <2>2, <2>3, <2>4, <2>5 DEF LedgerInit, LedgerTyped
<1> QED
    BY <1>1, <1>2 DEF LedgerInit, LedgerInv, NothingLeft, CallGood, ChartGood, FlushGood,
       OwedGood,
       OnItsWay, NoJob, NoFlush, RowIsBehind, Running

LEMMA CountMoves ==
    ASSUME LedgerInv, NEW c \in Calls, AddCount(c)
    PROVE LedgerInv'
<1>1. LedgerTyped'
    BY DEF LedgerInv, LedgerTyped, AddCount, Goes, InMemory, storeVars
<1>2. OnItsWay' = OnItsWay
    BY DEF AddCount, InMemory, OnItsWay
<1> QED
    BY <1>1, <1>2 DEF LedgerInv, LedgerTyped, AddCount, Goes, InMemory, storeVars, NothingLeft,
       CallGood, ChartGood, FlushGood, OwedGood, RowIsBehind, Running, Calls
LEMMA TokensMove ==
    ASSUME LedgerInv, NEW c \in Calls, AddTokens(c)
    PROVE LedgerInv'
<1>1. LedgerTyped'
    BY DEF LedgerInv, LedgerTyped, AddTokens, Goes, InMemory, storeVars
<1>2. OnItsWay' = OnItsWay
    BY DEF AddTokens, Goes, InMemory, storeVars, OnItsWay
<1> QED
    BY <1>1, <1>2 DEF LedgerInv, LedgerTyped, AddTokens, Goes, InMemory, storeVars, NothingLeft,
       CallGood, ChartGood, FlushGood, OwedGood, RowIsBehind, Running, Calls

LEMMA SpentMoves ==
    ASSUME LedgerInv, NEW c \in Calls, AddSpent(c)
    PROVE LedgerInv'
<1>1. LedgerTyped'
    BY DEF LedgerInv, LedgerTyped, AddSpent, Goes, InMemory, storeVars
<1>2. OnItsWay' = OnItsWay
    BY DEF AddSpent, Goes, InMemory, storeVars, OnItsWay
<1> QED
    BY <1>1, <1>2 DEF LedgerInv, LedgerTyped, AddSpent, Goes, InMemory, storeVars, NothingLeft,
       CallGood, ChartGood, FlushGood, OwedGood, RowIsBehind, Running, Calls

LEMMA HourlyMoves ==
    ASSUME LedgerInv, NEW c \in Calls, RecordHourly(c)
    PROVE LedgerInv'
<1>1. LedgerTyped'
    BY DEF LedgerInv, LedgerTyped, RecordHourly, Goes, InMemory, storeVars
<1>2. OnItsWay' = OnItsWay
    BY DEF RecordHourly, Goes, InMemory, storeVars, OnItsWay
<1> QED
    BY <1>1, <1>2 DEF LedgerInv, LedgerTyped, RecordHourly, Goes, InMemory, storeVars,
       NothingLeft,
       CallGood, ChartGood, FlushGood, OwedGood, RowIsBehind, Running, Calls

LEMMA CloudBucketMoves ==
    ASSUME LedgerInv, NEW c \in Calls, WriteCloudBucket(c)
    PROVE LedgerInv'
<1>1. LedgerTyped'
    BY DEF LedgerInv, LedgerTyped, WriteCloudBucket, Goes, InStore, UpsertHourlyBucket,
       LedgerFault
<1>2. OnItsWay' = OnItsWay
    BY DEF WriteCloudBucket, Goes, InStore, UpsertHourlyBucket, LedgerFault, OnItsWay
<1> QED
    BY <1>1, <1>2 DEF LedgerInv, LedgerTyped, WriteCloudBucket, Goes, InStore,
       UpsertHourlyBucket, LedgerFault, NothingLeft,
       CallGood, ChartGood, FlushGood, OwedGood, RowIsBehind, Running, Calls

LEMMA BeginFlushMoves ==
    ASSUME LedgerInv, BeginFlush
    PROVE LedgerInv'
<1>1. LedgerTyped'
    BY DEF LedgerInv, LedgerTyped, BeginFlush, ByFlush, Loads, NoFlush, storeVars
<1>2. OnItsWay' = OnItsWay
    BY DEF BeginFlush, ByFlush, Loads, NoFlush, storeVars, OnItsWay
<1> QED
    BY <1>1, <1>2 DEF LedgerInv, LedgerTyped, BeginFlush, ByFlush, Loads, NoFlush,
       storeVars, NothingLeft,
       CallGood, ChartGood, FlushGood, OwedGood, RowIsBehind, Running, Calls

LEMMA LoadMoves ==
    ASSUME LedgerInv, LoadCounters
    PROVE LedgerInv'
<1>1. LedgerTyped'
    BY DEF LedgerInv, LedgerTyped, LoadCounters, ByFlush, Loads, storeVars
<1>2. OnItsWay' = OnItsWay
    BY DEF LoadCounters, ByFlush, Loads, storeVars, OnItsWay
<1> QED
    BY <1>1, <1>2 DEF LedgerInv, LedgerTyped, LoadCounters, ByFlush, Loads, storeVars,
       NothingLeft,
       CallGood, ChartGood, FlushGood, OwedGood, RowIsBehind, Running, Calls

LEMMA RowMoves ==
    ASSUME LedgerInv, SetCounters
    PROVE LedgerInv'
<1> USE DEF LedgerInv, LedgerTyped, SetCounters, ByFlush
<1>1. flush' = [flush EXCEPT !.pc = "setting"] /\ flush.pc = "row" /\ Running
    OBVIOUS
<1>2. flush' \in [pc : {"idle", "count", "row", "setting", "gone"}, last : BOOLEAN,
                 tok : SUBSET Calls, count : SUBSET Calls, spent : SUBSET Calls]
    BY <1>1
<1>3. flush'.tok = flush.tok /\ flush'.pc = "setting"
    BY <1>1
<1>4. OnItsWay' = OnItsWay
    BY DEF OnItsWay
<1>5. CASE row' = [count |-> flush.count, spent |-> flush.spent] /\ UNCHANGED <<spoiled, slips>>
  <2>1. LedgerTyped'
      BY <1>2, <1>5
  <2>2. FlushGood'
      BY <1>1, <1>3, <1>5 DEF FlushGood, RowIsBehind, Running
  <2> QED
      BY <1>1, <1>4, <2>1, <2>2 DEF NothingLeft, CallGood, ChartGood, OwedGood, Running
<1>6. CASE LedgerFault /\ spoiled' = TRUE /\ UNCHANGED row
  <2>1. LedgerTyped'
      BY <1>2, <1>6
  <2>2. FlushGood'
      BY <1>1, <1>3, <1>6 DEF FlushGood, RowIsBehind, Running
  <2> QED
      BY <1>1, <1>4, <2>1, <2>2 DEF NothingLeft, CallGood, ChartGood, OwedGood, Running
<1> QED
    BY <1>5, <1>6

LEMMA SettingMoves ==
    ASSUME LedgerInv, SetCloudTokens
    PROVE LedgerInv'
<1>1. LedgerTyped'
    BY DEF LedgerInv, LedgerTyped, SetCloudTokens, ByFlush, EndFlush, NoFlush, LedgerFault
<1>2. OnItsWay' = OnItsWay
    BY DEF SetCloudTokens, ByFlush, EndFlush, NoFlush, LedgerFault, OnItsWay
<1> QED
    BY <1>1, <1>2 DEF LedgerInv, LedgerTyped, SetCloudTokens, ByFlush, EndFlush, NoFlush,
       LedgerFault, NothingLeft,
       CallGood, ChartGood, FlushGood, OwedGood, RowIsBehind, Running, Calls

LEMMA EnqueueMoves ==
    ASSUME LedgerInv, NEW c \in Calls, EnqueueStats(c)
    PROVE LedgerInv'
<1>1. c \in LocalCalls
    BY DEF LedgerInv, CallGood, EnqueueStats, Goes
<1>2. CASE Len(statsChan) < StatsQueueSize
  <2>1. statsChan' = Append(statsChan, c)
      BY <1>2 DEF EnqueueStats
  <2>2. statsChan' \in Seq(LocalCalls) /\ Len(statsChan') <= StatsQueueSize
      BY <1>1, <1>2, <2>1, LedgerAssumption DEF LedgerInv, LedgerTyped
  <2>3. OnItsWay' = OnItsWay \cup {c}
      BY <1>1, <2>1, QueueRange DEF LedgerInv, LedgerTyped, OnItsWay, EnqueueStats, InStore
  <2>4. LedgerTyped'
      BY <1>2, <2>2 DEF LedgerInv, LedgerTyped, EnqueueStats, Goes, InStore
  <2> QED
      BY <1>2, <2>3, <2>4 DEF LedgerInv, LedgerTyped, EnqueueStats, Goes, InStore, NothingLeft,
         CallGood, ChartGood, FlushGood, OwedGood, RowIsBehind, Running, Calls
<1>3. CASE ~(Len(statsChan) < StatsQueueSize)
  <2>1. refused' = refused \cup {c} /\ statsChan' = statsChan
      BY <1>3 DEF EnqueueStats
  <2>2. OnItsWay' = OnItsWay
      BY <2>1 DEF OnItsWay, EnqueueStats, InStore
  <2>3. LedgerTyped'
      BY <2>1 DEF LedgerInv, LedgerTyped, EnqueueStats, Goes, InStore
  <2> QED
      BY <2>1, <2>2, <2>3 DEF LedgerInv, LedgerTyped, EnqueueStats, Goes, InStore, NothingLeft,
         CallGood, ChartGood, FlushGood, OwedGood, RowIsBehind, Running, Calls
<1> QED
    BY <1>2, <1>3

LEMMA TakeMoves ==
    ASSUME LedgerInv, TakeJob
    PROVE LedgerInv'
<1>1. /\ Head(statsChan) \in LocalCalls /\ statsChan' \in Seq(LocalCalls)
      /\ Len(statsChan') = Len(statsChan) - 1 /\ Len(statsChan) \in Nat
      /\ Range(statsChan) = {Head(statsChan)} \cup Range(statsChan')
    BY QueueRange DEF LedgerInv, LedgerTyped, TakeJob
<1>2. logger.job = {}
    BY DEF LedgerInv, ChartGood, TakeJob
<1>3. OnItsWay' = OnItsWay
    BY <1>1, <1>2 DEF OnItsWay, TakeJob
<1>4. Len(statsChan') <= StatsQueueSize
    BY <1>1, LedgerAssumption DEF LedgerInv, LedgerTyped
<1>5. logger' \in [pc : {"idle", "bucket", "gone"}, job : SUBSET LocalCalls]
    BY <1>1 DEF TakeJob
<1>6. LedgerTyped'
    BY <1>1, <1>4, <1>5 DEF LedgerInv, LedgerTyped, TakeJob, ByLogger
<1> QED
    BY <1>3, <1>6 DEF LedgerInv, LedgerTyped, TakeJob, ByLogger, NothingLeft,
       CallGood, ChartGood, FlushGood, OwedGood, RowIsBehind, Running, Calls

LEMMA WriteMoves ==
    ASSUME LedgerInv, WriteBucket
    PROVE LedgerInv'
<1>1. PICK c \in logger.job :
        \/ UpsertHourlyBucket(c) /\ UNCHANGED <<refused, slips>>
        \/ LedgerFault /\ refused' = refused \cup {c} /\ UNCHANGED buckets
    BY DEF WriteBucket
<1>2. logger.job = {c}
    BY <1>1 DEF LedgerInv, ChartGood
<1>3. OnItsWay' = Range(statsChan) /\ OnItsWay = Range(statsChan) \cup {c}
    BY <1>2 DEF OnItsWay, WriteBucket, NoJob
<1>4. buckets' \cup refused' = buckets \cup refused \cup {c}
    BY <1>1 DEF UpsertHourlyBucket
<1>5. /\ buckets \subseteq buckets' /\ refused \subseteq refused' /\ c \in Calls
      /\ buckets' \subseteq buckets \cup {c} /\ refused' \subseteq refused \cup {c}
    BY <1>1 DEF UpsertHourlyBucket, LedgerInv, LedgerTyped, Calls
<1>6. LedgerTyped'
    BY <1>5 DEF LedgerInv, LedgerTyped, WriteBucket, ByLogger, NoJob
<1> QED
    BY <1>3, <1>4, <1>5, <1>6 DEF LedgerInv, LedgerTyped, WriteBucket, ByLogger, NothingLeft,
       CallGood, ChartGood, FlushGood, OwedGood, RowIsBehind, Running, Calls, NoJob

LEMMA ReturnMoves ==
    ASSUME LedgerInv, LoggerReturns
    PROVE LedgerInv'
<1>1. OnItsWay' = OnItsWay /\ OnItsWay = {}
    BY DEF LedgerInv, ChartGood, OnItsWay, LoggerReturns, ByLogger, Range
<1>2. LedgerTyped'
    BY DEF LedgerInv, LedgerTyped, LoggerReturns, ByLogger
<1> QED
    BY <1>1, <1>2 DEF LedgerInv, LedgerTyped, LoggerReturns, ByLogger, NothingLeft,
       CallGood, ChartGood, FlushGood, OwedGood, RowIsBehind, Running, Calls

LEMMA ShutdownMoves ==
    ASSUME LedgerInv, Shutdown
    PROVE LedgerInv'
<1>1. OnItsWay' = OnItsWay
    BY DEF OnItsWay, Shutdown
<1>2. LedgerTyped'
    BY DEF LedgerInv, LedgerTyped, Shutdown, storeVars
<1> QED
    BY <1>1, <1>2 DEF LedgerInv, LedgerTyped, Shutdown, storeVars, NothingLeft,
       CallGood, ChartGood, FlushGood, OwedGood, RowIsBehind, Running, Calls

LEMMA EndMoves ==
    ASSUME LedgerInv, NEW how \in {"exited", "crashed"}, Running, Ends(how),
           how = "exited" => process = "closing" /\ logger.pc = "gone"
    PROVE LedgerInv'
<1>1. OnItsWay' = {}
    BY DEF OnItsWay, Ends, NoJob, Range
<1>2. lost' = lost \cup OnItsWay
    BY DEF OnItsWay, Ends
<1>3. OnItsWay \subseteq Calls
  <2>1. Range(statsChan) \subseteq LocalCalls
      BY DEF LedgerInv, LedgerTyped, Range
  <2> QED
      BY <2>1 DEF OnItsWay, LedgerInv, LedgerTyped, Calls
<1>4. /\ statsChan' \in Seq(LocalCalls) /\ Len(statsChan') <= StatsQueueSize
      /\ logger' \in [pc : {"idle", "bucket", "gone"}, job : SUBSET LocalCalls]
      /\ flush' \in [pc : {"idle", "count", "row", "setting", "gone"}, last : BOOLEAN,
                     tok : SUBSET Calls, count : SUBSET Calls, spent : SUBSET Calls]
      /\ logger'.pc = "idle" /\ logger'.job = {} /\ flush'.pc = "idle"
  <2>1. statsChan' \in Seq(LocalCalls) /\ Len(statsChan') = 0 /\ StatsQueueSize \in Nat
      BY LedgerAssumption DEF Ends
  <2> QED
      BY <2>1 DEF Ends, NoJob, NoFlush
<1>5. /\ at' \in [Calls -> {"idle", "done", "cut"}]
      /\ \A c \in Calls : at'[c] = "done" => at[c] = "done"
    BY DEF Ends, LedgerInv, LedgerTyped
<1>6. LedgerTyped'
    BY <1>2, <1>3, <1>4, <1>5 DEF LedgerInv, LedgerTyped, Ends, storeVars
<1>7. \A c \in Calls : CallGood(c)'
    BY <1>2, <1>5 DEF LedgerInv, CallGood, Ends, storeVars
<1>8. NothingLeft' /\ ~Running'
    BY <1>5 DEF NothingLeft, Ends, Running
<1>9. ChartGood' /\ OwedGood' /\ FlushGood'
    BY <1>1, <1>4, <1>8 DEF LedgerInv, ChartGood, OwedGood, FlushGood, RowIsBehind, Ends,
       storeVars,
       Running
<1> QED
    BY <1>6, <1>7, <1>8, <1>9 DEF LedgerInv, Calls

LEMMA StartMoves ==
    ASSUME LedgerInv, LoadFromStore
    PROVE LedgerInv'
<1>1. PICK unread \in SUBSET {"counters", "tokens", "hourly"} :
         /\ cold' = unread
         /\ flushed' = IF "tokens" \in unread THEN {} ELSE cloudTok
         /\ live' = [count |-> IF "counters" \in unread THEN {} ELSE row.count,
                     tokens |-> flushed',
                     spent |-> IF "counters" \in unread THEN {} ELSE row.spent,
                     hourly |-> IF "hourly" \in unread THEN {} ELSE buckets]
    BY DEF LoadFromStore
<1>2. statsChan = <<>> /\ logger = NoJob /\ flush = NoFlush
    BY DEF LoadFromStore, LedgerInv, NothingLeft
<1>3. OnItsWay' = {} /\ OnItsWay = {}
    BY <1>2 DEF OnItsWay, LoadFromStore, NoJob, Range
<1>4. flushed' \subseteq cloudTok /\ flushed' \subseteq Calls
    BY <1>1 DEF LedgerInv, LedgerTyped
<1>5. live' \in [count : SUBSET Calls, tokens : SUBSET Calls, spent : SUBSET Calls,
                hourly : SUBSET Calls]
    BY <1>1, <1>4 DEF LedgerInv, LedgerTyped
<1>6. LedgerTyped'
    BY <1>5 DEF LedgerInv, LedgerTyped, LoadFromStore, storeVars
<1>7. \A c \in Calls : CallGood(c)'
    BY <1>3 DEF LedgerInv, CallGood, NothingLeft, LoadFromStore, storeVars
<1>8. NothingLeft' /\ OwedGood'
    BY <1>2, <1>3 DEF NothingLeft, LoadFromStore, Running, OwedGood, NoJob
<1>9. ChartGood'
    BY <1>1, <1>2, <1>3 DEF ChartGood, LoadFromStore, NoJob, storeVars
<1>10. FlushGood'
    BY <1>1, <1>2, <1>4 DEF LedgerInv, LedgerTyped, FlushGood, RowIsBehind, LoadFromStore,
       NoFlush, storeVars
<1> QED
    BY <1>6, <1>7, <1>8, <1>9, <1>10 DEF LedgerInv, Calls

LEMMA LedgerMoves == ASSUME LedgerInv, [LedgerNext]_ledgerVars PROVE LedgerInv'
<1>1. CASE UNCHANGED ledgerVars
  <2>1. OnItsWay' = OnItsWay
      BY <1>1 DEF ledgerVars, OnItsWay
  <2> QED
      BY <1>1, <2>1 DEF ledgerVars, storeVars, LedgerInv, LedgerTyped, NothingLeft,
         CallGood, ChartGood, FlushGood, OwedGood, RowIsBehind, Running, Calls
<1>2. CASE Exit
  <2>1. Running /\ Ends("exited") /\ process = "closing" /\ logger.pc = "gone"
      BY <1>2 DEF Exit, Running
  <2> QED
      BY <2>1, EndMoves
<1>3. CASE Crash
  <2>1. Running /\ Ends("crashed")
      BY <1>3 DEF Crash
  <2> QED
      BY <2>1, EndMoves
<1> QED
    BY <1>1, <1>2, <1>3, CountMoves, TokensMove, SpentMoves, HourlyMoves, CloudBucketMoves,
       EnqueueMoves, TakeMoves, WriteMoves, ReturnMoves, BeginFlushMoves, LoadMoves, RowMoves,
       SettingMoves, ShutdownMoves, StartMoves DEF LedgerNext

LEMMA LedgerShown ==
    ASSUME LedgerInv
    PROVE /\ LedgerTypeOK /\ TokensNeverNewer /\ RowIsBehind /\ LedgerConserved
          /\ ShutdownDrains /\ ChartKept
<1>1. LedgerTypeOK
    BY DEF LedgerInv, LedgerTyped, LedgerTypeOK
<1>2. TokensNeverNewer /\ RowIsBehind /\ ShutdownDrains /\ ChartKept
    BY DEF LedgerInv, FlushGood, ChartGood, OwedGood, TokensNeverNewer, ShutdownDrains,
       ChartKept
<1>3. LedgerConserved
  <2>1. Range(statsChan) \subseteq LocalCalls
      BY DEF LedgerInv, LedgerTyped, Range
  <2> QED
      BY <2>1 DEF LedgerInv, LedgerTyped, CallGood, LedgerConserved, OnItsWay
<1> QED
    BY <1>1, <1>2, <1>3

-----------------------------------------------------------------------------
(* Budget and figures beside the rest of the request's way.                  *)

\* Calls that spend at once overrun no budget by as many as there are, nobody is sent
\* to a provider whose check began beyond a global cap (admin.go:6528-6623), and what
\* the counters, their row, the chart and the buckets show of the calls survives any
\* crash, restart and store error as UsageHonest says (admin.go:351-521,
\* 903-945, 6475-6560).
THEOREM UsageStaysHonest == RequestSpec => []UsageHonest
<1>1. RequestInit => SpendInv /\ LedgerInv
  BY SpendInitially, LedgerInitially DEF RequestInit
<1>2. SpendInv /\ LedgerInv /\ [RequestNext]_requestVars => SpendInv' /\ LedgerInv'
  <2>. SUFFICES ASSUME [RequestNext]_requestVars
                PROVE [SpendNext]_spendVars /\ [LedgerNext]_ledgerVars
    BY SpendMoves, LedgerMoves
  <2>. QED
    BY DEF RequestNext, Only, requestVars
<1>3. SpendInv /\ LedgerInv => UsageHonest
  BY SpendShown, LedgerShown DEF UsageHonest
<1>. QED
  BY <1>1, <1>2, <1>3, PTL DEF RequestSpec

=============================================================================
