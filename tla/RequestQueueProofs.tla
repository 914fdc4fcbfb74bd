------------------------- MODULE RequestQueueProofs -------------------------
(***************************************************************************)
(* Proofs that the queue's accounting and its depth limit hold for any     *)
(* number of requests and nodes and for every sequence of limits.          *)
(*                                                                         *)
(* QueueBound is not inductive: that the requests in the queue are no more *)
(* than one of them was allowed to see says nothing about what remains     *)
(* after that one leaves.  Ranked is what the atomic add really gives:     *)
(* every set of requests that hold a queue slot has a member, the one that *)
(* claimed last, whose add returned at least the size of the set.          *)
(***************************************************************************)
EXTENDS RequestQueue, FiniteSetTheorems, TLAPS

\* What a request knows of the depth: the result of its add, then the limit
\* it found that result to fit.
Rank(r) == IF pc[r] = "check" THEN myDepth[r] ELSE myMax[r]

Ranked ==
    \A S \in SUBSET Claimed :
        S # {} => \E r \in S : Cardinality(S) <= Rank(r)

\* A request that was routed has a node, and only a wait that ends is routed.
RoutedHasNode ==
    \A r \in Request :
        /\ pc[r] \in {"routed", "serving", "notify"} => node[r] \in Node
        /\ outcome[r] = "routed" => pc[r] = "leave" /\ node[r] \in Node

IInv == TypeOK /\ RoutedHasNode /\ SlotAccounting /\ Ranked

\* A goroutine on its last look has waited out its timer, and the timer was
\* cut to the SLA only for a request that cloud can take.
Timely ==
    /\ \A r \in Request : pc[r] = "lastLook" => age[r] >= limit[r]
    /\ \A r \in Request : slaCapped[r] => cloudUsable[r] /\ r \in Admitted
    /\ GiveUpIsDue

\* NoOversleptSlot speaks of the moment a request oversleeps and is true of a
\* request one quantum before that too.  What is inductive is the phase: a
\* request enters its select with freeFor at zero, because it has just found
\* nothing routable and time does not pass until it parks, and from then on
\* freeFor and the ticker's phase advance together.
Listening ==
    /\ Routable = {} => freeFor = 0
    /\ \A r \in Request :
         pc[r] \in {"resolve", "load", "claim", "check", "arm"} => freeFor = 0
    /\ \A r \in Request :
         pc[r] = "select" /\ ~ticked[r] => freeFor <= age[r] % RetryQuanta

-----------------------------------------------------------------------------
\* The sets the counters stand for are finite, so their sizes are naturals.
LEMMA Sizes ==
    /\ IsFiniteSet(Claimed) /\ Cardinality(Claimed) \in Nat
    /\ \A S \in SUBSET Claimed : IsFiniteSet(S) /\ Cardinality(S) \in Nat
    /\ \A n \in Node : IsFiniteSet(Holders(n)) /\ Cardinality(Holders(n)) \in Nat
<1>1. IsFiniteSet(Request)
  BY QueueAssumption
<1>2. Claimed \in SUBSET Request /\ \A n \in Node : Holders(n) \in SUBSET Request
  BY DEF Claimed, Holders
<1>3. \A S \in SUBSET Request : IsFiniteSet(S) /\ Cardinality(S) \in Nat
  <2>1. TAKE S \in SUBSET Request
  <2>2. IsFiniteSet(S)
    BY <1>1, FS_Subset
  <2>. QED
    BY <2>2, FS_CardinalityType
<1>. QED
  BY <1>2, <1>3

\* A step that moves no request into or out of the queue or onto a node, and
\* lowers no rank, keeps the accounting and the ranking.
LEMMA Quiet ==
    ASSUME IInv,
           Claimed' = Claimed,
           \A n \in Node : Holders(n)' = Holders(n),
           UNCHANGED <<queueDepth, activeConns>>,
           \A r \in Claimed : Rank(r)' \in Nat /\ Rank(r) <= Rank(r)'
    PROVE  SlotAccounting' /\ Ranked'
<1>1. SlotAccounting'
  BY DEF IInv, SlotAccounting
<1>2. Ranked'
  <2>1. SUFFICES ASSUME NEW S \in SUBSET Claimed, S # {}
                 PROVE  \E r \in S : Cardinality(S) <= Rank(r)'
    BY DEF Ranked
  <2>2. PICK r \in S : Cardinality(S) <= Rank(r)
    BY <2>1 DEF IInv, Ranked
  <2>3. Cardinality(S) \in Nat /\ Rank(r) \in Nat
    BY Sizes DEF IInv, TypeOK, Claimed, Rank
  <2>. QED
    BY <2>2, <2>3
<1>. QED
  BY <1>1, <1>2

\* A request that gives its queue slot back leaves a ranked queue behind.
LEMMA SlotReturned ==
    ASSUME IInv, NEW r \in Claimed,
           Claimed' = Claimed \ {r},
           \A n \in Node : Holders(n)' = Holders(n),
           queueDepth' = queueDepth - 1,
           UNCHANGED activeConns,
           \A q \in Claimed \ {r} : Rank(q)' = Rank(q)
    PROVE  SlotAccounting' /\ Ranked'
<1>1. Cardinality(Claimed \ {r}) = Cardinality(Claimed) - 1
  BY Sizes, FS_RemoveElement
<1>2. SlotAccounting'
  BY <1>1 DEF IInv, SlotAccounting
<1>3. Ranked'
  BY DEF IInv, Ranked
<1>. QED
  BY <1>2, <1>3

\* The add returns at least the size of every set the new claim belongs to.
LEMMA SlotClaimed ==
    ASSUME IInv, NEW r \in Request, r \notin Claimed,
           Claimed' = Claimed \cup {r},
           \A n \in Node : Holders(n)' = Holders(n),
           queueDepth' = queueDepth + 1,
           Rank(r)' = queueDepth + 1,
           UNCHANGED activeConns,
           \A q \in Claimed : Rank(q)' = Rank(q)
    PROVE  SlotAccounting' /\ Ranked'
<1>1. /\ IsFiniteSet(Claimed \cup {r})
      /\ Cardinality(Claimed \cup {r}) = queueDepth + 1
  BY Sizes, FS_AddElement DEF IInv, SlotAccounting
<1>2. SlotAccounting'
  BY <1>1 DEF IInv, SlotAccounting
<1>3. Ranked'
  <2>1. SUFFICES ASSUME NEW S \in SUBSET (Claimed \cup {r}), S # {}
                 PROVE  \E q \in S : Cardinality(S) <= Rank(q)'
    BY DEF Ranked
  <2>2. CASE r \in S
    <3>1. Cardinality(S) <= queueDepth + 1
      BY <1>1, FS_Subset
    <3>. QED
      BY <2>2, <3>1
  <2>3. CASE r \notin S
    <3>1. S \in SUBSET Claimed
      BY <2>3
    <3>2. PICK q \in S : Cardinality(S) <= Rank(q)
      BY <2>1, <3>1 DEF IInv, Ranked
    <3>. QED
      BY <3>1, <3>2
  <2>. QED
    BY <2>2, <2>3
<1>. QED
  BY <1>2, <1>3

-----------------------------------------------------------------------------
LEMMA InitHolds == Init => IInv
<1>. SUFFICES ASSUME Init PROVE IInv
  OBVIOUS
<1>1. Claimed = {} /\ \A n \in Node : Holders(n) = {}
  BY DEF Init, Claimed, Holders
<1>2. TypeOK
  <2>1. status \in [Node -> Status] /\ maxDepth \in Nat /\ timeout \in Nat /\ sla \in Nat
    BY QueueAssumption DEF Init
  <2>2. freeFor \in 0..RetryQuanta
    BY QueueAssumption DEF Init
  <2>3. /\ cloudUsable \in [Request -> BOOLEAN] /\ slaCapped \in [Request -> BOOLEAN]
        /\ woken \in [Request -> BOOLEAN] /\ ticked \in [Request -> BOOLEAN]
    BY DEF Init
  <2>4. /\ noRoute \in [Request -> Class] /\ outcome \in [Request -> Outcome]
        /\ node \in [Request -> Node \cup {NoNode}]
    BY DEF Init, Class, Outcome
  <2>. QED
    BY <2>1, <2>2, <2>3, <2>4 DEF Init, TypeOK
<1>3. RoutedHasNode
  BY DEF Init, RoutedHasNode
<1>4. SlotAccounting
  BY <1>1, FS_EmptySet DEF Init, SlotAccounting
<1>5. Ranked
  BY <1>1 DEF Ranked
<1>. QED
  BY <1>2, <1>3, <1>4, <1>5 DEF IInv

-----------------------------------------------------------------------------
(* One step *)

\* What a wait keeps is well typed after it is forgotten.
LEMMA ForgetTypes ==
    ASSUME TypeOK, NEW r \in Request, Forget(r)
    PROVE  /\ cloudUsable' \in [Request -> BOOLEAN]
           /\ myMax' \in [Request -> Nat] /\ myDepth' \in [Request -> Nat]
           /\ limit' \in [Request -> Nat] /\ slaCapped' \in [Request -> BOOLEAN]
           /\ age' \in [Request -> Nat] /\ woken' \in [Request -> BOOLEAN]
           /\ ticked' \in [Request -> BOOLEAN] /\ outcome' \in [Request -> Outcome]
BY DEF Forget, TypeOK, Outcome

\* A request that holds a queue slot is counted.
LEMMA CountedSlot ==
    ASSUME IInv, NEW r \in Claimed
    PROVE  queueDepth - 1 \in Nat
<1>1. Cardinality(Claimed) # 0
  BY Sizes, FS_EmptySet
<1>. QED
  BY <1>1, Sizes DEF IInv, SlotAccounting

\* Every step keeps every variable in its domain.
LEMMA StepTypes == IInv /\ [Next]_vars => TypeOK'
<1>. SUFFICES ASSUME IInv, [Next]_vars PROVE TypeOK'
  OBVIOUS
<1>. USE QueueAssumption DEF IInv, KeepFree, fleet, config, claim, timing, signals
<1>1. ASSUME NEW r \in Request, Arrive(r) PROVE TypeOK'
  BY <1>1 DEF Arrive, TypeOK
<1>2. ASSUME NEW r \in Request, ImmediateRoute(r) PROVE TypeOK'
  BY <1>2 DEF ImmediateRoute, Routable, ClassifyNoRoute, TypeOK, Class
<1>3. ASSUME NEW r \in Request, ResolveCloud(r) PROVE TypeOK'
  BY <1>3, ForgetTypes DEF ResolveCloud, Refused, TypeOK, Class
<1>4. ASSUME NEW r \in Request, LoadLimits(r) PROVE TypeOK'
  BY <1>4, ForgetTypes DEF LoadLimits, Refused, TypeOK
<1>5. ASSUME NEW r \in Request, ClaimSlot(r) PROVE TypeOK'
  BY <1>5 DEF ClaimSlot, DepthAfterClaim, TypeOK
<1>6. ASSUME NEW r \in Request, RejectFull(r) PROVE TypeOK'
  BY <1>6, ForgetTypes, CountedSlot DEF RejectFull, Refused, DepthAfterReject, TypeOK, Claimed
<1>7. ASSUME NEW r \in Request, Admit(r) PROVE TypeOK'
  BY <1>7 DEF Admit, SlaApplies, TypeOK
<1>8. ASSUME NEW r \in Request, CaptureNotify(r) PROVE TypeOK'
  BY <1>8 DEF CaptureNotify, TypeOK
<1>9. ASSUME NEW r \in Request, SelectCtxDone(r) PROVE TypeOK'
  BY <1>9 DEF SelectCtxDone, TypeOK, Outcome
<1>10. ASSUME NEW r \in Request, SelectTimer(r) PROVE TypeOK'
  BY <1>10 DEF SelectTimer, TypeOK
<1>11. ASSUME NEW r \in Request, SelectNotified(r) PROVE TypeOK'
  BY <1>11 DEF SelectNotified, TypeOK
<1>12. ASSUME NEW r \in Request, SelectTick(r) PROVE TypeOK'
  BY <1>12 DEF SelectTick, TypeOK
<1>13. ASSUME NEW r \in Request, Recheck(r) PROVE TypeOK'
  BY <1>13 DEF Recheck, RecheckRoutes, RecheckSkipsHard, RecheckUndecided, Loop, Routable, TypeOK, Outcome
<1>14. ASSUME NEW r \in Request, LastLook(r) PROVE TypeOK'
  BY <1>14 DEF LastLook, RecheckRoutes, RecheckSkipsHard, RecheckUndecided, Routable, TypeOK, Outcome
<1>15. ASSUME NEW r \in Request, Leave(r) PROVE TypeOK'
  BY <1>15, ForgetTypes, CountedSlot DEF Leave, TypeOK, Claimed
<1>16. ASSUME NEW r \in Request, IncrConn(r) PROVE TypeOK'
  BY <1>16 DEF IncrConn, TypeOK, RoutedHasNode
<1>17. ASSUME NEW r \in Request, DecrConn(r) PROVE TypeOK'
  BY <1>17 DEF DecrConn, TypeOK, RoutedHasNode
<1>18. ASSUME NEW r \in Request, NotifyAll(r) PROVE TypeOK'
  BY <1>18 DEF NotifyAll, TypeOK
<1>19. ASSUME NEW n \in Node, PollChanges(n) PROVE TypeOK'
  BY <1>19 DEF PollChanges, TypeOK
<1>20. CASE SetQueueMaxDepth
  BY <1>20 DEF SetQueueMaxDepth, TypeOK
<1>21. CASE SetQueueTimeout
  BY <1>21 DEF SetQueueTimeout, TypeOK
<1>22. CASE SetOverflowSLA
  BY <1>22 DEF SetOverflowSLA, TypeOK
<1>23. CASE Quantum
  BY <1>23 DEF Quantum, TypeOK
<1>24. CASE UNCHANGED vars
  BY <1>24 DEF vars, TypeOK
<1>. QED
  BY <1>1, <1>2, <1>3, <1>4, <1>5, <1>6, <1>7, <1>8, <1>9, <1>10, <1>11, <1>12, <1>13, <1>14, <1>15, <1>16, <1>17, <1>18, <1>19, <1>20, <1>21, <1>22, <1>23, <1>24 DEF Next, Waiting, Environment

\* A routed request keeps its node until its slot is released.
LEMMA StepNodes == IInv /\ [Next]_vars => RoutedHasNode'
<1>. SUFFICES ASSUME IInv, [Next]_vars PROVE RoutedHasNode'
  OBVIOUS
<1>. USE DEF IInv, TypeOK, RoutedHasNode
<1>1. ASSUME NEW r \in Request, Arrive(r) PROVE RoutedHasNode'
  BY <1>1 DEF Arrive
<1>2. ASSUME NEW r \in Request, ImmediateRoute(r) PROVE RoutedHasNode'
  BY <1>2 DEF ImmediateRoute, Routable
<1>3. ASSUME NEW r \in Request, ResolveCloud(r) PROVE RoutedHasNode'
  BY <1>3 DEF ResolveCloud, Refused, Forget
<1>4. ASSUME NEW r \in Request, LoadLimits(r) PROVE RoutedHasNode'
  BY <1>4 DEF LoadLimits, Refused, Forget
<1>5. ASSUME NEW r \in Request, ClaimSlot(r) PROVE RoutedHasNode'
  BY <1>5 DEF ClaimSlot, DepthAfterClaim
<1>6. ASSUME NEW r \in Request, RejectFull(r) PROVE RoutedHasNode'
  BY <1>6 DEF RejectFull, Refused, DepthAfterReject, Forget
<1>7. ASSUME NEW r \in Request, Admit(r) PROVE RoutedHasNode'
  BY <1>7 DEF Admit, SlaApplies
<1>8. ASSUME NEW r \in Request, CaptureNotify(r) PROVE RoutedHasNode'
  BY <1>8 DEF CaptureNotify
<1>9. ASSUME NEW r \in Request, SelectCtxDone(r) PROVE RoutedHasNode'
  BY <1>9 DEF SelectCtxDone
<1>10. ASSUME NEW r \in Request, SelectTimer(r) PROVE RoutedHasNode'
  BY <1>10 DEF SelectTimer
<1>11. ASSUME NEW r \in Request, SelectNotified(r) PROVE RoutedHasNode'
  BY <1>11 DEF SelectNotified
<1>12. ASSUME NEW r \in Request, SelectTick(r) PROVE RoutedHasNode'
  BY <1>12 DEF SelectTick
<1>13. ASSUME NEW r \in Request, Recheck(r) PROVE RoutedHasNode'
  BY <1>13 DEF Recheck, RecheckRoutes, RecheckSkipsHard, RecheckUndecided, Loop, Routable
<1>14. ASSUME NEW r \in Request, LastLook(r) PROVE RoutedHasNode'
  BY <1>14 DEF LastLook, RecheckRoutes, RecheckSkipsHard, RecheckUndecided, Routable
<1>15. ASSUME NEW r \in Request, Leave(r) PROVE RoutedHasNode'
  BY <1>15 DEF Leave, Forget
<1>16. ASSUME NEW r \in Request, IncrConn(r) PROVE RoutedHasNode'
  BY <1>16 DEF IncrConn
<1>17. ASSUME NEW r \in Request, DecrConn(r) PROVE RoutedHasNode'
  BY <1>17 DEF DecrConn
<1>18. ASSUME NEW r \in Request, NotifyAll(r) PROVE RoutedHasNode'
  BY <1>18 DEF NotifyAll
<1>19. ASSUME NEW n \in Node, PollChanges(n) PROVE RoutedHasNode'
  BY <1>19 DEF PollChanges
<1>20. CASE SetQueueMaxDepth
  BY <1>20 DEF SetQueueMaxDepth
<1>21. CASE SetQueueTimeout
  BY <1>21 DEF SetQueueTimeout
<1>22. CASE SetOverflowSLA
  BY <1>22 DEF SetOverflowSLA
<1>23. CASE Quantum
  BY <1>23 DEF Quantum
<1>24. CASE UNCHANGED vars
  BY <1>24 DEF vars
<1>. QED
  BY <1>1, <1>2, <1>3, <1>4, <1>5, <1>6, <1>7, <1>8, <1>9, <1>10, <1>11, <1>12, <1>13, <1>14, <1>15, <1>16, <1>17, <1>18, <1>19, <1>20, <1>21, <1>22, <1>23, <1>24 DEF Next, Waiting, Environment

\* Every step keeps the counters equal to what they count, and the ranking.
LEMMA StepSlots == IInv /\ [Next]_vars => SlotAccounting' /\ Ranked'
<1>. SUFFICES ASSUME IInv, [Next]_vars PROVE SlotAccounting' /\ Ranked'
  OBVIOUS
<1>. USE DEF fleet, config, claim, timing, signals
<1>1. ASSUME NEW r \in Request, Arrive(r) PROVE (SlotAccounting /\ Ranked)'
  BY <1>1, Quiet DEF Arrive, IInv, TypeOK, Claimed, Holders, Rank
<1>2. ASSUME NEW r \in Request, ImmediateRoute(r) PROVE (SlotAccounting /\ Ranked)'
  BY <1>2, Quiet DEF ImmediateRoute, Routable, IInv, TypeOK, Claimed, Holders, Rank
<1>3. ASSUME NEW r \in Request, ResolveCloud(r) PROVE (SlotAccounting /\ Ranked)'
  BY <1>3, Quiet DEF ResolveCloud, Refused, Forget, IInv, TypeOK, Claimed, Holders, Rank
<1>4. ASSUME NEW r \in Request, LoadLimits(r) PROVE (SlotAccounting /\ Ranked)'
  BY <1>4, Quiet DEF LoadLimits, Refused, Forget, IInv, TypeOK, Claimed, Holders, Rank
<1>5. ASSUME NEW r \in Request, ClaimSlot(r) PROVE (SlotAccounting /\ Ranked)'
  BY <1>5, SlotClaimed DEF ClaimSlot, DepthAfterClaim, IInv, TypeOK, Claimed, Holders, Rank
<1>6. ASSUME NEW r \in Request, RejectFull(r) PROVE (SlotAccounting /\ Ranked)'
  BY <1>6, SlotReturned DEF RejectFull, Refused, DepthAfterReject, Forget, IInv, TypeOK, Claimed, Holders, Rank
<1>7. ASSUME NEW r \in Request, Admit(r) PROVE (SlotAccounting /\ Ranked)'
  BY <1>7, Quiet DEF Admit, SlaApplies, DepthFits, IInv, TypeOK, Claimed, Holders, Rank
<1>8. ASSUME NEW r \in Request, CaptureNotify(r) PROVE (SlotAccounting /\ Ranked)'
  BY <1>8, Quiet DEF CaptureNotify, IInv, TypeOK, Claimed, Holders, Rank
<1>9. ASSUME NEW r \in Request, SelectCtxDone(r) PROVE (SlotAccounting /\ Ranked)'
  BY <1>9, Quiet DEF SelectCtxDone, IInv, TypeOK, Claimed, Holders, Rank
<1>10. ASSUME NEW r \in Request, SelectTimer(r) PROVE (SlotAccounting /\ Ranked)'
  BY <1>10, Quiet DEF SelectTimer, IInv, TypeOK, Claimed, Holders, Rank
<1>11. ASSUME NEW r \in Request, SelectNotified(r) PROVE (SlotAccounting /\ Ranked)'
  BY <1>11, Quiet DEF SelectNotified, IInv, TypeOK, Claimed, Holders, Rank
<1>12. ASSUME NEW r \in Request, SelectTick(r) PROVE (SlotAccounting /\ Ranked)'
  BY <1>12, Quiet DEF SelectTick, IInv, TypeOK, Claimed, Holders, Rank
<1>13. ASSUME NEW r \in Request, Recheck(r) PROVE (SlotAccounting /\ Ranked)'
  BY <1>13, Quiet DEF Recheck, RecheckRoutes, RecheckSkipsHard, RecheckUndecided, Loop, Routable, IInv, TypeOK, Claimed, Holders, Rank
<1>14. ASSUME NEW r \in Request, LastLook(r) PROVE (SlotAccounting /\ Ranked)'
  BY <1>14, Quiet DEF LastLook, RecheckRoutes, RecheckSkipsHard, RecheckUndecided, Routable, IInv, TypeOK, Claimed, Holders, Rank
<1>15. ASSUME NEW r \in Request, Leave(r) PROVE (SlotAccounting /\ Ranked)'
  BY <1>15, SlotReturned DEF Leave, Forget, IInv, TypeOK, Claimed, Holders, Rank
<1>16. ASSUME NEW r \in Request, IncrConn(r) PROVE (SlotAccounting /\ Ranked)'
  <2>1. Claimed' = Claimed /\ \A q \in Claimed : Rank(q)' = Rank(q)
    BY <1>16 DEF IncrConn, IInv, TypeOK, Claimed, Rank
  <2>2. /\ node[r] \in Node
        /\ Holders(node[r])' = Holders(node[r]) \cup {r}
        /\ r \notin Holders(node[r])
        /\ \A n \in Node \ {node[r]} : Holders(n)' = Holders(n)
    BY <1>16 DEF IncrConn, IInv, TypeOK, RoutedHasNode, Holders
  <2>3. Cardinality(Holders(node[r])') = Cardinality(Holders(node[r])) + 1
    BY <2>2, Sizes, FS_AddElement
  <2>4. SlotAccounting'
    BY <1>16, <2>1, <2>2, <2>3, Sizes DEF IncrConn, IInv, TypeOK, SlotAccounting
  <2>5. Ranked'
    BY <2>1 DEF IInv, Ranked
  <2>. QED
    BY <2>4, <2>5
<1>17. ASSUME NEW r \in Request, DecrConn(r) PROVE (SlotAccounting /\ Ranked)'
  <2>1. Claimed' = Claimed /\ \A q \in Claimed : Rank(q)' = Rank(q)
    BY <1>17 DEF DecrConn, IInv, TypeOK, Claimed, Rank
  <2>2. /\ node[r] \in Node
        /\ Holders(node[r])' = Holders(node[r]) \ {r}
        /\ r \in Holders(node[r])
        /\ \A n \in Node \ {node[r]} : Holders(n)' = Holders(n)
    BY <1>17 DEF DecrConn, IInv, TypeOK, RoutedHasNode, Holders
  <2>3. Cardinality(Holders(node[r])') = Cardinality(Holders(node[r])) - 1
    BY <2>2, Sizes, FS_RemoveElement
  <2>4. Cardinality(Holders(node[r])) > 0
    BY <2>2, Sizes, FS_EmptySet
  <2>5. SlotAccounting'
    BY <1>17, <2>1, <2>2, <2>3, <2>4, Sizes DEF DecrConn, IInv, TypeOK, SlotAccounting
  <2>6. Ranked'
    BY <2>1 DEF IInv, Ranked
  <2>. QED
    BY <2>5, <2>6
<1>18. ASSUME NEW r \in Request, NotifyAll(r) PROVE (SlotAccounting /\ Ranked)'
  BY <1>18, Quiet DEF NotifyAll, IInv, TypeOK, Claimed, Holders, Rank
<1>19. ASSUME NEW n \in Node, PollChanges(n) PROVE (SlotAccounting /\ Ranked)'
  BY <1>19, Quiet DEF PollChanges, IInv, TypeOK, Claimed, Holders, Rank
<1>20. CASE SetQueueMaxDepth
  BY <1>20, Quiet DEF SetQueueMaxDepth, IInv, TypeOK, Claimed, Holders, Rank
<1>21. CASE SetQueueTimeout
  BY <1>21, Quiet DEF SetQueueTimeout, IInv, TypeOK, Claimed, Holders, Rank
<1>22. CASE SetOverflowSLA
  BY <1>22, Quiet DEF SetOverflowSLA, IInv, TypeOK, Claimed, Holders, Rank
<1>23. CASE Quantum
  BY <1>23, Quiet DEF Quantum, IInv, TypeOK, Claimed, Holders, Rank
<1>24. CASE UNCHANGED vars
  BY <1>24, Quiet DEF vars, IInv, TypeOK, Claimed, Holders, Rank
<1>. QED
  BY <1>1, <1>2, <1>3, <1>4, <1>5, <1>6, <1>7, <1>8, <1>9, <1>10, <1>11, <1>12, <1>13, <1>14, <1>15, <1>16, <1>17, <1>18, <1>19, <1>20, <1>21, <1>22, <1>23, <1>24 DEF Next, Waiting, Environment

-----------------------------------------------------------------------------
LEMMA StepHolds == IInv /\ [Next]_vars => IInv'
BY StepTypes, StepNodes, StepSlots DEF IInv

\* Under every interleaving, every variable of the queue keeps its domain:
\* neither queueDepth nor an ActiveConns ever goes negative.
THEOREM TypeCorrect == Spec => []TypeOK
<1>1. IInv => TypeOK
  BY DEF IInv
<1>. QED
  BY <1>1, InitHolds, StepHolds, PTL DEF Spec

\* queueDepth and ActiveConns count exactly the requests that hold a slot, for
\* any number of requests and nodes: no way out of a wait leaks a slot
\* (queue_wait.go:134-148, queue.go:12-35).
THEOREM SlotsCounted == Spec => []SlotAccounting
<1>1. IInv => SlotAccounting
  BY DEF IInv
<1>. QED
  BY <1>1, InitHolds, StepHolds, PTL DEF Spec

\* The depth limit holds for any number of requests racing through the
\* add-then-check of queue_wait.go:134-139 while the limit is being changed.
THEOREM DepthBounded == Spec => []QueueBound
<1>1. IInv => QueueBound
  <2>1. SUFFICES ASSUME IInv, Admitted # {}
                 PROVE  \E r \in Admitted : Cardinality(Admitted) <= myMax[r]
    BY DEF QueueBound
  <2>2. Admitted \in SUBSET Claimed
    BY DEF Admitted, Claimed
  <2>3. PICK r \in Admitted : Cardinality(Admitted) <= Rank(r)
    BY <2>1, <2>2 DEF IInv, Ranked
  <2>. QED
    BY <2>3 DEF Rank, Admitted
<1>. QED
  BY <1>1, InitHolds, StepHolds, PTL DEF Spec

-----------------------------------------------------------------------------
(* Timers and wake-ups *)

\* A tick is due whenever the phase of the ticker wraps.
LEMMA Phase ==
    ASSUME NEW a \in Nat, NEW q \in Nat \ {0}
    PROVE  /\ a % q \in 0..(q - 1)
           /\ (a + 1) % q # 0 => (a + 1) % q = (a % q) + 1
<1>. DEFINE k == ((a + 1) \div q) - (a \div q)
<1>1. a % q \in 0..(q - 1) /\ (a + 1) % q \in 0..(q - 1)
  OBVIOUS
<1>2. /\ a = q * (a \div q) + (a % q)
      /\ a + 1 = q * ((a + 1) \div q) + ((a + 1) % q)
  OBVIOUS
<1>3. k \in Int /\ q * k = (a % q) + 1 - ((a + 1) % q)
  BY <1>2
<1>. HIDE DEF k
<1>4. k < 0 => q * k <= -q
  BY <1>3
<1>5. k > 0 => q * k >= q
  BY <1>3
<1>6. k = 0 => q * k = 0
  BY <1>3
<1>. QED
  BY <1>1, <1>3, <1>4, <1>5, <1>6

\* No step gives a wait up before its limit, and none cuts a limit to the SLA
\* for a request that cloud cannot take.
LEMMA StepTimely == IInv /\ Timely /\ [Next]_vars => Timely'
<1>. SUFFICES ASSUME IInv, Timely, [Next]_vars PROVE Timely'
  OBVIOUS
<1>. USE QueueAssumption DEF IInv, TypeOK, Timely, GiveUpIsDue, Admitted, fleet, config, claim, timing, signals
<1>1. ASSUME NEW r \in Request, Arrive(r) PROVE Timely'
  BY <1>1 DEF Arrive
<1>2. ASSUME NEW r \in Request, ImmediateRoute(r) PROVE Timely'
  BY <1>2 DEF ImmediateRoute, ClassifyNoRoute, Class
<1>3. ASSUME NEW r \in Request, ResolveCloud(r) PROVE Timely'
  BY <1>3 DEF ResolveCloud, Refused, Forget
<1>4. ASSUME NEW r \in Request, LoadLimits(r) PROVE Timely'
  <2>1. CASE Refused(r)
    BY <1>4, <2>1 DEF LoadLimits, Refused, Forget
  <2>2. CASE ~Refused(r)
    BY <1>4, <2>2 DEF LoadLimits
  <2>. QED
    BY <2>1, <2>2
<1>5. ASSUME NEW r \in Request, ClaimSlot(r) PROVE Timely'
  BY <1>5 DEF ClaimSlot, DepthAfterClaim
<1>6. ASSUME NEW r \in Request, RejectFull(r) PROVE Timely'
  BY <1>6 DEF RejectFull, Refused, DepthAfterReject, Forget
<1>7. ASSUME NEW r \in Request, Admit(r) PROVE Timely'
  BY <1>7 DEF Admit, SlaApplies
<1>8. ASSUME NEW r \in Request, CaptureNotify(r) PROVE Timely'
  BY <1>8 DEF CaptureNotify
<1>9. ASSUME NEW r \in Request, SelectCtxDone(r) PROVE Timely'
  BY <1>9 DEF SelectCtxDone
<1>10. ASSUME NEW r \in Request, SelectTimer(r) PROVE Timely'
  BY <1>10 DEF SelectTimer, TimerFired
<1>11. ASSUME NEW r \in Request, SelectNotified(r) PROVE Timely'
  BY <1>11 DEF SelectNotified
<1>12. ASSUME NEW r \in Request, SelectTick(r) PROVE Timely'
  BY <1>12 DEF SelectTick
<1>13. ASSUME NEW r \in Request, Recheck(r) PROVE Timely'
  BY <1>13 DEF Recheck, RecheckRoutes, RecheckSkipsHard, RecheckUndecided, Loop
<1>14. ASSUME NEW r \in Request, LastLook(r) PROVE Timely'
  BY <1>14 DEF LastLook, RecheckRoutes, RecheckSkipsHard, RecheckUndecided
<1>15. ASSUME NEW r \in Request, Leave(r) PROVE Timely'
  BY <1>15 DEF Leave, Forget
<1>16. ASSUME NEW r \in Request, IncrConn(r) PROVE Timely'
  BY <1>16 DEF IncrConn
<1>17. ASSUME NEW r \in Request, DecrConn(r) PROVE Timely'
  BY <1>17 DEF DecrConn
<1>18. ASSUME NEW r \in Request, NotifyAll(r) PROVE Timely'
  BY <1>18 DEF NotifyAll
<1>19. ASSUME NEW n \in Node, PollChanges(n) PROVE Timely'
  BY <1>19 DEF PollChanges
<1>20. CASE SetQueueMaxDepth
  BY <1>20 DEF SetQueueMaxDepth
<1>21. CASE SetQueueTimeout
  BY <1>21 DEF SetQueueTimeout
<1>22. CASE SetOverflowSLA
  BY <1>22 DEF SetOverflowSLA
<1>23. CASE Quantum
  BY <1>23 DEF Quantum
<1>24. CASE UNCHANGED vars
  BY <1>24 DEF vars
<1>. QED
  BY <1>1, <1>2, <1>3, <1>4, <1>5, <1>6, <1>7, <1>8, <1>9, <1>10, <1>11, <1>12, <1>13, <1>14, <1>15, <1>16, <1>17, <1>18, <1>19, <1>20, <1>21, <1>22, <1>23, <1>24 DEF Next, Waiting, Environment

\* No step lets a parked request fall behind its ticker.
LEMMA StepListening == IInv /\ Listening /\ [Next]_vars => Listening'
<1>. SUFFICES ASSUME IInv, Listening, [Next]_vars PROVE Listening'
  OBVIOUS
<1>. USE QueueAssumption DEF IInv, TypeOK, Listening, KeepFree, Routable, IsUnderCapacity, fleet, config, claim, timing, signals
<1>1. ASSUME NEW r \in Request, Arrive(r) PROVE Listening'
  BY <1>1 DEF Arrive
<1>2. ASSUME NEW r \in Request, ImmediateRoute(r) PROVE Listening'
  BY <1>2 DEF ImmediateRoute, ClassifyNoRoute, Class
<1>3. ASSUME NEW r \in Request, ResolveCloud(r) PROVE Listening'
  BY <1>3 DEF ResolveCloud, Refused, Forget
<1>4. ASSUME NEW r \in Request, LoadLimits(r) PROVE Listening'
  BY <1>4 DEF LoadLimits, Refused, Forget
<1>5. ASSUME NEW r \in Request, ClaimSlot(r) PROVE Listening'
  BY <1>5 DEF ClaimSlot, DepthAfterClaim
<1>6. ASSUME NEW r \in Request, RejectFull(r) PROVE Listening'
  BY <1>6 DEF RejectFull, Refused, DepthAfterReject, Forget
<1>7. ASSUME NEW r \in Request, Admit(r) PROVE Listening'
  BY <1>7 DEF Admit, SlaApplies
<1>8. ASSUME NEW r \in Request, CaptureNotify(r) PROVE Listening'
  BY <1>8 DEF CaptureNotify
<1>9. ASSUME NEW r \in Request, SelectCtxDone(r) PROVE Listening'
  BY <1>9 DEF SelectCtxDone
<1>10. ASSUME NEW r \in Request, SelectTimer(r) PROVE Listening'
  BY <1>10 DEF SelectTimer, TimerFired
<1>11. ASSUME NEW r \in Request, SelectNotified(r) PROVE Listening'
  BY <1>11 DEF SelectNotified
<1>12. ASSUME NEW r \in Request, SelectTick(r) PROVE Listening'
  BY <1>12 DEF SelectTick
<1>13. ASSUME NEW r \in Request, Recheck(r) PROVE Listening'
  BY <1>13 DEF Recheck, RecheckRoutes, RecheckSkipsHard, RecheckUndecided, Loop
<1>14. ASSUME NEW r \in Request, LastLook(r) PROVE Listening'
  BY <1>14 DEF LastLook, RecheckRoutes, RecheckSkipsHard, RecheckUndecided
<1>15. ASSUME NEW r \in Request, Leave(r) PROVE Listening'
  BY <1>15 DEF Leave, Forget
<1>16. ASSUME NEW r \in Request, IncrConn(r) PROVE Listening'
  BY <1>16 DEF IncrConn
<1>17. ASSUME NEW r \in Request, DecrConn(r) PROVE Listening'
  BY <1>17 DEF DecrConn
<1>18. ASSUME NEW r \in Request, NotifyAll(r) PROVE Listening'
  BY <1>18 DEF NotifyAll
<1>19. ASSUME NEW n \in Node, PollChanges(n) PROVE Listening'
  BY <1>19 DEF PollChanges
<1>20. CASE SetQueueMaxDepth
  BY <1>20 DEF SetQueueMaxDepth
<1>21. CASE SetQueueTimeout
  BY <1>21 DEF SetQueueTimeout
<1>22. CASE SetOverflowSLA
  BY <1>22 DEF SetOverflowSLA
<1>23. CASE Quantum
  <2>1. Routable' = {} => freeFor' = 0
    BY <1>23 DEF Quantum
  <2>2. ASSUME NEW r \in Request, pc[r] = "select", ~ticked'[r]
        PROVE  freeFor' <= age'[r] % RetryQuanta
    <3>1. freeFor <= age[r] % RetryQuanta /\ age'[r] = age[r] + 1
      BY <1>23, <2>2 DEF Quantum
    <3>2. (age[r] + 1) % RetryQuanta = (age[r] % RetryQuanta) + 1
      BY <1>23, <2>2, Phase DEF Quantum, TickDue
    <3>3. freeFor' <= freeFor + 1
      BY <1>23 DEF Quantum
    <3>4. freeFor' \in Int /\ freeFor \in Int /\ age[r] % RetryQuanta \in Int
      BY <1>23, Phase DEF Quantum
    <3>. QED
      BY <3>1, <3>2, <3>3, <3>4
  <2>3. \A r \in Request :
          pc'[r] \in {"resolve", "load", "claim", "check", "arm"} => freeFor' = 0
    BY <1>23 DEF Quantum, Blocked
  <2>4. pc' = pc
    BY <1>23 DEF Quantum
  <2>. QED
    BY <2>1, <2>2, <2>3, <2>4 DEF Listening
<1>24. CASE UNCHANGED vars
  BY <1>24 DEF vars
<1>. QED
  BY <1>1, <1>2, <1>3, <1>4, <1>5, <1>6, <1>7, <1>8, <1>9, <1>10, <1>11, <1>12, <1>13, <1>14, <1>15, <1>16, <1>17, <1>18, <1>19, <1>20, <1>21, <1>22, <1>23, <1>24 DEF Next, Waiting, Environment

\* A wait gives up only after its limit, and is cut to the SLA or skipped only
\* when cloud can take the request, whatever the settings do meanwhile
\* (queue_wait.go:150-159, 193-203).
THEOREM GiveUpsDue == Spec => []GiveUpIsDue
<1>1. Init => Timely
  BY DEF Init, Timely, GiveUpIsDue
<1>2. Timely => GiveUpIsDue
  BY DEF Timely
<1>. QED
  BY <1>1, <1>2, InitHolds, StepHolds, StepTimely, PTL DEF Spec

\* A slot that was free for a whole retry interval has woken every request
\* that waited that long: a close of the channel that a request missed costs
\* it at most one interval (queue_wait.go:163-167).
THEOREM NoSlotOverslept == Spec => []NoOversleptSlot
<1>1. Init => Listening
  BY DEF Init, Listening
<1>2. IInv /\ Listening => NoOversleptSlot
  <2>1. SUFFICES ASSUME IInv, Listening, NEW r \in Request, Blocked(r)
                 PROVE  freeFor < RetryQuanta
    BY DEF NoOversleptSlot
  <2>2. freeFor <= age[r] % RetryQuanta /\ age[r] \in Nat /\ freeFor \in Int
    BY <2>1 DEF Blocked, Listening, IInv, TypeOK
  <2>. QED
    BY <2>2, Phase, QueueAssumption
<1>. QED
  BY <1>1, <1>2, InitHolds, StepHolds, StepListening, PTL DEF Spec

=============================================================================
