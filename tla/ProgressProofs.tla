--------------------------- MODULE ProgressProofs ---------------------------
(***************************************************************************)
(* Proofs about the parts MCProgress composes: the stored drain flag, for  *)
(* any set of operators, any number of watchdogs and any breach limit; the *)
(* audit log's books and its refinement of the lossy log, for any number   *)
(* of calls of Log and of Close, any queue size and any interleaving of    *)
(* the two with the writer; the VRAM figures agent polls leave behind, for *)
(* any hosts, certificates and names; and what follows for the             *)
(* composition.                                                            *)
(***************************************************************************)
EXTENDS MCProgress, FiniteSetTheorems, SequenceTheorems, TLAPS

-----------------------------------------------------------------------------
(* The drain flag.  DrainAgrees says nothing while a row write is pending, *)
(* so it is not inductive: the last pending write decides what the row     *)
(* will hold.  OneValue is the strengthening: unless the node is excused,  *)
(* every pending write carries the value memory has.                       *)

OneValue ==
    present /\ ~excused => \A w \in Writers : Pending(w) => (draining <=> writer[w] = "set")

IInv == TypeOK /\ OneValue /\ DrainAgrees

\* Every initial state, the node not yet registered, satisfies the invariant.
LEMMA InitHolds == Init => IInv
<1> SUFFICES ASSUME Init PROVE IInv
  OBVIOUS
<1>1. breaches \in 0 .. BreachLimit + 1 /\ churn \in 0 .. MaxChurn
  BY DrainAssumption DEF Init
<1>2. TypeOK
  BY <1>1, Zenon DEF Init, TypeOK
<1>3. OneValue /\ DrainAgrees
  BY DEF Init, OneValue, DrainAgrees
<1> QED BY <1>2, <1>3 DEF IInv

\* A drain or undrain that has written memory: DrainNode and UndrainNode of
\* router.go, whoever calls them.
LEMMA MemoryWrite ==
  ASSUME IInv, NEW w \in Writers, DrainNode(w) \/ UndrainNode(w), present
  PROVE  IInv'
<1> USE DrainAssumption DEF IInv
<1>1. TypeOK'
  BY DEF TypeOK, DrainNode, UndrainNode, Crosses
<1>2. CASE DrainNode(w)
  <2>1. /\ present' /\ draining' = TRUE
        /\ writer' \in [Writers -> {"idle", "drain", "set", "clear"}]
        /\ writer'[w] = "set" /\ \A v \in Writers \ {w} : writer'[v] = writer[v]
    BY <1>1, <1>2 DEF DrainNode, TypeOK
  <2>2. OneValue'
    BY <1>2, <2>1 DEF OneValue, Pending, DrainNode, Crosses
  <2>3. DrainAgrees'
    BY <2>1 DEF DrainAgrees, Quiet, Pending
  <2> QED BY <1>1, <2>2, <2>3
<1>3. CASE UndrainNode(w)
  <2>1. /\ present' /\ draining' = FALSE
        /\ writer' \in [Writers -> {"idle", "drain", "set", "clear"}]
        /\ writer'[w] = "clear" /\ \A v \in Writers \ {w} : writer'[v] = writer[v]
    BY <1>1, <1>3 DEF UndrainNode, TypeOK
  <2>2. OneValue'
    BY <1>3, <2>1 DEF OneValue, Pending, UndrainNode, Crosses
  <2>3. DrainAgrees'
    BY <2>1 DEF DrainAgrees, Quiet, Pending
  <2> QED BY <1>1, <2>2, <2>3
<1> QED BY <1>2, <1>3

\* One reading of a watchdog changes no row and starts no write.
LEMMA Reading ==
  ASSUME IInv, NEW w \in Watchdogs, writer[w] = "idle", TrackHeat(w)
  PROVE  IInv'
<1> USE DrainAssumption DEF IInv
<1>1. TypeOK'
  BY DEF TypeOK, TrackHeat, Counted, Cooled, Writers
<1>2. \A v \in Writers : Pending(v)' <=> Pending(v)
  BY DEF TrackHeat, Pending, TypeOK, Writers
<1>3. \A v \in Writers : Pending(v) => writer'[v] = writer[v]
  BY DEF TrackHeat, Pending, TypeOK, Writers
<1>4. OneValue' /\ DrainAgrees'
  BY <1>2, <1>3 DEF OneValue, DrainAgrees, Quiet, TrackHeat
<1> QED BY <1>1, <1>4

\* Every step of the watchdogs, the operators, the store and the node's
\* registration keeps the invariant.
LEMMA StepHolds == IInv /\ [Next]_vars => IInv'
<1> SUFFICES ASSUME IInv, [Next]_vars PROVE IInv'
  OBVIOUS
<1> USE DrainAssumption DEF IInv
<1>1. CASE LocalPoll
  BY <1>1, Reading DEF LocalPoll
<1>2. CASE AgentPoll
  BY <1>2, Reading DEF AgentPoll
<1>3. ASSUME NEW w \in Watchdogs, ThermalDrain(w) PROVE IInv'
  <2>1. CASE present /\ DrainNode(w)
    BY <2>1, MemoryWrite DEF Writers
  <2>2. CASE ~present /\ writer' = [writer EXCEPT ![w] = "idle"]
             /\ UNCHANGED <<present, draining, breaches, row, local, heat, churn, excused>>
    BY <2>2 DEF TypeOK, OneValue, DrainAgrees, Writers
  <2> QED BY <1>3, <2>1, <2>2 DEF ThermalDrain
<1>4. ASSUME NEW w \in Operators, OperatorDrain(w) \/ OperatorUndrain(w) PROVE IInv'
  BY <1>4, MemoryWrite DEF OperatorDrain, OperatorUndrain, Writers
<1>5. ASSUME NEW w \in Writers, SetNodeDrain(w) PROVE IInv'
  <2>1. TypeOK'
    BY <1>5 DEF TypeOK, SetNodeDrain
  <2>2. \A v \in Writers : Pending(v)' => Pending(v) /\ writer'[v] = writer[v]
    BY <1>5 DEF TypeOK, SetNodeDrain, Pending
  <2>3. OneValue'
    BY <1>5, <2>2 DEF OneValue, SetNodeDrain
  <2>4. present /\ ~excused' => row' = draining
    BY <1>5 DEF OneValue, SetNodeDrain, TypeOK
  <2>5. DrainAgrees'
    BY <1>5, <2>4 DEF DrainAgrees, SetNodeDrain
  <2> QED BY <2>1, <2>3, <2>5
<1>6. CASE AddNode
  <2>1. breaches' \in 0 .. BreachLimit + 1 /\ churn' \in 0 .. MaxChurn
    BY <1>6 DEF AddNode, Churn, TypeOK
  <2>2. TypeOK'
    BY <1>6, <2>1, Zenon DEF AddNode, TypeOK
  <2>3. OneValue' /\ DrainAgrees'
    BY <1>6 DEF AddNode, TypeOK, OneValue, DrainAgrees, Quiet, Pending
  <2> QED BY <2>2, <2>3
<1>7. CASE RemoveNode
  <2>1. breaches' \in 0 .. BreachLimit + 1 /\ churn' \in 0 .. MaxChurn
    BY <1>7 DEF RemoveNode, Churn, TypeOK
  <2>2. TypeOK'
    BY <1>7, <2>1, Zenon DEF RemoveNode, TypeOK
  <2>3. OneValue' /\ DrainAgrees'
    BY <1>7 DEF RemoveNode, TypeOK, OneValue, DrainAgrees
  <2> QED BY <2>2, <2>3
<1>8. CASE ReplaceNode
  BY <1>8 DEF ReplaceNode, Churn, TypeOK, OneValue, DrainAgrees, Quiet, Pending
<1>9. CASE Restart
  <2>1. breaches' \in 0 .. BreachLimit + 1 /\ churn' \in 0 .. MaxChurn
    BY <1>9 DEF Restart, Churn, TypeOK
  <2>2. TypeOK'
    BY <1>9, <2>1, Zenon DEF Restart, TypeOK
  <2>3. OneValue' /\ DrainAgrees'
    BY <1>9 DEF Restart, TypeOK, OneValue, DrainAgrees, Quiet, Pending
  <2> QED BY <2>2, <2>3
<1>10. CASE WorldChange
  BY <1>10 DEF WorldChange, TypeOK, OneValue, DrainAgrees, Quiet, Pending
<1>11. CASE UNCHANGED vars
  BY <1>11 DEF vars, TypeOK, OneValue, DrainAgrees, Quiet, Pending
<1> QED BY <1>1, <1>2, <1>3, <1>4, <1>5, <1>6, <1>7, <1>8, <1>9, <1>10, <1>11 DEF Next

\* The drain flag, the breach count and the writers stay in their domains
\* under every interleaving of polls, admin requests, schedules and restarts.
THEOREM DrainTypes == Spec => []TypeOK
<1>1. IInv => TypeOK
  BY DEF IInv
<1> QED BY <1>1, InitHolds, StepHolds, PTL DEF Spec

\* Once no row write is pending, NodeState.Draining and the node_drain row
\* agree, for every set of operators and every breach limit: neither the
\* thermal watchdog nor an operator nor a schedule leaves a node that a
\* restart would silently undrain or drain, unless a drain and an undrain
\* crossed, a write of the row failed (and was ignored: admin.go:3760) or the
\* node was registered over a leftover row.
THEOREM DrainAgreement == Spec => []DrainAgrees
<1>1. Init => IInv
  BY InitHolds
<1>2. IInv /\ [Next]_vars => IInv'
  BY StepHolds
<1>3. IInv => DrainAgrees
  BY DEF IInv
<1> QED BY <1>1, <1>2, <1>3, PTL DEF Spec

-----------------------------------------------------------------------------
(* The audit log.                                                          *)

\* Close raises closed before it signals the writer, and returns after the
\* writer has stopped: this is what NothingStranded rests on.
CloseOrder ==
    /\ doneClosed => closed
    /\ logWriter # "select" => doneClosed
    /\ \A c \in Closers : closePc[c] = "flagged" => closed
    /\ \A c \in Closers : closePc[c] = "returned" => logWriter = "stopped"

AuditInv == AuditTypeOK /\ CloseOrder /\ NothingStranded /\ DropsCounted

Finished == {e \in Entries : logPc[e] = "done"}

\* The calls are finitely many, so their number is a natural.
LEMMA FinishedSize == IsFiniteSet(Finished) /\ Cardinality(Finished) \in Nat
<1>1. IsFiniteSet(Finished)
  BY AuditAssumption, FS_Subset DEF Finished
<1>. QED
  BY <1>1, FS_CardinalityType

\* A call that ends is one more finished call.
LEMMA OneMoreFinished ==
    ASSUME AuditTypeOK, NEW e \in Entries, logPc[e] # "done",
           logPc' = [logPc EXCEPT ![e] = "done"]
    PROVE  Cardinality(Finished') = Cardinality(Finished) + 1
<1>1. Finished' = Finished \cup {e} /\ e \notin Finished
  BY DEF AuditTypeOK, Finished
<1>. QED
  BY <1>1, FinishedSize, FS_AddElement

LEMMA AuditInitHolds == AuditInit => AuditInv
<1>. SUFFICES ASSUME AuditInit PROVE AuditInv
  OBVIOUS
<1>1. AuditTypeOK
  <2>1. writes \in Seq(Entries) /\ table \in Seq(Entries)
    BY EmptySeq DEF AuditInit
  <2>. QED
    BY <2>1 DEF AuditInit, AuditTypeOK
<1>2. CloseOrder /\ NothingStranded
  BY DEF AuditInit, CloseOrder, NothingStranded
<1>3. DropsCounted
  <2>1. Cardinality({e \in Entries : logPc[e] = "done"}) = 0
    BY FS_EmptySet DEF AuditInit
  <2>2. Len(table) = 0 /\ Len(writes) = 0
    BY DEF AuditInit
  <2>. QED
    BY <2>1, <2>2 DEF AuditInit, DropsCounted
<1>. QED
  BY <1>1, <1>2, <1>3 DEF AuditInv

\* Every step of Log, the writer and Close keeps the books.
LEMMA AuditStepHolds == AuditInv /\ [AuditNext]_auditVars => AuditInv'
<1>. SUFFICES ASSUME AuditInv, [AuditNext]_auditVars PROVE AuditInv'
  OBVIOUS
<1>. USE AuditAssumption, FinishedSize DEF AuditInv, writerVars, closeVars
<1>1. CASE SetEnabled
  BY <1>1 DEF SetEnabled, AuditTypeOK, CloseOrder, NothingStranded, DropsCounted
<1>2. ASSUME NEW e \in Entries, LoadEnabled(e) PROVE AuditInv'
  <2>1. AuditTypeOK' /\ CloseOrder' /\ NothingStranded'
    BY <1>2 DEF LoadEnabled, AuditTypeOK, CloseOrder, NothingStranded
  <2>2. CASE enabled
    <3>1. Finished' = Finished
      BY <1>2, <2>2 DEF LoadEnabled, AuditTypeOK, Finished
    <3>2. uncounted' = uncounted
      BY <1>2, <2>2 DEF LoadEnabled, AuditTypeOK
    <3>. QED
      BY <1>2, <2>1, <3>1, <3>2 DEF LoadEnabled, DropsCounted, Finished
  <2>3. CASE ~enabled
    <3>1. Cardinality(Finished') = Cardinality(Finished) + 1
      BY <1>2, <2>3, OneMoreFinished DEF LoadEnabled
    <3>. QED
      BY <1>2, <2>1, <2>3, <3>1 DEF LoadEnabled, AuditTypeOK, DropsCounted, Finished
  <2>. QED
    BY <2>2, <2>3
<1>3. ASSUME NEW e \in Entries, CheckAndSend(e) PROVE AuditInv'
  <2>1. CASE ~closed /\ Len(writes) < WriteQueueSize
    <3>1. /\ writes' = Append(writes, e) /\ writes' \in Seq(Entries)
          /\ Len(writes') = Len(writes) + 1
      BY <1>3, <2>1, AppendProperties DEF CheckAndSend, AuditTypeOK
    <3>2. AuditTypeOK' /\ CloseOrder' /\ NothingStranded'
      BY <1>3, <2>1, <3>1 DEF CheckAndSend, AuditTypeOK, CloseOrder, NothingStranded
    <3>3. Cardinality(Finished') = Cardinality(Finished) + 1
      BY <1>3, <2>1, OneMoreFinished DEF CheckAndSend
    <3>. QED
      BY <1>3, <3>1, <3>2, <3>3 DEF CheckAndSend, AuditTypeOK, DropsCounted, Finished
  <2>2. CASE ~(~closed /\ Len(writes) < WriteQueueSize)
    <3>1. AuditTypeOK' /\ CloseOrder' /\ NothingStranded'
      BY <1>3, <2>2 DEF CheckAndSend, AuditTypeOK, CloseOrder, NothingStranded
    <3>2. Finished' = Finished
      BY <1>3, <2>2 DEF CheckAndSend, AuditTypeOK, Finished
    <3>. QED
      BY <1>3, <2>2, <3>1, <3>2 DEF CheckAndSend, DropsCounted, Finished
  <2>. QED
    BY <2>1, <2>2
<1>4. ASSUME NEW e \in Entries, RecordDrop(e) PROVE AuditInv'
  <2>1. AuditTypeOK' /\ CloseOrder' /\ NothingStranded'
    BY <1>4 DEF RecordDrop, AuditTypeOK, CloseOrder, NothingStranded
  <2>2. Cardinality(Finished') = Cardinality(Finished) + 1
    BY <1>4, OneMoreFinished DEF RecordDrop
  <2>. QED
    BY <1>4, <2>1, <2>2 DEF RecordDrop, AuditTypeOK, DropsCounted, Finished
<1>5. CASE Receive
  <2>1. /\ Head(writes) \in Entries /\ Tail(writes) \in Seq(Entries)
        /\ Len(Tail(writes)) = Len(writes) - 1 /\ Len(writes) \in Nat \ {0}
    BY <1>5 DEF Receive, AuditTypeOK
  <2>2. AuditTypeOK' /\ CloseOrder' /\ NothingStranded'
    BY <1>5, <2>1 DEF Receive, AuditTypeOK, CloseOrder, NothingStranded
  <2>3. hand = NoEntry /\ hand' # NoEntry /\ Len(writes') + 1 = Len(writes)
    BY <1>5, <2>1, AuditAssumption DEF Receive
  <2>4. Len(table) \in Nat
    BY DEF AuditTypeOK
  <2>. QED
    BY <1>5, <2>1, <2>2, <2>3, <2>4 DEF Receive, AuditTypeOK, DropsCounted
<1>6. ASSUME NEW ok \in BOOLEAN, Append_(ok) PROVE AuditInv'
  <2>1. /\ Append(table, hand) \in Seq(Entries)
        /\ Len(Append(table, hand)) = Len(table) + 1 /\ Len(table) \in Nat
    BY <1>6, AppendProperties DEF Append_, AuditTypeOK
  <2>2. Len(writes) \in Nat
    BY DEF AuditTypeOK
  <2>3. CASE ok
    <3>1. table' = Append(table, hand) /\ hand # NoEntry /\ hand' = NoEntry
      BY <1>6, <2>3 DEF Append_
    <3>2. AuditTypeOK' /\ CloseOrder' /\ NothingStranded'
      BY <1>6, <2>1, <2>3, <3>1 DEF Append_, AuditTypeOK, CloseOrder, NothingStranded
    <3>3. Len(table') = Len(table) + 1 /\ UNCHANGED <<logPc, writes, dropped, uncounted>>
      BY <1>6, <2>1, <2>3, <3>1 DEF Append_
    <3>4. DropsCounted'
      BY <2>1, <2>2, <3>1, <3>3 DEF AuditTypeOK, DropsCounted
    <3>. QED
      BY <3>2, <3>4
  <2>4. CASE ~ok
    BY <1>6, <2>1, <2>2, <2>4
       DEF Append_, AuditTypeOK, CloseOrder, NothingStranded, DropsCounted
  <2>. QED
    BY <2>3, <2>4
<1>7. CASE SeeDone
  BY <1>7 DEF SeeDone, AuditTypeOK, CloseOrder, NothingStranded, DropsCounted
<1>8. CASE Drained
  BY <1>8 DEF Drained, AuditTypeOK, CloseOrder, NothingStranded, DropsCounted
<1>9. ASSUME NEW c \in Closers, Closing(c) PROVE AuditInv'
  BY <1>9 DEF Closing, FlagClosed, SignalDone, CloseReturns, CloseAgain,
              AuditTypeOK, CloseOrder, NothingStranded, DropsCounted
<1>10. CASE UNCHANGED auditVars
  BY <1>10 DEF auditVars, AuditTypeOK, CloseOrder, NothingStranded, DropsCounted
<1>. QED
  BY <1>1, <1>2, <1>3, <1>4, <1>5, <1>6, <1>7, <1>8, <1>9, <1>10
     DEF AuditNext, Logging, Writer

\* No entry is left behind by Close, and every finished call of Log is a row, an
\* entry on its way, a counted drop, a failed insert or a call made while logging
\* was off: for any number of calls and closers and any queue size (audit.go,
\* Log, run and Close).
THEOREM AuditBooks == AuditSpec => [](AuditTypeOK /\ NothingStranded /\ DropsCounted)
<1>1. AuditInv => AuditTypeOK /\ NothingStranded /\ DropsCounted
  BY DEF AuditInv
<1>. QED
  BY <1>1, AuditInitHolds, AuditStepHolds, PTL DEF AuditSpec

-----------------------------------------------------------------------------
(* The audit log implements the lossy log.                                 *)

\* What was accepted and is not settled, oldest first.
Outstanding == IF hand = NoEntry THEN writes ELSE <<hand>> \o writes

\* Taking the oldest entry in hand changes nothing for the lossy log.
LEMMA HeadInHand ==
    ASSUME NEW S, NEW q \in Seq(S), q # <<>>
    PROVE  <<Head(q)>> \o Tail(q) = q
<1>1. /\ Head(q) \in S /\ Tail(q) \in Seq(S) /\ <<Head(q)>> \in Seq(S)
      /\ Len(Tail(q)) = Len(q) - 1 /\ Len(q) \in Nat \ {0}
      /\ \A i \in 1 .. Len(Tail(q)) : Tail(q)[i] = q[i + 1]
  BY HeadTailProperties, EmptySeq
<1>2. /\ <<Head(q)>> \o Tail(q) \in Seq(S)
      /\ Len(<<Head(q)>> \o Tail(q)) = Len(q)
      /\ \A i \in 1 .. Len(q) :
           (<<Head(q)>> \o Tail(q))[i] = IF i = 1 THEN Head(q) ELSE Tail(q)[i - 1]
  BY <1>1, ConcatProperties
<1>3. \A i \in 1 .. Len(q) : (<<Head(q)>> \o Tail(q))[i] = q[i]
  BY <1>1, <1>2
<1>. QED
  BY <1>2, <1>3, SeqEqual

\* The entry in hand is the oldest one outstanding.
LEMMA HandFirst ==
    ASSUME NEW S, NEW q \in Seq(S), NEW h \in S
    PROVE  /\ <<h>> \o q # <<>>
           /\ Head(<<h>> \o q) = h /\ Tail(<<h>> \o q) = q
           /\ \A e \in S : <<h>> \o Append(q, e) = Append(<<h>> \o q, e)
<1>1. /\ <<h>> \in Seq(S) /\ <<h>> \o q \in Seq(S) /\ Len(<<h>> \o q) = Len(q) + 1
      /\ \A i \in 1 .. Len(q) + 1 : (<<h>> \o q)[i] = IF i = 1 THEN h ELSE q[i - 1]
  BY ConcatProperties
<1>2. <<h>> \o q # <<>> /\ Head(<<h>> \o q) = h
  BY <1>1, EmptySeq
<1>3. Tail(<<h>> \o q) = q
  <2>1. /\ Tail(<<h>> \o q) \in Seq(S) /\ Len(Tail(<<h>> \o q)) = Len(q)
        /\ \A i \in 1 .. Len(q) : Tail(<<h>> \o q)[i] = (<<h>> \o q)[i + 1]
    BY <1>1, <1>2, HeadTailProperties
  <2>2. \A i \in 1 .. Len(q) : Tail(<<h>> \o q)[i] = q[i]
    BY <1>1, <2>1
  <2>. QED
    BY <2>1, <2>2, SeqEqual
<1>4. ASSUME NEW e \in S PROVE <<h>> \o Append(q, e) = Append(<<h>> \o q, e)
  <2>1. <<e>> \in Seq(S) /\ Append(q, e) = q \o <<e>>
        /\ Append(<<h>> \o q, e) = (<<h>> \o q) \o <<e>>
    BY <1>1, AppendIsConcat
  <2>. QED
    BY <1>1, <2>1, ConcatAssociative
<1>. QED
  BY <1>2, <1>3, <1>4

\* A caller of Close has returned.
Ended == \E c \in Closers : closePc[c] = "returned"

\* Each step of the logger is a step of the lossy log or invisible to it: a send
\* is an acceptance, an insert settles the oldest entry, a counted drop is a
\* loss, and the first Close to return ends the log.
LEMMA AuditStepRefines == AuditInv /\ [AuditNext]_auditVars => [Abstract!LossyNext]_(Abstract!lossyVars)
<1>. SUFFICES ASSUME AuditInv, [AuditNext]_auditVars
              PROVE  [Abstract!LossyNext]_(Abstract!lossyVars)
  OBVIOUS
<1>. USE AuditAssumption DEF AuditInv, writerVars, closeVars, Outstanding, Ended
<1>. DEFINE Stutter == UNCHANGED <<Outstanding, table, dropped, Ended>>
            Accepts(e) == /\ ~Ended /\ Outstanding' = Append(Outstanding, e)
                          /\ UNCHANGED <<table, dropped, Ended>>
            Settles == /\ Outstanding # <<>> /\ Outstanding' = Tail(Outstanding)
                       /\ table' \in {table, Append(table, Head(Outstanding))}
                       /\ UNCHANGED <<dropped, Ended>>
            Loses == dropped' = dropped + 1 /\ UNCHANGED <<Outstanding, table, Ended>>
            Ends == /\ Outstanding = <<>> /\ Ended' = TRUE
                    /\ UNCHANGED <<Outstanding, table, dropped>>
<1>0. UNCHANGED <<Outstanding, table, dropped, closePc>> => Stutter
  <2>1. closePc' = closePc => Ended' = Ended
    OBVIOUS
  <2>. QED
    BY <2>1
<1>1. ASSUME NEW e \in Entries, CheckAndSend(e) PROVE Accepts(e) \/ Stutter
  <2>1. CASE ~closed /\ Len(writes) < WriteQueueSize
    <3>1. ~Ended /\ Ended' = Ended /\ UNCHANGED <<table, dropped, hand>> /\ writes' = Append(writes, e)
      BY <1>1, <2>1 DEF CheckAndSend, CloseOrder
    <3>2. Outstanding' = Append(Outstanding, e)
      BY <3>1, HandFirst DEF AuditTypeOK
    <3>. QED
      BY <3>1, <3>2
  <2>2. CASE ~(~closed /\ Len(writes) < WriteQueueSize)
    BY <1>1, <2>2 DEF CheckAndSend
  <2>. QED
    BY <2>1, <2>2
<1>2. ASSUME Receive PROVE Stutter
  <2>1. /\ Outstanding = writes /\ Outstanding' = <<Head(writes)>> \o Tail(writes)
        /\ UNCHANGED <<table, dropped, closePc>>
    BY <1>2, HeadTailProperties DEF Receive, AuditTypeOK
  <2>2. Outstanding' = Outstanding
    BY <1>2, <2>1, HeadInHand DEF Receive, AuditTypeOK
  <2>. QED
    BY <1>0, <2>1, <2>2
<1>3. ASSUME NEW ok \in BOOLEAN, Append_(ok) PROVE Settles
  <2>1. /\ hand \in Entries /\ writes \in Seq(Entries) /\ hand' = NoEntry
        /\ table' \in {table, Append(table, hand)}
        /\ UNCHANGED <<writes, dropped, closePc>>
    BY <1>3 DEF Append_, AuditTypeOK
  <2>. QED
    BY <2>1, HandFirst
<1>4. ASSUME NEW e \in Entries, RecordDrop(e) PROVE Loses
  BY <1>4 DEF RecordDrop
<1>5. ASSUME NEW c \in Closers, Closing(c) PROVE Ends \/ Stutter
  <2>1. CASE FlagClosed(c) \/ SignalDone(c)
    BY <2>1 DEF FlagClosed, SignalDone, AuditTypeOK
  <2>2. CASE CloseReturns(c) \/ CloseAgain(c)
    <3>1. logWriter = "stopped" /\ Ended'
      BY <2>2 DEF CloseReturns, CloseAgain, AuditTypeOK, CloseOrder
    <3>. QED
      BY <2>2, <3>1 DEF CloseReturns, CloseAgain, NothingStranded
  <2>. QED
    BY <1>5, <2>1, <2>2 DEF Closing
<1>6. ASSUME SetEnabled PROVE Stutter
  BY <1>0, <1>6 DEF SetEnabled
<1>7. ASSUME NEW e \in Entries, LoadEnabled(e) PROVE Stutter
  BY <1>0, <1>7 DEF LoadEnabled
<1>8. ASSUME SeeDone \/ Drained PROVE Stutter
  BY <1>0, <1>8 DEF SeeDone, Drained
<1>9. ASSUME UNCHANGED auditVars PROVE Stutter
  BY <1>0, <1>9 DEF auditVars
<1>. QED
  BY <1>1, <1>2, <1>3, <1>4, <1>5, <1>6, <1>7, <1>8, <1>9
     DEF AuditNext, Logging, Writer, Abstract!LossyNext, Abstract!lossyVars,
         Abstract!Accept, Abstract!Settle, Abstract!Lose, Abstract!End

\* The logger implements the lossy log: acceptance order, no duplicates, nothing
\* outstanding or accepted once Close has returned.
THEOREM AuditRefines == AuditSpec => Abstract!LossySpec
<1>1. AuditInit => Abstract!LossyInit
  BY DEF AuditInit, Abstract!LossyInit
<1>. QED
  BY <1>1, AuditInitHolds, AuditStepHolds, AuditStepRefines, PTL DEF AuditSpec, Abstract!LossySpec

-----------------------------------------------------------------------------
(* The agent poll.                                                         *)

NodeRecord ==
    [name : Names, host : Hosts, port : Ports \cup {NoPort}, local : BOOLEAN,
     declared : BOOLEAN, source : Sources, fingerprint : Certificates \cup {NoPin},
     present : BOOLEAN, failures : Nat, stale : BOOLEAN, unknown : BOOLEAN,
     mismatch : BOOLEAN, live : BOOLEAN, detected : BOOLEAN,
     pin : RuntimeIds \cup {NoId}, polled : BOOLEAN]
Runtimes == [RuntimeIds -> Ports \cup {NoPort}]
CycleRecord ==
    [pc : {"idle", "clear", "poll"}, clear : SUBSET Objects, groups : [Hosts -> SUBSET Objects]]
MemberRecord ==
    [pc : {"idle", "ask", "record", "forget", "apply", "reachable", "failed"},
     left : SUBSET Objects, at : Objects, answer : Answers \cup {"refused", "mismatch"},
     runtimes : Runtimes, gpu : GpuBlocks]
WorldRecord ==
    [answer : Answers, gpu : GpuBlocks, cert : Certificates \cup {CaSigned}, runtimes : Runtimes]

\* AgentVRAMBacked of one record.
Backed(n) == n.polled /\ n.source = "agent" => n.present /\ ~n.unknown

\* A record as it is kept between two critical sections.
Kept == {n \in NodeRecord : n.failures <= AgentThreshold}

\* AgentVRAMBacked with the shape of everything the poll carries from one lock to
\* the next; the records that left the fleet, which a cycle may still write, need
\* not be backed.
AgentInv ==
    /\ objects \in 0 .. MaxNodeObjects /\ fleet \subseteq 1 .. objects
    /\ agentsOn \subseteq Hosts /\ evidence \subseteq Hosts
    /\ prevAgent \in [Names -> {"unseen", "up", "down"}]
    /\ agentNode \in [Objects -> Kept]
    /\ cycle \in CycleRecord
    /\ member \in [Hosts -> MemberRecord]
    /\ agentWorld \in [Hosts -> WorldRecord]
    /\ \A o \in fleet : Backed(agentNode[o])

LEMMA AgentInvGives == AgentInv => AgentTypeOK /\ AgentVRAMBacked
<1>. SUFFICES ASSUME AgentInv PROVE AgentTypeOK /\ AgentVRAMBacked
  OBVIOUS
<1>1. \A o \in Objects : /\ agentNode[o].source \in Sources
                         /\ agentNode[o].failures \in 0 .. AgentThreshold
                         /\ agentNode[o].pin \in RuntimeIds \cup {NoId}
  <2>1. TAKE o \in Objects
  <2>2. agentNode[o] \in NodeRecord /\ agentNode[o].failures <= AgentThreshold
    BY DEF AgentInv, Kept
  <2>. QED
    BY <2>2 DEF NodeRecord
<1>2. cycle.pc \in {"idle", "clear", "poll"}
  BY DEF AgentInv, CycleRecord
<1>3. \A h \in Hosts : member[h].pc \in
        {"idle", "ask", "record", "forget", "apply", "reachable", "failed"}
  BY DEF AgentInv, MemberRecord
<1>. QED
  BY <1>1, <1>2, <1>3 DEF AgentInv, AgentTypeOK, AgentVRAMBacked, Backed

(* What the handlers make of one record. *)

\* The fall-back takes the figure and touches nothing else.
LEMMA FigureDropped ==
    ASSUME NEW n \in NodeRecord
    PROVE  LET m == DropAgentVRAM(n) IN
           /\ m \in NodeRecord /\ m.source # "agent"
           /\ m.failures = n.failures /\ m.present = n.present /\ m.unknown = n.unknown
<1>. DEFINE s == IF n.declared THEN "declared" ELSE "none"
<1>1. s \in Sources /\ s # "agent"
  BY DEF Sources
<1>. HIDE DEF s
<1>2. [n EXCEPT !.source = s] \in NodeRecord
  BY <1>1 DEF NodeRecord
<1>3. /\ [n EXCEPT !.source = s].source = s
      /\ [n EXCEPT !.source = s].failures = n.failures
      /\ [n EXCEPT !.source = s].present = n.present
      /\ [n EXCEPT !.source = s].unknown = n.unknown
  BY DEF NodeRecord
<1>4. DropAgentVRAM(n) = IF n.source = "agent" THEN [n EXCEPT !.source = s] ELSE n
  BY DEF s, DropAgentVRAM, FallBackAgentVRAM
<1>. QED
  BY <1>1, <1>2, <1>3, <1>4

\* clearAgentTelemetry leaves no figure of the agent behind.
LEMMA ClearedRecord ==
    ASSUME NEW n \in NodeRecord
    PROVE  /\ ClearAgentTelemetry(n) \in NodeRecord
           /\ ClearAgentTelemetry(n).source # "agent"
           /\ ClearAgentTelemetry(n).failures = 0
<1>. DEFINE unheard == [ClearLiveReadings(n) EXCEPT
                       !.failures = 0, !.present = FALSE, !.unknown = FALSE]
            bare == [unheard EXCEPT !.detected = FALSE, !.pin = NoId]
<1>1. ClearLiveReadings(n) \in NodeRecord
  BY DEF NodeRecord, ClearLiveReadings
<1>2. unheard \in NodeRecord
  BY <1>1, Zenon DEF NodeRecord
<1>3. unheard.failures = 0
  BY <1>1 DEF NodeRecord
<1>. HIDE DEF unheard
<1>4. bare \in NodeRecord
  BY <1>2, Zenon DEF NodeRecord
<1>5. bare.failures = 0
  BY <1>2, <1>3 DEF NodeRecord
<1>6. ClearAgentTelemetry(n) = DropAgentVRAM(bare)
  BY DEF unheard, bare, ClearAgentTelemetry
<1>. HIDE DEF bare
<1>. QED
  BY <1>4, <1>5, <1>6, FigureDropped

\* Neither does a report that is too large.
LEMMA OversizeRecord ==
    ASSUME NEW n \in NodeRecord
    PROVE  /\ ApplyOversizeTelemetry(n) \in NodeRecord
           /\ ApplyOversizeTelemetry(n).source # "agent"
           /\ ApplyOversizeTelemetry(n).failures = 0
<1>. DEFINE bare == [ClearLiveReadings(n) EXCEPT
                !.failures = 0, !.present = TRUE, !.stale = FALSE, !.unknown = TRUE]
<1>1. ClearLiveReadings(n) \in NodeRecord
  BY DEF NodeRecord, ClearLiveReadings
<1>2. bare \in NodeRecord
  BY <1>1, Zenon DEF NodeRecord
<1>3. bare.failures = 0
  BY <1>1 DEF NodeRecord
<1>. HIDE DEF bare
<1>. QED
  BY <1>2, <1>3, FigureDropped DEF bare, ApplyOversizeTelemetry

\* A report makes the record present and readable, whatever its GPU block says.
LEMMA ReportedRecord ==
    ASSUME NEW n \in NodeRecord, NEW rs \in Runtimes, NEW gpu \in GpuBlocks
    PROVE  LET m == ApplyAgentTelemetry(n, rs, gpu) IN
           m \in NodeRecord /\ m.present /\ ~m.unknown /\ m.failures = 0
<1>. DEFINE heard == [n EXCEPT !.failures = 0, !.present = TRUE, !.stale = FALSE,
                              !.unknown = FALSE, !.live = TRUE]
            figures == ReportedVRAM(heard, gpu)
<1>1. heard \in NodeRecord /\ heard.present /\ ~heard.unknown /\ heard.failures = 0
  BY DEF NodeRecord
<1>. HIDE DEF heard
<1>2. figures \in NodeRecord /\ figures.present /\ ~figures.unknown /\ figures.failures = 0
  BY <1>1 DEF NodeRecord, ReportedVRAM, DropAgentVRAM, FallBackAgentVRAM, Sources
<1>3. MatchRuntime(figures, rs) \in RuntimeIds \cup {NoId}
  BY <1>2 DEF NodeRecord, MatchRuntime
<1>4. MatchDeployment(figures, rs) \in BOOLEAN
  BY DEF MatchDeployment
<1>. HIDE DEF figures
<1>5. LET m == ReportedRuntime(figures, rs) IN
      m \in NodeRecord /\ m.present /\ ~m.unknown /\ m.failures = 0
  <2>. DEFINE p == MatchRuntime(figures, rs)
              d == MatchDeployment(figures, rs)
              m == [figures EXCEPT !.pin = p, !.detected = d]
  <2>1. p \in RuntimeIds \cup {NoId} /\ d \in BOOLEAN
    BY <1>3, <1>4
  <2>. HIDE DEF p, d
  <2>2. m \in NodeRecord
    BY <1>2, <2>1 DEF NodeRecord
  <2>3. m.present = figures.present /\ m.unknown = figures.unknown
        /\ m.failures = figures.failures
    BY <1>2 DEF NodeRecord
  <2>4. ReportedRuntime(figures, rs) = m
    BY DEF p, d, ReportedRuntime
  <2>. QED
    BY <1>2, <2>2, <2>3, <2>4
<1>. QED
  BY <1>5 DEF heard, figures, ApplyAgentTelemetry

\* What the three writes of a cycle and the health poll leave is kept and backed.
LEMMA ClearedKept ==
    ASSUME NEW n \in Kept
    PROVE  LET m == [ClearAgentTelemetry(n) EXCEPT !.stale = FALSE, !.mismatch = FALSE,
                                                   !.polled = TRUE] IN
           m \in Kept /\ Backed(m)
<1>. DEFINE c == ClearAgentTelemetry(n)
<1>1. c \in NodeRecord /\ c.source # "agent" /\ c.failures = 0
  BY ClearedRecord DEF Kept
<1>. HIDE DEF c
<1>. DEFINE m == [c EXCEPT !.stale = FALSE, !.mismatch = FALSE, !.polled = TRUE]
<1>2. m \in NodeRecord /\ m.source # "agent" /\ m.failures = 0
  BY <1>1 DEF NodeRecord
<1>. HIDE DEF m
<1>3. m \in Kept /\ Backed(m)
  BY <1>2, AgentPollAssumption DEF Kept, Backed
<1>. QED
  BY <1>3 DEF c, m

LEMMA AppliedKept ==
    ASSUME NEW n \in Kept, NEW m \in MemberRecord
    PROVE  LET heard == [n EXCEPT !.mismatch = FALSE, !.polled = TRUE]
               after == IF m.answer = "report" THEN ApplyAgentTelemetry(heard, m.runtimes, m.gpu)
                        ELSE ApplyOversizeTelemetry(heard) IN
           after \in Kept /\ Backed(after)
<1>. DEFINE heard == [n EXCEPT !.mismatch = FALSE, !.polled = TRUE]
<1>1. heard \in NodeRecord
  <2>1. n \in NodeRecord
    BY DEF Kept
  <2>. QED
    BY <2>1 DEF NodeRecord
<1>2. m.runtimes \in Runtimes /\ m.gpu \in GpuBlocks
  BY DEF MemberRecord
<1>. HIDE DEF heard
<1>3. /\ ApplyAgentTelemetry(heard, m.runtimes, m.gpu) \in Kept
      /\ Backed(ApplyAgentTelemetry(heard, m.runtimes, m.gpu))
  BY <1>1, <1>2, ReportedRecord, AgentPollAssumption DEF Kept, Backed
<1>4. ApplyOversizeTelemetry(heard) \in Kept /\ Backed(ApplyOversizeTelemetry(heard))
  BY <1>1, OversizeRecord, AgentPollAssumption DEF Kept, Backed
<1>. QED
  BY <1>3, <1>4 DEF heard

LEMMA FailedKept ==
    ASSUME NEW n \in Kept, NEW wrong \in BOOLEAN
    PROVE  LET failed == [n EXCEPT !.mismatch = wrong, !.failures = @ + 1]
               after == IF failed.failures >= AgentThreshold
                        THEN [ClearAgentTelemetry(failed) EXCEPT !.stale = TRUE, !.polled = TRUE]
                        ELSE failed IN
           after \in Kept /\ (Backed(n) => Backed(after))
<1>. DEFINE failed == [n EXCEPT !.mismatch = wrong, !.failures = @ + 1]
            c == ClearAgentTelemetry(failed)
            dark == [c EXCEPT !.stale = TRUE, !.polled = TRUE]
<1>1. failed \in NodeRecord /\ (Backed(n) => Backed(failed))
  <2>1. n \in NodeRecord
    BY DEF Kept
  <2>2. failed \in NodeRecord
    <3>1. n.failures + 1 \in Nat
      BY <2>1 DEF NodeRecord
    <3>2. \A k \in Nat : [n EXCEPT !.mismatch = wrong, !.failures = k] \in NodeRecord
      BY <2>1 DEF NodeRecord
    <3>. QED
      BY <3>1, <3>2
  <2>3. /\ failed.polled = n.polled /\ failed.source = n.source
        /\ failed.present = n.present /\ failed.unknown = n.unknown
    BY <2>1 DEF NodeRecord
  <2>. QED
    BY <2>2, <2>3 DEF Backed
<1>. HIDE DEF failed
<1>2. c \in NodeRecord /\ c.source # "agent" /\ c.failures = 0
  BY <1>1, ClearedRecord
<1>. HIDE DEF c
<1>3. dark \in NodeRecord /\ dark.source # "agent" /\ dark.failures = 0
  BY <1>2 DEF NodeRecord
<1>. HIDE DEF dark
<1>4. dark \in Kept /\ Backed(dark)
  BY <1>3, AgentPollAssumption DEF Kept, Backed
<1>5. ~(failed.failures >= AgentThreshold) => failed \in Kept
  <2>1. failed.failures \in Nat
    BY <1>1 DEF NodeRecord
  <2>. QED
    BY <1>1, <2>1, AgentPollAssumption DEF Kept
<1>. QED
  BY <1>1, <1>4, <1>5 DEF failed, c, dark

\* The health poll never brings an agent's figure back.
LEMMA PolledKept ==
    ASSUME NEW n \in Kept, NEW hasGPU \in BOOLEAN, NEW psUsed \in BOOLEAN
    PROVE  LET m == HealthVRAM(n, hasGPU, psUsed) IN
           m \in Kept /\ (Backed(n) => Backed(m))
<1>1. n \in NodeRecord
  BY DEF Kept
<1>2. LET m == HealthVRAM(n, hasGPU, psUsed) IN
      m \in NodeRecord /\ m.failures = n.failures /\ (Backed(n) => Backed(m))
  BY <1>1 DEF NodeRecord, HealthVRAM, Sources, Backed
<1>. QED
  BY <1>2 DEF Kept

\* A new record has not been polled.
LEMMA FreshKept ==
    ASSUME NEW nm \in Names, NEW h \in Hosts, NEW p \in Ports \cup {NoPort},
           NEW gpu \in BOOLEAN, NEW decl \in BOOLEAN, NEW src \in Sources,
           NEW fp \in Certificates \cup {NoPin}
    PROVE  FreshNode(nm, h, p, gpu, decl, src, fp) \in Kept
           /\ Backed(FreshNode(nm, h, p, gpu, decl, src, fp))
BY AgentPollAssumption DEF FreshNode, NodeRecord, Kept, Backed

(* Steps. *)

LEMMA AgentInitHolds == AgentInit => AgentInv
<1>. SUFFICES ASSUME AgentInit PROVE AgentInv
  OBVIOUS
<1>. USE AgentPollAssumption
<1>1. agentNode \in [Objects -> Kept]
  <2>1. (CHOOSE nm \in Names : TRUE) \in Names /\ (CHOOSE h \in Hosts : TRUE) \in Hosts
    OBVIOUS
  <2>2. FreshNode(CHOOSE nm \in Names : TRUE, CHOOSE h \in Hosts : TRUE,
                  NoPort, FALSE, FALSE, "none", NoPin) \in Kept
    BY <2>1, FreshKept DEF Sources
  <2>. QED
    BY <2>2 DEF AgentInit
<1>2. cycle \in CycleRecord
  BY DEF AgentInit, IdleCycle, CycleRecord
<1>3. IdleHost \in MemberRecord
  BY DEF IdleHost, MemberRecord, Objects, Answers, Runtimes, GpuBlocks
<1>4. agentWorld \in [Hosts -> WorldRecord]
  BY DEF AgentInit, Answers, GpuBlocks, Runtimes, WorldRecord
<1>5. /\ objects \in 0 .. MaxNodeObjects /\ fleet \subseteq 1 .. objects /\ fleet = {}
      /\ agentsOn \subseteq Hosts /\ evidence \subseteq Hosts
      /\ prevAgent \in [Names -> {"unseen", "up", "down"}]
  BY DEF AgentInit
<1>6. member \in [Hosts -> MemberRecord]
  BY <1>3 DEF AgentInit
<1>. QED
  BY <1>1, <1>2, <1>4, <1>5, <1>6 DEF AgentInv

\* A record that gives way to a backed one leaves the others as they were.
LEMMA RecordWritten ==
    ASSUME AgentInv, NEW o \in Objects, NEW n \in Kept, UpdateNode(o, n),
           o \in fleet => Backed(n), fleet' = fleet
    PROVE  /\ agentNode' \in [Objects -> Kept]
           /\ \A i \in fleet' : Backed(agentNode'[i])
<1>1. agentNode' = [agentNode EXCEPT ![o] = n] /\ agentNode \in [Objects -> Kept]
  BY DEF AgentInv, UpdateNode
<1>2. fleet \subseteq Objects
  BY AgentPollAssumption DEF AgentInv, Objects
<1>. QED
  BY <1>1, <1>2 DEF AgentInv

\* A goroutine of a host moves on.
LEMMA MemberMoves ==
    ASSUME NEW m \in MemberRecord
    PROVE  /\ \A at \in {"record", "forget", "apply", "failed", "reachable"} :
                [m EXCEPT !.pc = at] \in MemberRecord
           /\ \A o \in Objects : [m EXCEPT !.left = @ \ {o}] \in MemberRecord
           /\ \A o \in Objects :
                [m EXCEPT !.pc = "reachable", !.at = o, !.left = m.left \ {o}] \in MemberRecord
BY DEF MemberRecord

\* One step of a cycle.
LEMMA CycleStepHolds == AgentInv /\ CycleStep => AgentInv'
<1>. SUFFICES ASSUME AgentInv, CycleStep PROVE AgentInv'
  OBVIOUS
<1>. USE AgentPollAssumption DEF AgentInv
<1>0. IdleHost \in MemberRecord
  BY DEF IdleHost, MemberRecord, Objects, Answers, Runtimes, GpuBlocks
<1>1. ASSUME NEW o \in Objects, ClearUngrouped(o) PROVE AgentInv'
  <2>1. /\ agentNode' \in [Objects -> Kept]
        /\ \A i \in fleet' : Backed(agentNode'[i])
    BY <1>1, ClearedKept, RecordWritten DEF ClearUngrouped
  <2>2. cycle' \in CycleRecord
    BY <1>1 DEF ClearUngrouped, CycleRecord
  <2>. QED
    BY <1>1, <2>1, <2>2 DEF ClearUngrouped
<1>2. CASE StartHosts
  <2>1. \A h \in Hosts :
          [IdleHost EXCEPT !.pc = "ask", !.left = cycle.groups[h]] \in MemberRecord
    BY <1>0 DEF MemberRecord, CycleRecord
  <2>2. member' \in [Hosts -> MemberRecord]
    BY <1>0, <1>2, <2>1 DEF StartHosts
  <2>3. cycle' \in CycleRecord
    BY <1>2 DEF StartHosts, CycleRecord
  <2>. QED
    BY <1>2, <2>2, <2>3 DEF StartHosts
<1>3. CASE EndCycle
  <2>1. cycle' \in CycleRecord
    BY <1>3 DEF EndCycle, IdleCycle, CycleRecord
  <2>. QED
    BY <1>3, <2>1 DEF EndCycle
<1>4. ASSUME NEW h \in Hosts, AskAgent(h) PROVE AgentInv'
  <2>1. Dial(h) \in {"connected", "refused", "mismatch"}
    BY DEF Dial
  <2>2. /\ agentWorld[h].answer \in Answers /\ agentWorld[h].runtimes \in Runtimes
        /\ agentWorld[h].gpu \in GpuBlocks
    BY DEF WorldRecord
  <2>3. PICK got \in Answers \cup {"refused", "mismatch"}, pc0 \in {"record", "forget", "failed"} :
          member' = [member EXCEPT ![h] = [@ EXCEPT !.pc = pc0, !.answer = got,
                        !.runtimes = agentWorld[h].runtimes, !.gpu = agentWorld[h].gpu]]
    BY <1>4, <2>1, <2>2 DEF AskAgent
  <2>4. \A m \in MemberRecord : [m EXCEPT !.pc = pc0, !.answer = got,
                        !.runtimes = agentWorld[h].runtimes, !.gpu = agentWorld[h].gpu]
                                  \in MemberRecord
    BY <2>2, <2>3 DEF MemberRecord
  <2>5. member' \in [Hosts -> MemberRecord]
    BY <2>3, <2>4
  <2>. QED
    BY <1>4, <2>5 DEF AskAgent
<1>5. ASSUME NEW h \in Hosts, RecordHostEvidence(h) \/ DropHostEvidenceOnly(h) PROVE AgentInv'
  <2>1. member' = [member EXCEPT ![h].pc = "apply"]
    BY <1>5 DEF RecordHostEvidence, DropHostEvidenceOnly
  <2>2. member' \in [Hosts -> MemberRecord]
    BY <2>1, MemberMoves
  <2>. QED
    BY <1>5, <2>2 DEF RecordHostEvidence, DropHostEvidenceOnly
<1>6. ASSUME NEW h \in Hosts, AgentReachable(h) PROVE AgentInv'
  <2>1. member' \in [Hosts -> MemberRecord]
    BY <1>6, MemberMoves DEF AgentReachable
  <2>2. prevAgent' \in [Names -> {"unseen", "up", "down"}]
    BY <1>6 DEF AgentReachable
  <2>. QED
    BY <1>6, <2>1, <2>2 DEF AgentReachable
<1>7. ASSUME NEW h \in Hosts, HostDone(h) PROVE AgentInv'
  BY <1>0, <1>7 DEF HostDone
<1>8. ASSUME NEW h \in Hosts, NEW o \in Objects, ApplyToMember(h, o) PROVE AgentInv'
  <2>1. /\ agentNode' \in [Objects -> Kept]
        /\ \A i \in fleet' : Backed(agentNode'[i])
    BY <1>8, AppliedKept, RecordWritten DEF ApplyToMember
  <2>2. member' \in [Hosts -> MemberRecord]
    <3>1. member' = [member EXCEPT ![h] = [member[h] EXCEPT !.pc = "reachable", !.at = o,
                                                            !.left = member[h].left \ {o}]]
      BY <1>8 DEF ApplyToMember
    <3>2. [member[h] EXCEPT !.pc = "reachable", !.at = o, !.left = member[h].left \ {o}]
            \in MemberRecord
      BY MemberMoves
    <3>. QED
      BY <3>1, <3>2
  <2>. QED
    BY <1>8, <2>1, <2>2 DEF ApplyToMember
<1>9. ASSUME NEW h \in Hosts, NEW o \in Objects, AgentUnreachable(h, o) PROVE AgentInv'
  <2>1. /\ agentNode' \in [Objects -> Kept]
        /\ \A i \in fleet' : Backed(agentNode'[i])
    BY <1>9, FailedKept, RecordWritten DEF AgentUnreachable
  <2>2. member' \in [Hosts -> MemberRecord]
    BY <1>9, MemberMoves DEF AgentUnreachable
  <2>3. prevAgent' \in [Names -> {"unseen", "up", "down"}]
    BY <1>9 DEF AgentUnreachable
  <2>. QED
    BY <1>9, <2>1, <2>2, <2>3 DEF AgentUnreachable
<1>. QED
  BY <1>1, <1>2, <1>3, <1>4, <1>5, <1>6, <1>7, <1>8, <1>9 DEF CycleStep

\* A step of the operator: records are made with the VRAM source of their
\* predecessor and have not been polled, so they owe no figure.
LEMMA OperatorHolds == AgentInv /\ Operator => AgentInv'
<1>. SUFFICES ASSUME AgentInv, Operator PROVE AgentInv'
  OBVIOUS
<1>. USE AgentPollAssumption DEF AgentInv
<1>0. fleet \subseteq Objects
  BY DEF Objects
<1>1. ASSUME NEW nm \in Names, NEW h \in Hosts, NEW p \in Ports, NEW kind \in NodeKinds,
             NEW fp \in Certificates \cup {NoPin}, RegisterNode(nm, h, p, kind, fp)
      PROVE  AgentInv'
  <2>. DEFINE n == FreshNode(nm, h, p, kind[1], kind[2],
                             IF kind[2] THEN "declared" ELSE "none", fp)
  <2>1. n \in Kept /\ Backed(n)
    BY FreshKept DEF Sources
  <2>2. /\ objects + 1 \in Objects /\ objects' = objects + 1 /\ fleet' = fleet \cup {objects + 1}
        /\ agentNode' = [agentNode EXCEPT ![objects + 1] = n]
    BY <1>1 DEF RegisterNode, UpdateNode, Objects
  <2>. HIDE DEF n
  <2>3. agentNode' \in [Objects -> Kept] /\ \A o \in fleet' : Backed(agentNode'[o])
    BY <1>0, <2>1, <2>2
  <2>4. objects' \in 0 .. MaxNodeObjects /\ fleet' \subseteq 1 .. objects'
    BY <2>2 DEF Objects
  <2>. QED
    BY <1>1, <2>3, <2>4 DEF RegisterNode
<1>2. ASSUME NEW o \in fleet, NEW h \in Hosts, NEW p \in Ports, ReplacePolled(o, h, p)
      PROVE  AgentInv'
  <2>. DEFINE old == agentNode[o]
              n == FreshNode(old.name, h, p, old.local, old.declared, old.source,
                             old.fingerprint)
  <2>1. old \in NodeRecord
    BY <1>0 DEF Kept
  <2>2. n \in Kept /\ Backed(n)
    <3>1. /\ old.name \in Names /\ old.local \in BOOLEAN /\ old.declared \in BOOLEAN
          /\ old.source \in Sources /\ old.fingerprint \in Certificates \cup {NoPin}
      BY <2>1 DEF NodeRecord
    <3>. QED
      BY <3>1, FreshKept
  <2>3. /\ objects + 1 \in Objects /\ objects' = objects + 1
        /\ fleet' = (fleet \ {o}) \cup {objects + 1}
        /\ agentNode' = [agentNode EXCEPT ![objects + 1] = n]
    BY <1>2 DEF ReplacePolled, UpdateNode, Objects
  <2>. HIDE DEF n
  <2>4. agentNode' \in [Objects -> Kept] /\ \A i \in fleet' : Backed(agentNode'[i])
    BY <1>0, <2>2, <2>3
  <2>5. objects' \in 0 .. MaxNodeObjects /\ fleet' \subseteq 1 .. objects'
    BY <2>3 DEF Objects
  <2>. QED
    BY <1>2, <2>4, <2>5 DEF ReplacePolled
<1>3. ASSUME NEW o \in fleet, RemovePolled(o) PROVE AgentInv'
  BY <1>3 DEF RemovePolled
<1>4. ASSUME NEW h \in Hosts, SetMarborAgent(h) PROVE AgentInv'
  BY <1>4 DEF SetMarborAgent
<1>. QED
  BY <1>1, <1>2, <1>3, <1>4 DEF Operator

LEMMA AgentStepHolds == AgentInv /\ [AgentNext]_agentVars => AgentInv'
<1>. SUFFICES ASSUME AgentInv, [AgentNext]_agentVars PROVE AgentInv'
  OBVIOUS
<1>1. CASE StartCycle
  <2>1. cycle' \in CycleRecord
    <3>1. fleet \subseteq Objects
      BY AgentPollAssumption DEF AgentInv, Objects
    <3>. QED
      BY <1>1, <3>1 DEF StartCycle, CycleRecord
  <2>. QED
    BY <1>1, <2>1 DEF AgentInv, StartCycle
<1>2. CASE CycleStep
  BY <1>2, CycleStepHolds
<1>3. CASE Operator
  BY <1>3, OperatorHolds
<1>4. ASSUME NEW o \in Objects, HealthPoll(o) PROVE AgentInv'
  <2>1. PICK hasGPU \in BOOLEAN, psUsed \in BOOLEAN :
          UpdateNode(o, HealthVRAM(agentNode[o], hasGPU, psUsed))
    BY <1>4 DEF HealthPoll
  <2>2. /\ agentNode' \in [Objects -> Kept]
        /\ \A i \in fleet' : Backed(agentNode'[i])
    BY <1>4, <2>1, PolledKept, RecordWritten DEF AgentInv, HealthPoll
  <2>. QED
    BY <1>4, <2>2 DEF AgentInv, HealthPoll
<1>5. ASSUME NEW h \in Hosts, AgentChanges(h) PROVE AgentInv'
  <2>1. agentWorld' \in [Hosts -> WorldRecord]
    BY <1>5 DEF AgentInv, AgentChanges, WorldRecord, Runtimes
  <2>. QED
    BY <1>5, <2>1 DEF AgentInv, AgentChanges
<1>6. CASE UNCHANGED agentVars
  BY <1>6 DEF AgentInv, agentVars
<1>. QED
  BY <1>1, <1>2, <1>3, <1>4, <1>5, <1>6 DEF AgentNext

\* No node routes on the VRAM figure of an agent that is gone or unreadable, for
\* any hosts, nodes, runtimes and certificates and any interleaving of the poll
\* cycle with the health poll and the operator (agent_poll.go, health.go).
THEOREM AgentFiguresBacked == AgentSpec => [](AgentTypeOK /\ AgentVRAMBacked)
BY AgentInitHolds, AgentStepHolds, AgentInvGives, PTL DEF AgentSpec

-----------------------------------------------------------------------------
(* The composition: each behaviour exercises one part.                     *)

\* The composed step is a step of each part or leaves it alone.
LEMMA PartsStep ==
    [ProgressNext]_progressVars =>
        /\ [Next]_vars /\ [AgentNext]_agentVars /\ [AuditNext]_auditVars
        /\ UNCHANGED focus
BY DEF ProgressNext, Only, progressVars

\* The audit log of the composed specification implements the lossy log.
THEOREM LossyLogImplemented == ProgressSpec => ImplementsLossyLog
<1>1. ProgressInit => AuditInit
  BY DEF ProgressInit
<1>2. [ProgressNext]_progressVars => [AuditNext]_auditVars
  BY PartsStep
<1>3. ProgressSpec => AuditSpec
  BY <1>1, <1>2, PTL DEF ProgressSpec, AuditSpec
<1>. QED
  BY <1>3, AuditRefines DEF ImplementsLossyLog

\* The records of a node agree with what lasts, its VRAM figure with an agent
\* that is present, and the audit log's books balance, in every behaviour of the
\* composed specification and for all values of its constants.
THEOREM RecordsStayTrue == ProgressSpec => []RecordsTrue
<1>1. ProgressInit => IInv /\ AgentInv /\ AuditInv
  BY InitHolds, AgentInitHolds, AuditInitHolds DEF ProgressInit
<1>2. IInv /\ AgentInv /\ AuditInv /\ [ProgressNext]_progressVars
        => (IInv /\ AgentInv /\ AuditInv)'
  BY PartsStep, StepHolds, AgentStepHolds, AuditStepHolds
<1>3. IInv /\ AgentInv /\ AuditInv => RecordsTrue
  BY AgentInvGives DEF RecordsTrue, IInv, AuditInv
<1>. QED
  BY <1>1, <1>2, <1>3, PTL DEF ProgressSpec

=============================================================================
