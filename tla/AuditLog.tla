------------------------------ MODULE AuditLog ------------------------------
(***************************************************************************)
(* The audit logger of internal/audit/audit.go: Log never blocks (a full   *)
(* queue or a closed logger drops the entry and counts it), one writer     *)
(* goroutine moves entries to the audit_log table, Close flips closed      *)
(* under the write lock, signals the writer and waits for it.              *)
(***************************************************************************)
EXTENDS Naturals, Sequences, FiniteSets, Functions

CONSTANTS
    Entries,         \* one Log call each
    WriteQueueSize,  \* writeQueueSize
    Closers,         \* callers of Close: the restore path, the deferred call
    NoEntry

ASSUME AuditAssumption ==
    /\ IsFiniteSet(Entries)
    /\ WriteQueueSize \in Nat
    /\ NoEntry \notin Entries

VARIABLES
    logPc,       \* Log call -> "idle" | "enabled" | "drop" | "done"
    enabled,     \* Logger.enabled
    closed,      \* Logger.closed
    doneClosed,  \* Logger.done has been closed
    writes,      \* Logger.writes
    logWriter,      \* run(): "select" | "drain" | "stopped"
    hand,        \* the entry run() has received and is inserting
    dropped,     \* Logger.dropped
    closePc,     \* Close call -> "idle" | "flagged" | "waiting" | "returned"
    table,       \* audit_log: the inserted entries, the index is the row's id
    uncounted    \* history: calls that end without a row and without a drop: the
                 \* logger was disabled, or the insert failed

auditVars == <<logPc, enabled, closed, doneClosed, writes, logWriter, hand, dropped,
               closePc, table, uncounted>>

writerVars == <<writes, logWriter, hand>>
closeVars  == <<closed, doneClosed, closePc>>

AuditInit ==
    /\ logPc = [e \in Entries |-> "idle"]
    /\ enabled \in BOOLEAN
    /\ closed = FALSE
    /\ doneClosed = FALSE
    /\ writes = <<>>
    /\ logWriter = "select"
    /\ hand = NoEntry
    /\ dropped = 0
    /\ closePc = [c \in Closers |-> "idle"]
    /\ table = <<>>
    /\ uncounted = 0

-----------------------------------------------------------------------------
(* Log.                                                                    *)

SetEnabled ==
    /\ enabled' = ~enabled
    /\ UNCHANGED <<logPc, writerVars, dropped, closeVars, table, uncounted>>

\* enabled is loaded before the lock is taken.
LoadEnabled(e) ==
    /\ logPc[e] = "idle"
    /\ logPc' = [logPc EXCEPT ![e] = IF enabled THEN "enabled" ELSE "done"]
    /\ uncounted' = uncounted + IF enabled THEN 0 ELSE 1
    /\ UNCHANGED <<enabled, writerVars, dropped, closeVars, table>>

\* Mutant: the check of closed is made before the lock is taken, so it may be stale.
CheckAndSendUnlocked(e) ==
    /\ logPc[e] = "enabled"
    /\ IF Len(writes) < WriteQueueSize
       THEN /\ writes' = Append(writes, e)
            /\ logPc' = [logPc EXCEPT ![e] = "done"]
       ELSE /\ logPc' = [logPc EXCEPT ![e] = "drop"]
            /\ UNCHANGED writes
    /\ UNCHANGED <<enabled, logWriter, hand, dropped, closeVars, table, uncounted>>

\* The check of closed and the non-blocking send share one read lock.
CheckAndSend(e) ==
    /\ logPc[e] = "enabled"
    /\ IF ~closed /\ Len(writes) < WriteQueueSize
       THEN /\ writes' = Append(writes, e)
            /\ logPc' = [logPc EXCEPT ![e] = "done"]
       ELSE /\ logPc' = [logPc EXCEPT ![e] = "drop"]
            /\ UNCHANGED writes
    /\ UNCHANGED <<enabled, logWriter, hand, dropped, closeVars, table, uncounted>>

RecordDrop(e) ==
    /\ logPc[e] = "drop"
    /\ dropped' = dropped + 1
    /\ logPc' = [logPc EXCEPT ![e] = "done"]
    /\ UNCHANGED <<enabled, writerVars, closeVars, table, uncounted>>

-----------------------------------------------------------------------------
(* The writer goroutine.                                                   *)

\* Both selects of run() may take an entry that is there.
Receive ==
    /\ logWriter \in {"select", "drain"}
    /\ hand = NoEntry
    /\ writes # <<>>
    /\ hand' = Head(writes)
    /\ writes' = Tail(writes)
    /\ UNCHANGED <<logPc, enabled, logWriter, dropped, closeVars, table, uncounted>>

\* AppendAuditLog: a failed insert is logged and the entry is gone.
Append_(ok) ==
    /\ hand # NoEntry
    /\ hand' = NoEntry
    /\ IF ok
       THEN table' = Append(table, hand) /\ UNCHANGED uncounted
       ELSE uncounted' = uncounted + 1 /\ UNCHANGED table
    /\ UNCHANGED <<logPc, enabled, writes, logWriter, dropped, closeVars>>

\* With entries and done both ready the outer select takes either.
SeeDone ==
    /\ logWriter = "select"
    /\ hand = NoEntry
    /\ doneClosed
    /\ logWriter' = "drain"
    /\ UNCHANGED <<logPc, enabled, writes, hand, dropped, closeVars, table, uncounted>>

Drained ==
    /\ logWriter = "drain"
    /\ hand = NoEntry
    /\ writes = <<>>
    /\ logWriter' = "stopped"
    /\ UNCHANGED <<logPc, enabled, writes, hand, dropped, closeVars, table, uncounted>>

Writer == Receive \/ Append_(TRUE) \/ Append_(FALSE) \/ SeeDone \/ Drained

-----------------------------------------------------------------------------
(* Close.  closeOnce lets one caller in; the others wait until it is done. *)

First(c) == \A d \in Closers \ {c} : closePc[d] = "idle"

FlagClosed(c) ==
    /\ closePc[c] = "idle"
    /\ First(c)
    /\ closed' = TRUE
    /\ closePc' = [closePc EXCEPT ![c] = "flagged"]
    /\ UNCHANGED <<doneClosed, logPc, enabled, writerVars, dropped, table, uncounted>>

SignalDone(c) ==
    /\ closePc[c] = "flagged"
    /\ doneClosed' = TRUE
    /\ closePc' = [closePc EXCEPT ![c] = "waiting"]
    /\ UNCHANGED <<closed, logPc, enabled, writerVars, dropped, table, uncounted>>

\* Mutant: Close does not wait for the writer.
CloseReturnsEarly(c) ==
    /\ closePc[c] = "waiting"
    /\ closePc' = [closePc EXCEPT ![c] = "returned"]
    /\ UNCHANGED <<closed, doneClosed, logPc, enabled, writerVars, dropped, table, uncounted>>

\* wg.Wait returns.
CloseReturns(c) ==
    /\ closePc[c] = "waiting"
    /\ logWriter = "stopped"
    /\ closePc' = [closePc EXCEPT ![c] = "returned"]
    /\ UNCHANGED <<closed, doneClosed, logPc, enabled, writerVars, dropped, table, uncounted>>

CloseAgain(c) ==
    /\ closePc[c] = "idle"
    /\ \E d \in Closers : closePc[d] = "returned"
    /\ closePc' = [closePc EXCEPT ![c] = "returned"]
    /\ UNCHANGED <<closed, doneClosed, logPc, enabled, writerVars, dropped, table, uncounted>>

Closing(c) == FlagClosed(c) \/ SignalDone(c) \/ CloseReturns(c) \/ CloseAgain(c)

-----------------------------------------------------------------------------
Logging == SetEnabled \/ \E e \in Entries : LoadEnabled(e) \/ CheckAndSend(e) \/ RecordDrop(e)

AuditNext == Logging \/ Writer \/ (\E c \in Closers : Closing(c))

AuditSpec == AuditInit /\ [][AuditNext]_auditVars

\* Go runs the writer and the callers of Log and Close whenever they can run.
AuditFairness ==
    /\ WF_auditVars(Writer)
    /\ \A e \in Entries : WF_auditVars(CheckAndSend(e) \/ RecordDrop(e))
    /\ \A c \in Closers : WF_auditVars(SignalDone(c) \/ CloseReturns(c))

-----------------------------------------------------------------------------
(* Properties.                                                             *)

\* Every variable has its type; the queue never holds more than it may.
AuditTypeOK ==
    /\ logPc \in [Entries -> {"idle", "enabled", "drop", "done"}]
    /\ enabled \in BOOLEAN /\ closed \in BOOLEAN /\ doneClosed \in BOOLEAN
    /\ writes \in Seq(Entries)
    /\ logWriter \in {"select", "drain", "stopped"}
    /\ hand \in Entries \cup {NoEntry}
    /\ dropped \in Nat
    /\ closePc \in [Closers -> {"idle", "flagged", "waiting", "returned"}]
    /\ table \in Seq(Entries)
    /\ uncounted \in Nat

\* The comment in run() that draining until empty is final: from the moment the
\* writer stops nothing is queued or in its hand, whatever calls of Log were in
\* flight when Close began.
NothingStranded == logWriter = "stopped" => writes = <<>> /\ hand = NoEntry

\* The books balance: every finished call of Log is a row, an entry on its way, a
\* counted drop, a failed insert or a call made while logging was off.
DropsCounted ==
    Cardinality({e \in Entries : logPc[e] = "done"})
      = Len(table) + Len(writes) + (IF hand = NoEntry THEN 0 ELSE 1) + dropped + uncounted

\* Whatever is accepted is taken by the writer and settled, and a Close that has
\* begun returns, however many entries are queued.
AcceptedIsSettled == <>[](writes = <<>> /\ hand = NoEntry)
CloseEnds == <>[](\A c \in Closers : closePc[c] \in {"idle", "returned"})

-----------------------------------------------------------------------------
(* The abstract log this implements.                                       *)

\* The lossy log of module LossyLog: what run() holds comes before the queue.
Abstract == INSTANCE LossyLog WITH
    Entry   <- Entries,
    pending <- IF hand = NoEntry THEN writes ELSE <<hand>> \o writes,
    stored  <- table,
    lost    <- dropped,
    ended   <- \E c \in Closers : closePc[c] = "returned"

\* The logger implements the lossy log: order of acceptance, no duplicates, and
\* nothing outstanding or accepted after Close has returned.
ImplementsLossyLog == Abstract!LossySpec

=============================================================================
