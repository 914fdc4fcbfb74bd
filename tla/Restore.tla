------------------------------ MODULE Restore ------------------------------
(***************************************************************************)
(* Restoring a backup across a restart (internal/admin/backup_restore*.go  *)
(* and the shutdown path of cmd/marbor/main.go).  A request stages a copy  *)
(* of the backup beside the database, writes a pending marker and hands    *)
(* the staged file to main, which shuts down, renames it over the database *)
(* and writes an outcome marker for the next start to absorb.  The process *)
(* may die between any two writes to the disk, and a write may fail.       *)
(***************************************************************************)
EXTENDS Naturals, FiniteSets

CONSTANTS MaxRestores,   \* restores requested in a behaviour
          MaxBoots,      \* starts of the process in a behaviour
          WriteFaults    \* writes that may fail, among FaultKinds

VARIABLES db, staged, pending, outcome, status,      \* on disk
          mainPc, sweeping, rstate, handed, toSwap, last, handler, \* in memory
          refs, boots,                               \* bounds
          accepted, refused, carried, tried, acked   \* history

diskVars == <<db, staged, pending, outcome, status>>
memVars  == <<mainPc, sweeping, rstate, handed, toSwap, last, handler>>
history  == <<accepted, refused, carried, tried, acked>>
restoreVars == <<diskVars, memVars, refs, boots, history>>

FaultKinds == {"pending", "notDone", "outcome", "save", "unlink"}
ASSUME RestoreAssumption ==
  MaxRestores \in Nat /\ MaxBoots \in Nat \ {0} /\ WriteFaults \subseteq FaultKinds

Refs    == 1 .. MaxRestores
NoRef   == 0
Results == {"success", "previous", "unknown"}
NoMark  == [ref |-> NoRef, notDone |-> FALSE]
NoResult == [ref |-> NoRef, result |-> "unknown"]
Marks   == {NoMark} \cup [ref : Refs, notDone : BOOLEAN]
Reports == {NoResult} \cup [ref : Refs, result : Results]
Resting == [pc |-> "idle", ref |-> NoRef]

RestoreTypeOK ==
  /\ db \in Refs \cup {NoRef} /\ staged \subseteq Refs
  /\ pending \in Marks /\ {outcome, status, last} \subseteq Reports
  /\ mainPc \in {"down", "absorb", "clean", "serve", "close", "shutdown",
                 "swap", "mark", "record", "unmark", "exited"}
  /\ sweeping \in BOOLEAN
  /\ rstate \in {"idle", "staging", "handedOff", "closed"}
  /\ {handed, toSwap} \subseteq Refs \cup {NoRef}
  /\ handler \in [pc : {"idle", "stage", "check", "marker", "send"},
                  ref : Refs \cup {NoRef}]
  /\ refs \in 0 .. MaxRestores /\ boots \in 0 .. MaxBoots
  /\ UNION {accepted, refused, carried, tried, acked} \subseteq Refs

RestoreInit ==
  /\ db = NoRef /\ staged = {} /\ pending = NoMark
  /\ outcome = NoResult /\ status = NoResult
  /\ mainPc = "down" /\ sweeping = FALSE /\ rstate = "idle" /\ handed = NoRef
  /\ toSwap = NoRef /\ last = NoResult /\ handler = Resting
  /\ refs = 0 /\ boots = 0
  /\ accepted = {} /\ refused = {} /\ carried = {} /\ tried = {} /\ acked = {}

May(fault) == fault \in WriteFaults
Serving == mainPc \in {"serve", "close", "shutdown"}   \* handlers still run

----------------------------------------------------------------------------
(* Starting: the last run's markers are absorbed before anything is served *)

Boot ==
  /\ mainPc \in {"down", "exited"} /\ boots < MaxBoots
  /\ boots' = boots + 1
  /\ mainPc' = "absorb" /\ sweeping' = TRUE /\ rstate' = "idle"
  /\ handed' = NoRef /\ toSwap' = NoRef /\ last' = status /\ handler' = Resting
  /\ UNCHANGED <<diskVars, refs, history>>

\* synthesizePendingOutcome: what a marker without an outcome says.
Synthesize(p) ==
  [ref |-> p.ref,
   result |-> IF p.notDone \/ p.ref \in staged THEN "previous" ELSE "unknown"]

\* The outcome file wins over a pending marker.
Absorbed == IF outcome # NoResult THEN outcome ELSE Synthesize(pending)

AbsorbRestoreOutcome ==
  /\ mainPc = "absorb"
  /\ IF outcome = NoResult /\ pending = NoMark
     THEN mainPc' = "serve" /\ UNCHANGED <<status, last>>
     ELSE /\ last' = Absorbed
          /\ \/ status' = Absorbed /\ mainPc' = "clean"
             \/ May("save") /\ mainPc' = "serve" /\ UNCHANGED status
  /\ UNCHANGED <<db, staged, pending, outcome, sweeping, rstate, handed, toSwap,
                 handler, refs, boots, history>>

\* The two removals, in order; each is logged and passed over when it fails.
RemoveOutcome ==
  /\ mainPc = "clean"
  /\ mainPc' = "unmark"
  /\ outcome' = NoResult \/ (May("unlink") /\ outcome' = outcome)
  /\ UNCHANGED <<db, staged, pending, status, sweeping, rstate, handed, toSwap,
                 last, handler, refs, boots, history>>

RemovePending ==
  /\ mainPc = "unmark"
  /\ mainPc' = IF toSwap = NoRef THEN "serve" ELSE "exited"
  /\ pending' = NoMark \/ (May("unlink") /\ pending' = pending)
  /\ UNCHANGED <<db, staged, outcome, status, sweeping, rstate, handed, toSwap,
                 last, handler, refs, boots, history>>

\* cleanupStagedRestores, run once in the background while restores are held off.
CleanupStagedRestores ==
  /\ Serving /\ sweeping
  /\ sweeping' = FALSE
  /\ \E stuck \in SUBSET staged : staged' = stuck
  /\ UNCHANGED <<db, pending, outcome, status, mainPc, rstate, handed, toSwap,
                 last, handler, refs, boots, history>>

AcknowledgeRestoreResult ==
  /\ Serving /\ last # NoResult
  /\ status' = NoResult /\ last' = NoResult
  /\ acked' = acked \cup {last.ref}
  /\ UNCHANGED <<db, staged, pending, outcome, mainPc, sweeping, rstate, handed,
                 toSwap, handler, refs, boots, accepted, refused, carried, tried>>

----------------------------------------------------------------------------
(* The request.  Only one is staged at a time (beginRestore).              *)

HandleRestoreBackup ==
  /\ Serving /\ ~sweeping /\ handler = Resting /\ rstate = "idle"
  /\ refs < MaxRestores
  /\ refs' = refs + 1 /\ rstate' = "staging"
  /\ handler' = [pc |-> "stage", ref |-> refs + 1]
  /\ UNCHANGED <<diskVars, mainPc, sweeping, handed, toSwap, last, boots, history>>

\* Every failing exit of the handler: the staged file and the marker go, or are stuck,
\* and the slot is freed.
Abort(keepMark) ==
  /\ handler' = Resting
  /\ refused' = refused \cup {handler.ref}
  /\ staged' \in {staged \ {handler.ref}, staged \cup {handler.ref}}
  /\ rstate' = IF rstate = "staging" THEN "idle" ELSE rstate
  /\ pending' = pending \/ (~keepMark /\ pending' = NoMark)

StageRestore ==
  /\ Serving /\ handler.pc = "stage"
  /\ \/ /\ staged' = staged \cup {handler.ref}
        /\ handler' = [handler EXCEPT !.pc = "check"]
        /\ UNCHANGED <<pending, rstate, refused>>
     \/ Abort(TRUE)
  /\ UNCHANGED <<db, outcome, status, mainPc, sweeping, handed, toSwap, last,
                 refs, boots, accepted, carried, tried, acked>>

\* handOffRestore, first half: the state is looked at before the marker is written.
CheckState ==
  /\ Serving /\ handler.pc = "check"
  /\ IF rstate = "staging"
     THEN handler' = [handler EXCEPT !.pc = "marker"] /\ UNCHANGED <<staged, pending, rstate, refused>>
     ELSE Abort(TRUE)
  /\ UNCHANGED <<db, outcome, status, mainPc, sweeping, handed, toSwap, last,
                 refs, boots, accepted, carried, tried, acked>>

WriteMarker ==
  /\ Serving /\ handler.pc = "marker"
  /\ \/ /\ pending' = [ref |-> handler.ref, notDone |-> FALSE]
        /\ handler' = [handler EXCEPT !.pc = "send"]
        /\ UNCHANGED <<staged, rstate, refused>>
     \/ May("pending") /\ Abort(TRUE)
  /\ UNCHANGED <<db, outcome, status, mainPc, sweeping, handed, toSwap, last,
                 refs, boots, accepted, carried, tried, acked>>

\* handOffRestore, second half, under restoreMu again: the send and the state
\* change are one step for CloseRestores.
SendRestore ==
  /\ Serving /\ handler.pc = "send"
  /\ IF rstate = "staging"
     THEN /\ rstate' = "handedOff" /\ handed' = handler.ref
          /\ accepted' = accepted \cup {handler.ref}
          /\ handler' = Resting
          /\ UNCHANGED <<staged, pending, refused>>
     ELSE Abort(FALSE) /\ UNCHANGED <<handed, accepted>>
  /\ UNCHANGED <<db, outcome, status, mainPc, sweeping, toSwap, last, refs, boots,
                 carried, tried, acked>>

----------------------------------------------------------------------------
(* main: a signal or the restore channel ends the serving loop.            *)

LeaveLoop ==
  /\ mainPc = "serve"                      \* by a signal, or by the channel
  /\ mainPc' = "close"
  /\ UNCHANGED <<diskVars, sweeping, rstate, handed, toSwap, last, handler, refs,
                 boots, history>>

CloseRestoresForgets ==
  /\ mainPc = "close"
  /\ rstate' = "closed" /\ toSwap' \in {NoRef, handed}
  /\ mainPc' = "shutdown"
  /\ UNCHANGED <<diskVars, sweeping, handed, last, handler, refs, boots, history>>

\* Whatever was handed off before this instant is carried out, even when a
\* signal won the select.
CloseRestores ==
  /\ mainPc = "close"
  /\ rstate' = "closed" /\ toSwap' = handed
  /\ mainPc' = "shutdown"
  /\ UNCHANGED <<diskVars, sweeping, handed, last, handler, refs, boots, history>>

\* The servers are shut down with a timeout, so a handler may still be running.
Shutdown ==
  /\ mainPc = "shutdown"
  /\ mainPc' = IF toSwap = NoRef THEN "exited" ELSE "swap"
  /\ handler' = IF toSwap = NoRef THEN Resting ELSE handler
  /\ UNCHANGED <<diskVars, sweeping, rstate, handed, toSwap, last, refs, boots, history>>

\* performRestore: closing the store, validating or renaming may fail; the staged
\* file is then removed, or stuck.
SwapStagedRestore ==
  /\ mainPc = "swap"
  /\ tried' = tried \cup {toSwap}
  /\ \/ /\ toSwap \in staged
        /\ db' = toSwap /\ staged' = staged \ {toSwap}
        /\ carried' = carried \cup {toSwap}
        /\ mainPc' = "record"
     \/ /\ \/ staged' = staged \ {toSwap}
           \/ staged' = staged
        /\ mainPc' = "mark"
        /\ UNCHANGED <<db, carried>>
  /\ UNCHANGED <<pending, outcome, status, sweeping, rstate, handed, toSwap, last,
                 handler, refs, boots, accepted, refused, acked>>

MarkRestoreNotCarriedOut ==
  /\ mainPc = "mark"
  /\ mainPc' = "record"
  /\ \/ pending' = IF pending = NoMark THEN NoMark ELSE [pending EXCEPT !.notDone = TRUE]
     \/ May("notDone") /\ pending' = pending
  /\ UNCHANGED <<db, staged, outcome, status, sweeping, rstate, handed, toSwap, last,
                 handler, refs, boots, history>>

\* WriteRestoreOutcome, before its removal of the marker.
WriteRestoreOutcome ==
  /\ mainPc = "record"
  /\ \/ /\ outcome' = [ref |-> pending.ref,
                       result |-> IF db = toSwap THEN "success" ELSE "previous"]
        /\ mainPc' = "unmark"
     \/ May("outcome") /\ mainPc' = "exited" /\ UNCHANGED outcome
  /\ UNCHANGED <<db, staged, pending, status, sweeping, rstate, handed, toSwap, last,
                 handler, refs, boots, history>>

\* A crash, a kill or a second interrupt, between any two steps.
Die ==
  /\ mainPc \notin {"down", "exited"}
  /\ mainPc' = "down" /\ handler' = Resting /\ rstate' = "idle"
  /\ handed' = NoRef /\ toSwap' = NoRef /\ last' = NoResult /\ sweeping' = FALSE
  /\ UNCHANGED <<diskVars, refs, boots, history>>

Starting   == Boot \/ AbsorbRestoreOutcome \/ RemoveOutcome \/ RemovePending
                \/ CleanupStagedRestores
Requesting == HandleRestoreBackup \/ StageRestore \/ CheckState \/ WriteMarker
                \/ SendRestore \/ AcknowledgeRestoreResult
Stopping   == LeaveLoop \/ CloseRestores \/ Shutdown \/ SwapStagedRestore
                \/ MarkRestoreNotCarriedOut \/ WriteRestoreOutcome \/ Die

RestoreNext == Starting \/ Requesting \/ Stopping
RestoreSpec == RestoreInit /\ [][RestoreNext]_restoreVars

----------------------------------------------------------------------------
\* What an administrator is ever told is true, whichever write failed and
\* wherever the process died: success only of a restore whose file was renamed
\* over the database, "the previous database is still in place" only of one
\* whose file was not.
ReportsTruthful ==
  \A r \in {outcome, status, last} :
    /\ r.result = "success"  => r.ref \in carried
    /\ r.result = "previous" => r.ref \notin carried

\* No restore that was answered with a 202 becomes undiscoverable: until its
\* result, or the result of a later restore, is acknowledged, the disk holds a
\* marker of it or of a later one.
AcceptedDiscoverable ==
  \A r \in accepted :
    \E m \in acked \cup {pending.ref, outcome.ref, status.ref} : m >= r

\* A shutdown that runs to its end has attempted every restore it accepted: the
\* hand-off cannot slip between the end of the serving loop and CloseRestores.
AcceptedIsTried == mainPc = "exited" => handed \in tried \cup {NoRef}

\* When main comes to the swap, the copy it was handed is still staged, belongs
\* to a request that was not answered with an error, and is the one the pending
\* marker names, so the outcome is written under the right reference.
SwapsWhatWasAccepted ==
  mainPc = "swap" => toSwap \in (accepted \cap staged) \ refused /\ pending.ref = toSwap
=============================================================================
