---------------------------- MODULE UsageLedger ----------------------------
(***************************************************************************)
(* What the admin server remembers of the requests it served               *)
(* (internal/admin/admin.go, analytics.go): lifetime counters in memory,   *)
(* flushed to the counters row and to the setting of the cloud tokens; the *)
(* chart of the last hours; and hourly_buckets in the store, written at    *)
(* once for a cloud call and through the bounded queue of the async logger *)
(* for a local one.  The rows of model_stats and spill_counters, sums that *)
(* are written beside them and that nothing here reads back, are left out. *)
(*                                                                         *)
(* Every figure is a sum over calls, so it is modelled as the set of the   *)
(* calls it includes.  All calls fall into the hours the chart shows.  The *)
(* local tokens go with the local count, in the same row.                  *)
(***************************************************************************)
EXTENDS Naturals, Sequences, FiniteSets, Functions

CONSTANTS
    CloudCalls, LocalCalls,  \* the calls of a behaviour
    StatsQueueSize,          \* cap(s.statsChan)
    MaxStarts,               \* bound: starts of the process
    MaxFlushes,              \* bound: flushes
    MaxLedgerFaults          \* bound: store errors and crashes

ASSUME LedgerAssumption ==
    /\ CloudCalls \cap LocalCalls = {}
    /\ {StatsQueueSize, MaxStarts, MaxFlushes, MaxLedgerFaults} \subseteq Nat

VARIABLES
    process,    \* "up", "closing" (context cancelled, logDone closed),
                \* "exited" (Shutdown complete), "crashed"
    live,       \* the counters: [count, tokens, spent, hourly]
    flushed,    \* cloudTokensFlushed
    at,         \* call -> the step it takes next
    statsChan,  \* Server.statsChan
    logger,     \* startAsyncLogger: [pc, job]
    flush,      \* flushCounters: [pc, last, tok, count, spent]
    row,        \* table counters: [count, spent]
    cloudTok,   \* settings.counters_cloud_tokens
    buckets,    \* table hourly_buckets
    refused,    \* history: calls whose job was dropped or whose bucket was refused
    lost,       \* history: calls whose job died with the process
    owed,       \* history: calls tracked when the logger was told to end
    cold,       \* history: what the last start could not read
    spoiled,    \* history: the counters row was refused or could not be read
    begun, flushes, slips  \* starts, flushes and faults so far

storeVars == <<row, cloudTok, buckets>>
ledgerVars == <<process, live, flushed, at, statsChan, logger, flush, storeVars, refused, lost, owed,
                cold, spoiled, begun, flushes, slips>>

Calls == CloudCalls \cup LocalCalls
Running == process \in {"up", "closing"}
NoJob == [pc |-> "idle", job |-> {}]
NoFlush == [pc |-> "idle", last |-> FALSE, tok |-> {}, count |-> {}, spent |-> {}]

LedgerInit ==
    /\ process = "up" /\ live = [count |-> {}, tokens |-> {}, spent |-> {}, hourly |-> {}]
    /\ flushed = {} /\ at = [c \in Calls |-> "idle"] /\ statsChan = <<>>
    /\ logger = NoJob /\ flush = NoFlush
    /\ row = [count |-> {}, spent |-> {}] /\ cloudTok = {}
    /\ buckets = {} /\ refused = {} /\ lost = {}
    /\ owed = {} /\ cold = {} /\ spoiled = FALSE
    /\ begun = 1 /\ flushes = 0 /\ slips = 0

LedgerFault == slips < MaxLedgerFaults /\ slips' = slips + 1

-----------------------------------------------------------------------------
(* TrackLocalRequestModel, TrackCloudCostModel: one statement at a time.     *)
(* A handler that outlives the shutdown timeout goes on while the process    *)
(* does.                                                                     *)

Goes(c, from, to) == Running /\ at[c] = from /\ at' = [at EXCEPT ![c] = to]
InMemory == UNCHANGED <<process, flushed, statsChan, logger, flush, storeVars, refused, lost, owed, cold,
                        spoiled, begun, flushes, slips>>

AddCount(c) ==
    /\ process = "up" /\ Goes(c, "idle", IF c \in CloudCalls THEN "tokens" ELSE "hourly")
    /\ live' = [live EXCEPT !.count = @ \cup {c}] /\ InMemory
AddTokens(c) ==
    /\ Goes(c, "tokens", "spent")
    /\ live' = [live EXCEPT !.tokens = @ \cup {c}] /\ InMemory
AddSpent(c) ==
    /\ Goes(c, "spent", "hourly")
    /\ live' = [live EXCEPT !.spent = @ \cup {c}] /\ InMemory
RecordHourly(c) ==
    /\ Goes(c, "hourly", IF c \in CloudCalls THEN "bucket" ELSE "queue")
    /\ live' = [live EXCEPT !.hourly = @ \cup {c}] /\ InMemory

\* A row's counts are added to, so no write takes another call's away.
UpsertHourlyBucket(c) == buckets' = buckets \cup {c}

InStore == UNCHANGED <<process, live, flushed, logger, flush, row, cloudTok, lost, owed, cold,
                       spoiled, begun, flushes>>

\* A cloud call's bucket is written before the handler goes on: the budget reads it.
\* A store error is ignored.
WriteCloudBucket(c) ==
    /\ Goes(c, "bucket", "done")
    /\ \/ UpsertHourlyBucket(c) /\ UNCHANGED <<refused, slips>>
       \/ LedgerFault /\ refused' = refused \cup {c} /\ UNCHANGED buckets
    /\ InStore /\ UNCHANGED statsChan

\* A full queue drops the job.
EnqueueStats(c) ==
    /\ Goes(c, "queue", "done")
    /\ IF Len(statsChan) < StatsQueueSize
       THEN statsChan' = Append(statsChan, c) /\ UNCHANGED refused
       ELSE refused' = refused \cup {c} /\ UNCHANGED statsChan
    /\ InStore /\ UNCHANGED <<buckets, slips>>

-----------------------------------------------------------------------------
(* startAsyncLogger.                                                         *)

ByLogger == UNCHANGED <<process, live, flushed, at, flush, row, cloudTok, lost, owed, cold,
                        spoiled, begun, flushes>>

TakeJob ==
    /\ Running /\ logger.pc = "idle" /\ statsChan # <<>>
    /\ logger' = [pc |-> "bucket", job |-> {Head(statsChan)}]
    /\ statsChan' = Tail(statsChan)
    /\ ByLogger /\ UNCHANGED <<buckets, refused, slips>>

WriteBucket ==
    /\ Running /\ logger.pc = "bucket" /\ logger' = NoJob
    /\ \E c \in logger.job :
         \/ UpsertHourlyBucket(c) /\ UNCHANGED <<refused, slips>>
         \/ LedgerFault /\ refused' = refused \cup {c} /\ UNCHANGED buckets
    /\ ByLogger /\ UNCHANGED statsChan

\* Told to end, it empties the queue first; what arrives later sits unread.
LoggerReturns ==
    /\ process = "closing" /\ logger.pc = "idle" /\ statsChan = <<>>
    /\ logger' = [logger EXCEPT !.pc = "gone"]
    /\ ByLogger /\ UNCHANGED <<statsChan, buckets, refused, slips>>

-----------------------------------------------------------------------------
(* flushCounters, by the ticker and, once the context is cancelled, a last   *)
(* time: the cloud tokens are loaded first.                                  *)

ByFlush == UNCHANGED <<process, live, at, statsChan, logger, buckets, refused, lost, owed, cold,
                       begun>>
Loads == ByFlush /\ UNCHANGED <<flushed, row, cloudTok, spoiled, slips>>

BeginFlush ==
    /\ Running /\ flush.pc = "idle" /\ flushes < MaxFlushes /\ flushes' = flushes + 1
    /\ flush' = [NoFlush EXCEPT !.pc = "count", !.last = (process # "up"),
                                !.tok = live.tokens]
    /\ Loads
\* The other loads, one by one in the code, are of figures that are not compared.
LoadCounters ==
    /\ Running /\ flush.pc = "count"
    /\ flush' = [flush EXCEPT !.pc = "row", !.count = live.count, !.spent = live.spent]
    /\ Loads /\ UNCHANGED flushes

SetCounters ==
    /\ Running /\ flush.pc = "row" /\ flush' = [flush EXCEPT !.pc = "setting"]
    /\ \/ /\ row' = [count |-> flush.count, spent |-> flush.spent]
          /\ UNCHANGED <<spoiled, slips>>
       \/ LedgerFault /\ spoiled' = TRUE /\ UNCHANGED row
    /\ ByFlush /\ UNCHANGED <<flushed, cloudTok, flushes>>

EndFlush == flush' = [NoFlush EXCEPT !.pc = IF flush.last THEN "gone" ELSE "idle"]

\* Mutant: the tokens are read when they are stored, not before the counters.
SetCloudTokensAsTheyAre ==
    /\ Running /\ flush.pc = "setting" /\ EndFlush
    /\ cloudTok' = live.tokens /\ flushed' = live.tokens
    /\ ByFlush /\ UNCHANGED <<row, spoiled, slips, flushes>>

\* Nothing is written if nothing changed since the last write.
SetCloudTokens ==
    /\ Running /\ flush.pc = "setting" /\ EndFlush
    /\ \/ flush.tok = flushed /\ UNCHANGED <<cloudTok, flushed, slips>>
       \/ flush.tok # flushed /\ cloudTok' = flush.tok /\ flushed' = flush.tok /\ UNCHANGED slips
       \/ flush.tok # flushed /\ LedgerFault /\ UNCHANGED <<cloudTok, flushed>>
    /\ ByFlush /\ UNCHANGED <<row, spoiled, flushes>>

-----------------------------------------------------------------------------
(* The process.  main cancels the context, then Shutdown closes logDone and  *)
(* waits for the logger; nothing waits for the last flush.                   *)

Shutdown ==
    /\ process = "up" /\ process' = "closing"
    /\ owed' = {c \in Calls : at[c] = "done"} \ lost
    /\ UNCHANGED <<live, flushed, at, statsChan, logger, flush, storeVars, refused, lost, cold,
                   spoiled, begun, flushes, slips>>

\* The process is gone, and with it what was under way.
Ends(how) ==
    /\ process' = how
    /\ at' = [c \in Calls |-> IF at[c] \in {"idle", "done"} THEN at[c] ELSE "cut"]
    /\ lost' = lost \cup Range(statsChan) \cup logger.job
    /\ statsChan' = <<>> /\ logger' = NoJob /\ flush' = NoFlush
    /\ UNCHANGED <<live, flushed, storeVars, refused, owed, cold, spoiled, begun, flushes>>
Exit == process = "closing" /\ logger.pc = "gone" /\ Ends("exited") /\ UNCHANGED slips
Crash == Running /\ LedgerFault /\ Ends("crashed")

\* LoadFromStore: what cannot be read starts from nothing.
LoadFromStore ==
    /\ ~Running /\ begun < MaxStarts /\ begun' = begun + 1
    /\ process' = "up"
    /\ \E unread \in SUBSET {"counters", "tokens", "hourly"} :
         /\ Cardinality(unread) <= MaxLedgerFaults - slips
         /\ slips' = slips + Cardinality(unread)
         /\ cold' = unread
         /\ flushed' = IF "tokens" \in unread THEN {} ELSE cloudTok
         /\ live' = [count |-> IF "counters" \in unread THEN {} ELSE row.count,
                     tokens |-> flushed',
                     spent |-> IF "counters" \in unread THEN {} ELSE row.spent,
                     hourly |-> IF "hourly" \in unread THEN {} ELSE buckets]
    /\ owed' = {} /\ spoiled' = (spoiled \/ "counters" \in cold')
    /\ UNCHANGED <<at, statsChan, logger, flush, storeVars, refused, lost, flushes>>

LedgerNext ==
    \/ \E c \in Calls :
         \/ AddCount(c) \/ AddTokens(c) \/ AddSpent(c) \/ RecordHourly(c)
         \/ WriteCloudBucket(c) \/ EnqueueStats(c)
    \/ TakeJob \/ WriteBucket \/ LoggerReturns
    \/ BeginFlush \/ LoadCounters \/ SetCounters \/ SetCloudTokens
    \/ Shutdown \/ Exit \/ Crash \/ LoadFromStore

LedgerSpec == LedgerInit /\ [][LedgerNext]_ledgerVars

-----------------------------------------------------------------------------
LedgerTypeOK ==
    /\ process \in {"up", "closing", "exited", "crashed"}
    /\ DOMAIN live = {"count", "tokens", "spent", "hourly"}
    /\ buckets \cup refused \cup lost \subseteq Calls
    /\ Len(statsChan) <= StatsQueueSize

\* "The persisted token count is therefore never newer than the counters row it
\* accompanies" (flushCounters): no crash leaves tokens of a call in the store that
\* the row does not count, unless the row itself was refused or could not be read.
TokensNeverNewer == ~spoiled => cloudTok \subseteq row.count

\* A flush never takes back what the store has: the live counters, and what a flush
\* has loaded of them, include all of the row, across crashes and restarts.
RowIsBehind ==
    Running /\ "counters" \notin cold =>
        /\ row.count \subseteq live.count /\ row.spent \subseteq live.spent
        /\ flush.pc = "row" => row.count \subseteq flush.count /\ row.spent \subseteq flush.spent

\* Every tracked call is in hourly_buckets, on its way there, or one of those that
\* were dropped, refused or lost with the process; a cloud call is never on its way.
LedgerConserved ==
    \A c \in Calls : at[c] = "done" =>
        \/ c \in buckets \cup refused \cup lost
        \/ c \in LocalCalls /\ c \in Range(statsChan) \cup logger.job

\* After a clean shutdown nothing is missing that was tracked before the logger was
\* told to end and neither dropped nor refused (Shutdown drains the queue).
ShutdownDrains == process = "exited" => owed \subseteq buckets \cup refused

\* The chart never shows less than the store has, before and after a restart.
ChartKept == Running /\ "hourly" \notin cold => buckets \subseteq live.hourly

\* "never an unmeasured number" (flushCounters), of the spend: the tokens in the
\* store are of calls whose cost is in the store.
SpendKeepsUp == ~spoiled => cloudTok \subseteq row.spent
=============================================================================
