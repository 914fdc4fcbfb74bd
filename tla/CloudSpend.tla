----------------------------- MODULE CloudSpend -----------------------------
(***************************************************************************)
(* The cloud budget (internal/admin/admin.go): CloudBudgetExceeded is      *)
(* asked before a provider is called, TrackCloudCostModel and the request  *)
(* log record what the call cost afterwards.  The global caps are compared *)
(* with hourly_buckets, written synchronously; the caps of a key with      *)
(* request_log, written through the bounded queue of the async logger.     *)
(* A sum that cannot be read refuses nobody (the budget fails open), and a *)
(* cost that cannot be written is in no sum.  All calls belong to one key; *)
(* a call costs one unit or nothing.                                       *)
(***************************************************************************)
EXTENDS Naturals, Sequences, FiniteSets, FiniteSetsExt

CONSTANTS
    Overflows,         \* requests that overflow to the cloud, again and again
    CapChoices,    \* the settings an operator may make; 0 disables a cap
    LogQueueSize,  \* cap(s.logChan)
    LogRows,       \* rows AppendRequest keeps in request_log
    SpendDays,     \* bound on the number of days
    SpendMonth,    \* days in a month
    MaxCalls,      \* bound on the provider calls of a behaviour
    MaxSpendFaults \* bound on the store calls about the global spend that fail

ASSUME SpendAssumption ==
    /\ IsFiniteSet(Overflows)
    /\ CapChoices \subseteq [day : Nat, month : Nat, keyDay : Nat, keyMonth : Nat]
    /\ {LogQueueSize, LogRows, SpendDays, MaxCalls, MaxSpendFaults} \subseteq Nat
    /\ SpendMonth \in Nat \ {0}

VARIABLES
    spendDay,    \* today
    caps,        \* cfg.CloudBudget and the key's runtime_keys row
    bucket,      \* hourly_buckets.cost_usd, summed per day; with one key also what
                 \* is recorded of that key
    logChan,     \* Server.logChan
    requestLog,  \* table request_log, oldest first
    ask,         \* call -> the locals of its check
    peak,        \* history: the largest global daily cap of the day, and of the month
    paid,        \* history: what the calls that ended this day, this month, cost
    failures,    \* history: the day's, the month's reads of its sum, and writes, that failed
    sent         \* history: number of provider calls

histories == <<peak, paid, failures>>
spendVars == <<spendDay, caps, bucket, logChan, requestLog, ask, histories, sent>>

Days == 0 .. SpendDays
MonthStart(d) == d - (d % SpendMonth)
MonthOf(d) == {e \in Days : MonthStart(e) = MonthStart(d)}
Cost(f, ds) == MapThenSumSet(LAMBDA d : f[d], ds)

\* A disabled cap limits nothing.
Ceiling(c) == IF c = 0 THEN MaxCalls + 1 ELSE c
Higher(a, b) == IF a >= b THEN a ELSE b

Resting == [pc |-> "idle", cap |-> 0, month |-> 0, day |-> 0, cost |-> 0,
            over |-> {}, overKey |-> FALSE]
Reached(spent, cap) == cap > 0 /\ spent >= cap

SpendInit ==
    /\ spendDay = 0
    /\ caps \in CapChoices
    /\ bucket = [d \in Days |-> 0]
    /\ logChan = <<>>
    /\ requestLog = <<>>
    /\ ask = [r \in Overflows |-> Resting]
    /\ peak = [day |-> Ceiling(caps.day), month |-> Ceiling(caps.month)]
    /\ paid = [day |-> 0, month |-> 0] /\ failures = [day |-> 0, month |-> 0]
    /\ sent = 0

MayFail == failures.day + failures.month < MaxSpendFaults

\* Goes on with another cap to compare.
SpendStep(r, pc, cap) == ask' = [ask EXCEPT ![r].pc = pc, ![r].cap = cap, ![r].month = 0]
Refuse(r) == ask' = [ask EXCEPT ![r] = Resting]

-----------------------------------------------------------------------------
(* CloudBudgetExceeded: the caps and the clock are read first, then one    *)
(* sum at a time.                                                          *)

BeginCheck(r) ==
    /\ ask[r].pc = "idle"
    /\ sent < MaxCalls
    /\ ask' = [ask EXCEPT ![r] = [Resting EXCEPT
                 !.pc = "daily", !.cap = caps.day, !.month = caps.month, !.day = spendDay,
                 !.over = {c \in {"day"} : Reached(bucket[spendDay], caps.day)} \cup
                          {c \in {"month"} : Reached(Cost(bucket, MonthOf(spendDay)), caps.month)}]]
    /\ UNCHANGED <<spendDay, caps, bucket, logChan, requestLog, histories, sent>>

\* HourlyBuckets(since): everything recorded from that hour on, later days included.
Since(d) == {e \in Days : e >= d}

\* cloudSpendSince returns 0 when the store fails, which reaches no cap.
FailsOpen(r, span, pc, cap) ==
    /\ MayFail /\ ask[r].cap > 0
    /\ ask' = [ask EXCEPT ![r] = [@ EXCEPT !.pc = pc, !.cap = cap, !.month = 0,
                                          !.over = ask[r].over \ {span}]]
    /\ failures' = [failures EXCEPT ![span] = @ + 1]
    /\ UNCHANGED <<peak, paid>>

CheckDaily(r) ==
    /\ ask[r].pc = "daily"
    /\ \/ /\ IF Reached(Cost(bucket, Since(ask[r].day)), ask[r].cap)
             THEN Refuse(r) ELSE SpendStep(r, "monthly", ask[r].month)
          /\ UNCHANGED histories
       \/ FailsOpen(r, "day", "monthly", ask[r].month)
    /\ UNCHANGED <<spendDay, caps, bucket, logChan, requestLog, sent>>

CheckMonthly(r) ==
    /\ ask[r].pc = "monthly"
    /\ \/ /\ IF Reached(Cost(bucket, Since(MonthStart(ask[r].day))), ask[r].cap)
             THEN Refuse(r) ELSE SpendStep(r, "key", 0)
          /\ UNCHANGED histories
       \/ FailsOpen(r, "month", "key", 0)
    /\ UNCHANGED <<spendDay, caps, bucket, logChan, requestLog, sent>>

\* KeySpendSince sums the rows that are marked as cloud.
KeySpendSince(d) ==
    MapThenSumSet(LAMBDA i : requestLog[i].cost,
                  {i \in DOMAIN requestLog : requestLog[i].cloud /\ requestLog[i].day >= d})

\* KeyUsdCaps is read here, not at the beginning.  What the key has really spent is
\* remembered only when the async logger has nothing left to write.  A sum that
\* cannot be read refuses nobody here either.
CheckKeyDaily(r) ==
    LET day  == ask[r].day
        over == /\ logChan = <<>>
                /\ \A q \in Overflows : ask[q].pc \notin {"call", "track"}
                /\ \/ Reached(Cost(bucket, Since(day)), caps.keyDay)
                   \/ Reached(Cost(bucket, Since(MonthStart(day))), caps.keyMonth)
    IN  /\ ask[r].pc = "key"
        /\ \E failed \in BOOLEAN :
             ask' = [ask EXCEPT ![r] =
                     IF ~failed /\ Reached(KeySpendSince(day), caps.keyDay) THEN Resting
                     ELSE [@ EXCEPT !.pc = "keyMonthly", !.cap = caps.keyMonth,
                                    !.overKey = over /\ ~failed]]
        /\ UNCHANGED <<spendDay, caps, bucket, logChan, requestLog, histories, sent>>

CheckKeyMonthly(r) ==
    /\ ask[r].pc = "keyMonthly"
    /\ \E failed \in BOOLEAN :
         IF ~failed /\ Reached(KeySpendSince(MonthStart(ask[r].day)), ask[r].cap)
         THEN Refuse(r) /\ UNCHANGED sent
         ELSE /\ ask' = [ask EXCEPT ![r] = [@ EXCEPT !.pc = "call", !.cap = 0, !.month = 0,
                                                     !.overKey = ask[r].overKey /\ ~failed]]
              /\ sent' = sent + 1
    /\ UNCHANGED <<spendDay, caps, bucket, logChan, requestLog, histories>>

-----------------------------------------------------------------------------
(* After the call.                                                         *)

\* The RequestRecord of LogRequestTimed sets neither IsCloud nor CostUSD.
Record(cost) == [day |-> spendDay, cloud |-> FALSE, cost |-> 0]

\* LogRequestTimed: a full queue drops the record.  A negative token count (an
\* aborted stream) is not tracked at all.
LogRequest(r, cost, tracked) ==
    /\ ask[r].pc = "call"
    /\ logChan' = IF Len(logChan) < LogQueueSize THEN Append(logChan, Record(cost)) ELSE logChan
    /\ ask' = [ask EXCEPT ![r] = IF tracked THEN [@ EXCEPT !.pc = "track", !.cost = cost] ELSE Resting]
    /\ UNCHANGED <<spendDay, caps, bucket, requestLog, histories, sent>>

\* The error of UpsertHourlyBucket is dropped.
TrackCloudCostModel(r) ==
    LET cost == ask[r].cost IN
    /\ ask[r].pc = "track"
    /\ paid' = [day |-> paid.day + cost, month |-> paid.month + cost]
    /\ \/ bucket' = [bucket EXCEPT ![spendDay] = @ + cost] /\ UNCHANGED failures
       \/ /\ MayFail /\ UNCHANGED bucket
          /\ failures' = [day |-> failures.day + 1, month |-> failures.month + 1]
    /\ Refuse(r)
    /\ UNCHANGED <<spendDay, caps, logChan, requestLog, peak, sent>>

\* startAsyncLogger; AppendRequest keeps the newest rows, or fails.
AppendRequest ==
    /\ logChan # <<>>
    /\ logChan' = Tail(logChan)
    /\ LET log == Append(requestLog, Head(logChan))
       IN  requestLog' \in {requestLog, IF Len(log) > LogRows THEN Tail(log) ELSE log}
    /\ UNCHANGED <<spendDay, caps, bucket, ask, histories, sent>>

-----------------------------------------------------------------------------
(* The environment: settings and the clock.                                *)

SetCaps(c) ==
    /\ caps' = c
    /\ peak' = [day |-> Higher(peak.day, Ceiling(c.day)), month |-> Higher(peak.month, Ceiling(c.month))]
    /\ UNCHANGED <<spendDay, bucket, logChan, requestLog, ask, paid, failures, sent>>

Midnight ==
    /\ spendDay < SpendDays
    /\ spendDay' = spendDay + 1
    /\ LET same == MonthStart(spendDay') = MonthStart(spendDay) IN
       /\ peak' = [day |-> Ceiling(caps.day),
                   month |-> IF same THEN peak.month ELSE Ceiling(caps.month)]
       /\ paid' = [day |-> 0, month |-> IF same THEN paid.month ELSE 0]
       /\ failures' = [day |-> 0, month |-> IF same THEN failures.month ELSE 0]
    /\ UNCHANGED <<caps, bucket, logChan, requestLog, ask, sent>>

SpendNext ==
    \/ \E r \in Overflows :
         \/ BeginCheck(r) \/ CheckDaily(r) \/ CheckMonthly(r) \/ CheckKeyDaily(r) \/ CheckKeyMonthly(r)
         \/ \E cost \in {0, 1}, tracked \in BOOLEAN : LogRequest(r, cost, tracked)
         \/ TrackCloudCostModel(r)
    \/ AppendRequest
    \/ \E c \in CapChoices : c # caps /\ SetCaps(c)
    \/ Midnight

SpendSpec == SpendInit /\ [][SpendNext]_spendVars

-----------------------------------------------------------------------------
(* Properties.                                                             *)

\* Calls that passed together may overrun a cap, by less than the number of calls
\* that can be in flight, and by one more for each store call that failed meanwhile;
\* never by more, however many calls the day or the month sees (CloudBudgetExceeded,
\* TrackCloudCostModel).
SpendBounded ==
    LET others == Cardinality(Overflows) - 1
    IN  /\ paid.day <= peak.day + failures.day + others
        /\ paid.month <= peak.month + failures.month + others

\* A request whose check begins when a global cap is used up, and whose reading of
\* that sum does not fail, is not sent to a provider, whatever midnight, settings and
\* other requests do meanwhile.
GlobalCapKept == \A r \in Overflows : ask[r].over # {} => ask[r].pc \notin {"call", "track"}

\* "if keyName has its own cap set, that key's cap" (CloudBudgetExceeded): the same
\* for a key that has used up its own cap and whose calls have all been logged.
KeyCapKept == \A r \in Overflows : ask[r].overKey => ask[r].pc \notin {"call", "track"}
=============================================================================
