--------------------------- MODULE KeyQuotaProofs ---------------------------
(***************************************************************************)
(* Proofs about the counters of an API key, for any number of requests and *)
(* tokens, any limits and any calendar: only the current token leads in,   *)
(* the counters show what they claim, the quota bound holds, and a crash   *)
(* costs no more than what was counted since the last flush.               *)
(*                                                                         *)
(* None of the four is inductive.  QuotaBound rests on CounterExact (an    *)
(* over-limit test compares what the counter shows) and on slack being at  *)
(* least what the counter is missing; CounterExact on no request being     *)
(* counted on a later day than today; and CrashLoss on an invariant of the *)
(* row and of the export that is under way (Recoverable).                  *)
(***************************************************************************)
EXTENDS KeyQuota, FiniteSetTheorems, TLAPS

\* Requests whose increment the counter still shows, on their way to be undone,
\* and those that were let through this period and may be refunded.
Rejected(p) == {r \in Request : /\ pc[r] = "rejected" /\ own[r]
                                /\ SamePeriod(p, myDay[r], day)}
Serving(p)  == {r \in Request : /\ pc[r] = "serving" /\ own[r]
                                /\ SamePeriod(p, myDay[r], day)}

\* Nothing is dated later than today.
Dated ==
    /\ last <= day
    /\ \A r \in Request : myDay[r] <= day
    /\ export # None => export.last <= day
    /\ stored # None => stored.last <= day

\* A request that still holds the key's own state finds the key there.
OwnKey == \A r \in Request : own[r] => key # None

\* What can still be refunded was admitted.
ServedAreAdmitted == \A p \in Period : Cardinality(Serving(p)) <= admitted[p]

\* Slack covers what the counter is missing.
SlackCovers == \A p \in Period : missed[p] <= slack[p]

\* What the counter would show after a crash that follows the write of a row.
RowShows(count0, last0, p) == IF SamePeriod(p, last0, day) THEN count0[p] ELSE 0

\* The row, and the one being written, are short of the counter by no more than
\* the increments made since they were read.
RecoverableFor(p) ==
    /\ count[p] <= MaxCount
    /\ stored = None => Shown[p] <= unflushed
    /\ stored # None => /\ Shown[p] <= unflushed + RowShows(stored.count, stored.last, p)
                        /\ stored.count[p] <= MaxCount
    /\ export # None => /\ Shown[p] <= export.since + RowShows(export.count, export.last, p)
                        /\ export.count[p] <= MaxCount
Recoverable == \A p \in Period : RecoverableFor(p)

QInv == /\ TypeOK /\ OneWayIn /\ Dated /\ OwnKey /\ CounterExact /\ ServedAreAdmitted
        /\ SlackCovers /\ QuotaBound /\ Recoverable

-----------------------------------------------------------------------------
(* The calendar. *)

\* Periods follow the days.
LEMMA PeriodOrder ==
    ASSUME NEW p \in Period, NEW a \in Nat, NEW b \in Nat, a <= b
    PROVE  PeriodOf(p, a) \in Nat /\ PeriodOf(p, b) \in Nat /\ PeriodOf(p, a) <= PeriodOf(p, b)
<1>1. CASE p = "day"
  BY <1>1 DEF PeriodOf
<1>2. CASE p # "day"
  <2>. DEFINE q == MonthDays
              x == a \div q
              y == b \div q
  <2>1. q \in Nat \ {0}
    BY QuotaAssumption
  <2>2. x \in Nat /\ y \in Nat /\ q * x <= a /\ b < q * (y + 1)
    BY <2>1
  <2>. HIDE DEF q, x, y
  <2>3. x > y => q * x >= q * (y + 1)
    BY <2>1, <2>2
  <2>4. q * x \in Int /\ q * (y + 1) \in Int
    BY <2>1, <2>2
  <2>5. x <= y
    BY <2>2, <2>3, <2>4
  <2>. QED
    BY <1>2, <2>2, <2>5 DEF PeriodOf, q, x, y
<1>. QED
  BY <1>1, <1>2

\* Within a period a day changes nothing, and across its end nothing remains.
LEMMA Midnight ==
    ASSUME NEW p \in Period, day \in Nat
    PROVE  /\ SamePeriod(p, day, day + 1) =>
                \A d \in Nat : SamePeriod(p, d, day + 1) <=> SamePeriod(p, d, day)
           /\ ~SamePeriod(p, day, day + 1) =>
                \A d \in Nat : d <= day => ~SamePeriod(p, d, day + 1)
<1>1. ASSUME NEW d \in Nat, d <= day, SamePeriod(p, d, day + 1)
      PROVE  SamePeriod(p, day, day + 1)
  <2>1. PeriodOf(p, d) <= PeriodOf(p, day) /\ PeriodOf(p, day) <= PeriodOf(p, day + 1)
    BY <1>1, PeriodOrder
  <2>2. PeriodOf(p, d) \in Nat /\ PeriodOf(p, day) \in Nat /\ PeriodOf(p, day + 1) \in Nat
    BY <1>1, PeriodOrder
  <2>. QED
    BY <1>1, <2>1, <2>2 DEF SamePeriod
<1>. QED
  BY <1>1 DEF SamePeriod

\* The sets the histories count are finite.
LEMMA Sizes ==
    \A p \in Period : /\ IsFiniteSet(Rejected(p)) /\ Cardinality(Rejected(p)) \in Nat
                      /\ IsFiniteSet(Serving(p)) /\ Cardinality(Serving(p)) \in Nat
<1>1. TAKE p \in Period
<1>2. Rejected(p) \subseteq Request /\ Serving(p) \subseteq Request
  BY DEF Rejected, Serving
<1>3. IsFiniteSet(Rejected(p)) /\ IsFiniteSet(Serving(p))
  BY <1>2, QuotaAssumption, FS_Subset
<1>. QED
  BY <1>3, FS_CardinalityType

LEMMA ShownType == TypeOK => Shown \in [Period -> Nat] /\ \A p \in Period : Shown[p] <= count[p]
BY DEF TypeOK, Shown, ResetLocked

-----------------------------------------------------------------------------
(* Steps. *)

\* What the actions share, variable by variable.
LEMMA ZeroType == Zero \in [Period -> Nat] /\ \A p \in Period : Zero[p] = 0
BY DEF Zero

LEMMA AnswerTypes ==
    ASSUME TypeOK, NEW r \in Request, Answer(r)
    PROVE  /\ pc' \in [Request -> {"idle", "checked", "serving", "rejected"}]
           /\ own' \in [Request -> BOOLEAN]
           /\ myLimit' \in [Request -> [Period -> Nat]]
           /\ myDay' \in [Request -> 0..MaxDay]
<1>. USE DEF Answer, TypeOK
<1>1. pc' \in [Request -> {"idle", "checked", "serving", "rejected"}]
  OBVIOUS
<1>2. own' \in [Request -> BOOLEAN]
  OBVIOUS
<1>3. myLimit' \in [Request -> [Period -> Nat]]
  BY ZeroType
<1>4. myDay' \in [Request -> 0..MaxDay]
  BY QuotaAssumption
<1>. QED
  BY <1>1, <1>2, <1>3, <1>4

\* The counters that are being exported.
ExportRow == [count : [Period -> Nat], last : 0..MaxDay, since : 0..MaxCount]
StoredRow == [count : [Period -> Nat], last : 0..MaxDay]

LEMMA ExportSince ==
    ASSUME NEW e \in ExportRow, NEW n \in 0..MaxCount
    PROVE  [e EXCEPT !.since = n] \in ExportRow
BY DEF ExportRow

LEMMA SinceFields ==
    ASSUME NEW e \in ExportRow, NEW n
    PROVE  LET f == [e EXCEPT !.since = n]
           IN  f.count = e.count /\ f.last = e.last /\ f.since = n
BY DEF ExportRow

LEMMA SinceTypes ==
    ASSUME TypeOK
    PROVE  /\ Since(LAMBDA v : 0) \in ExportRow \cup {None}
           /\ Since(OneMore) \in ExportRow \cup {None}
<1>1. CASE export = None
  BY <1>1 DEF Since
<1>2. CASE export # None
  <2>1. export \in ExportRow
    BY <1>2 DEF TypeOK, ExportRow
  <2>2. export.since \in 0..MaxCount
    BY <2>1 DEF ExportRow
  <2>3. 0 \in 0..MaxCount /\ OneMore(export.since) \in 0..MaxCount
    BY <2>2, QuotaAssumption DEF OneMore
  <2>4. [export EXCEPT !.since = 0] \in ExportRow
    BY <2>1, <2>3, ExportSince
  <2>5. [export EXCEPT !.since = OneMore(@)] \in ExportRow
    BY <2>1, <2>3, ExportSince
  <2>. QED
    BY <1>2, <2>4, <2>5 DEF Since
<1>. QED
  BY <1>1, <1>2

\* A key state that starts afresh.
LEMMA FreshTypes ==
    ASSUME TypeOK, NEW pol \in [Period -> Nat], FreshState(pol)
    PROVE  /\ limit' = pol /\ count' \in [Period -> Nat] /\ last' = day
           /\ export' \in ExportRow \cup {None}
           /\ own' \in [Request -> BOOLEAN]
           /\ myLimit' \in [Request -> [Period -> Nat]]
           /\ myDay' \in [Request -> 0..MaxDay]
           /\ admitted' \in [Period -> Nat] /\ missed' \in [Period -> Int]
           /\ slack' \in [Period -> Nat] /\ peak' \in [Period -> Nat \cup {NoCap}]
           /\ unflushed' \in 0..MaxCount
<1>1. Zero \in [Period -> Int] /\ Zero \in [Period -> Nat \cup {NoCap}]
  BY DEF Zero
<1>2. export' \in ExportRow \cup {None}
  BY SinceTypes DEF FreshState
<1>3. myLimit' \in [Request -> [Period -> Nat]]
  BY ZeroType DEF FreshState
<1>4. own' \in [Request -> BOOLEAN]
  <2>1. own' = [r \in Request |-> FALSE]
    BY DEF FreshState
  <2>. QED
    BY <2>1
<1>5. 0 \in 0..MaxDay /\ 0 \in 0..MaxCount
  BY QuotaAssumption
<1>6. myDay' \in [Request -> 0..MaxDay]
  BY <1>5 DEF FreshState
<1>7. /\ limit' = pol /\ count' = Zero /\ last' = day /\ admitted' = Zero
      /\ missed' = Zero /\ slack' = Zero /\ peak' = Zero /\ unflushed' = 0
  BY DEF FreshState
<1>. QED
  BY <1>1, <1>2, <1>3, <1>4, <1>5, <1>6, <1>7, ZeroType

\* A token leads to the key's state or nowhere, and a request that kept the
\* state knows that the key exists.
LEMMA StepKeys == QInv /\ [Next]_vars => (OneWayIn /\ OwnKey)'
<1>. SUFFICES ASSUME QInv, [Next]_vars PROVE (OneWayIn /\ OwnKey)'
  OBVIOUS
<1>. USE QuotaAssumption DEF QInv, keyVars, counterVars, storeVars, historyVars, requestVars, TypeOK, OneWayIn, OwnKey
<1>1. ASSUME NEW r \in Request, Lookup(r) PROVE (OneWayIn /\ OwnKey)'
  BY <1>1 DEF Lookup
<1>2. ASSUME NEW r \in Request, Deny(r) PROVE (OneWayIn /\ OwnKey)'
  BY <1>2 DEF Deny, Answer
<1>3. ASSUME NEW r \in Request, CountOwn(r) PROVE (OneWayIn /\ OwnKey)'
  BY <1>3 DEF CountOwn, Since, OneMore
<1>4. ASSUME NEW r \in Request, CountDetached(r) PROVE (OneWayIn /\ OwnKey)'
  BY <1>4 DEF CountDetached
<1>5. ASSUME NEW r \in Request, Reject(r) PROVE (OneWayIn /\ OwnKey)'
  BY <1>5 DEF Reject, Decrement, Decremented, NoteSlack, Answer
<1>6. ASSUME NEW r \in Request, Finish(r) PROVE (OneWayIn /\ OwnKey)'
  BY <1>6 DEF Finish, Answer
<1>7. ASSUME NEW r \in Request, Refund(r) PROVE (OneWayIn /\ OwnKey)'
  BY <1>7 DEF Refund, Decrement, Decremented, NoteSlack, Answer
<1>8. CASE PatchKey
  BY <1>8 DEF PatchKey
<1>9. CASE ReloadSame
  BY <1>9 DEF ReloadSame
<1>10. CASE Export
  BY <1>10 DEF Export
<1>11. CASE SaveKeyCounters
  BY <1>11 DEF SaveKeyCounters
<1>12. CASE NextDay
  BY <1>12 DEF NextDay
<1>13. CASE AddKey
  BY <1>13 DEF AddKey, FreshState, KeysAfterAdd, Detached, Since
<1>14. CASE ReloadRotated
  BY <1>14 DEF ReloadRotated, FreshState, Since
<1>15. CASE RevokeKey
  BY <1>15 DEF RevokeKey, FreshState, Since
<1>16. CASE Restart
  BY <1>16 DEF Restart, Restored, NoteSlack
<1>17. CASE UNCHANGED vars
  BY <1>17 DEF vars
<1>. QED
  BY <1>1, <1>2, <1>3, <1>4, <1>5, <1>6, <1>7, <1>8, <1>9, <1>10, <1>11, <1>12, <1>13, <1>14, <1>15, <1>16, <1>17 DEF Next, NextKept

\* Nothing is ever dated tomorrow.
LEMMA StepDates == QInv /\ [Next]_vars => Dated'
<1>. SUFFICES ASSUME QInv, [Next]_vars PROVE Dated'
  OBVIOUS
<1>. USE QuotaAssumption DEF QInv, keyVars, counterVars, storeVars, historyVars, requestVars, TypeOK, Dated
<1>1. ASSUME NEW r \in Request, Lookup(r) PROVE Dated'
  BY <1>1 DEF Lookup
<1>2. ASSUME NEW r \in Request, Deny(r) PROVE Dated'
  BY <1>2 DEF Deny, Answer
<1>3. ASSUME NEW r \in Request, CountOwn(r) PROVE Dated'
  BY <1>3 DEF CountOwn, Since, OneMore
<1>4. ASSUME NEW r \in Request, CountDetached(r) PROVE Dated'
  BY <1>4 DEF CountDetached
<1>5. ASSUME NEW r \in Request, Reject(r) PROVE Dated'
  BY <1>5 DEF Reject, Decrement, Decremented, NoteSlack, Answer
<1>6. ASSUME NEW r \in Request, Finish(r) PROVE Dated'
  BY <1>6 DEF Finish, Answer
<1>7. ASSUME NEW r \in Request, Refund(r) PROVE Dated'
  BY <1>7 DEF Refund, Decrement, Decremented, NoteSlack, Answer
<1>8. CASE PatchKey
  BY <1>8 DEF PatchKey
<1>9. CASE ReloadSame
  BY <1>9 DEF ReloadSame
<1>10. CASE Export
  BY <1>10 DEF Export
<1>11. CASE SaveKeyCounters
  BY <1>11 DEF SaveKeyCounters
<1>12. CASE NextDay
  BY <1>12 DEF NextDay
<1>13. CASE AddKey
  BY <1>13 DEF AddKey, FreshState, KeysAfterAdd, Detached, Since
<1>14. CASE ReloadRotated
  BY <1>14 DEF ReloadRotated, FreshState, Since
<1>15. CASE RevokeKey
  BY <1>15 DEF RevokeKey, FreshState, Since
<1>16. CASE Restart
  BY <1>16 DEF Restart, Restored, NoteSlack
<1>17. CASE UNCHANGED vars
  BY <1>17 DEF vars
<1>. QED
  BY <1>1, <1>2, <1>3, <1>4, <1>5, <1>6, <1>7, <1>8, <1>9, <1>10, <1>11, <1>12, <1>13, <1>14, <1>15, <1>16, <1>17 DEF Next, NextKept

\* A refund takes back an admission that is still counted.
LEMMA RefundCovered ==
    ASSUME TypeOK, ServedAreAdmitted, NEW r \in Request, pc[r] = "serving", own[r],
           NEW p \in Period, SamePeriod(p, myDay[r], day)
    PROVE  admitted[p] >= 1
<1>1. r \in Serving(p)
  BY DEF Serving
<1>2. Cardinality(Serving(p)) # 0
  BY <1>1, Sizes, FS_EmptySet
<1>. QED
  BY <1>2, Sizes DEF ServedAreAdmitted, TypeOK

\* Every step keeps every variable in its domain.
LEMMA StepTypes == QInv /\ [Next]_vars => TypeOK'
<1>. SUFFICES ASSUME QInv, [Next]_vars PROVE TypeOK'
  OBVIOUS
<1>. USE QuotaAssumption DEF QInv, keyVars, counterVars, storeVars, historyVars, requestVars, TypeOK
<1>1. ASSUME NEW r \in Request, Lookup(r) PROVE TypeOK'
  <2>1. pc' \in [Request -> {"idle", "checked", "serving", "rejected"}]
    BY <1>1 DEF Lookup
  <2>2. own' \in [Request -> BOOLEAN]
    BY <1>1 DEF Lookup
  <2>3. myLimit' \in [Request -> [Period -> Nat]]
    BY <1>1, ZeroType DEF Lookup
  <2>. QED
    BY <1>1, <2>1, <2>2, <2>3 DEF Lookup
<1>2. ASSUME NEW r \in Request, Deny(r) PROVE TypeOK'
  BY <1>2, AnswerTypes DEF Deny
<1>3. ASSUME NEW r \in Request, CountOwn(r) PROVE TypeOK'
  <2>. DEFINE v  == [p \in Period |-> Shown[p] + 1]
              ok == ~Over(v, myLimit[r])
  <2>1. v \in [Period -> Nat]
    BY ShownType
  <2>2. export' \in ExportRow \cup {None}
    BY <1>3, SinceTypes DEF CountOwn
  <2>3. pc' \in [Request -> {"idle", "checked", "serving", "rejected"}]
    BY <1>3 DEF CountOwn
  <2>4. myLimit' \in [Request -> [Period -> Nat]]
    BY <1>3, ZeroType DEF CountOwn
  <2>5. admitted' \in [Period -> Nat]
    BY <1>3 DEF CountOwn
  <2>6. peak' \in [Period -> Nat \cup {NoCap}]
    <3>1. \A p \in Period : myLimit[r][p] \in Nat
      OBVIOUS
    <3>. QED
      BY <1>3, <3>1 DEF CountOwn
  <2>7. unflushed' \in 0..MaxCount
    <3>1. unflushed' = OneMore(unflushed)
      BY <1>3 DEF CountOwn
    <3>. QED
      BY <3>1 DEF OneMore
  <2>8. /\ count' = v /\ last' = day /\ myDay' = [myDay EXCEPT ![r] = day]
        /\ UNCHANGED <<day, key, keys, limit, stored, own, missed, slack>>
    BY <1>3 DEF CountOwn
  <2>9. myDay' \in [Request -> 0..MaxDay]
    BY <2>8
  <2>. QED
    BY <2>1, <2>2, <2>3, <2>4, <2>5, <2>6, <2>7, <2>8, <2>9 DEF ExportRow
<1>4. ASSUME NEW r \in Request, CountDetached(r) PROVE TypeOK'
  BY <1>4 DEF CountDetached
<1>5. ASSUME NEW r \in Request, Reject(r) PROVE TypeOK'
  <2>1. count' \in [Period -> Nat]
    BY <1>5 DEF Reject, Decrement, Decremented
  <2>2. admitted' \in [Period -> Nat]
    BY <1>5 DEF Reject, Decrement
  <2>3. missed' \in [Period -> Int]
    BY <1>5 DEF Reject, Decrement
  <2>4. slack' \in [Period -> Nat]
    BY <1>5, <2>3 DEF Reject, Decrement, NoteSlack
  <2>5. UNCHANGED <<day, key, keys, limit, last, export, stored, peak, unflushed>>
    BY <1>5 DEF Reject
  <2>6. Answer(r)
    BY <1>5 DEF Reject
  <2>. QED
    BY <2>1, <2>2, <2>3, <2>4, <2>5, <2>6, AnswerTypes
<1>6. ASSUME NEW r \in Request, Finish(r) PROVE TypeOK'
  BY <1>6, AnswerTypes DEF Finish
<1>7. ASSUME NEW r \in Request, Refund(r) PROVE TypeOK'
  <2>1. count' \in [Period -> Nat]
    BY <1>7 DEF Refund, Decrement, Decremented
  <2>2. admitted' \in [Period -> Nat]
    BY <1>7, RefundCovered DEF Refund, Decrement
  <2>3. missed' \in [Period -> Int]
    BY <1>7 DEF Refund, Decrement
  <2>4. slack' \in [Period -> Nat]
    BY <1>7, <2>3 DEF Refund, Decrement, NoteSlack
  <2>5. UNCHANGED <<day, key, keys, limit, last, export, stored, peak, unflushed>>
    BY <1>7 DEF Refund
  <2>6. Answer(r)
    BY <1>7 DEF Refund
  <2>. QED
    BY <2>1, <2>2, <2>3, <2>4, <2>5, <2>6, AnswerTypes
<1>8. CASE PatchKey
  BY <1>8 DEF PatchKey
<1>9. CASE ReloadSame
  BY <1>9 DEF ReloadSame
<1>10. CASE Export
  <2>1. export' \in ExportRow
    BY <1>10, ShownType DEF Export, ExportRow
  <2>. QED
    BY <1>10, <2>1, ShownType DEF Export, ExportRow
<1>11. CASE SaveKeyCounters
  BY <1>11 DEF SaveKeyCounters
<1>12. CASE NextDay
  BY <1>12 DEF NextDay
<1>13. CASE AddKey
  <2>1. PICK t \in Token, pol \in Policies : /\ FreshState(pol) /\ key' = t
               /\ keys' = KeysAfterAdd(t)
               /\ UNCHANGED <<day, stored, pc>>
    BY <1>13 DEF AddKey
  <2>2. keys' \in [Token -> {"none", "current", "old"}]
    BY <2>1 DEF KeysAfterAdd, Detached
  <2>3. pol \in [Period -> Nat]
    OBVIOUS
  <2>. QED
    BY <2>1, <2>2, <2>3, FreshTypes DEF ExportRow
<1>14. CASE ReloadRotated
  <2>1. PICK t \in Token, pol \in Policies : /\ FreshState(pol) /\ key' = t
               /\ keys' = [u \in Token |-> IF u = t THEN "current" ELSE "none"]
               /\ UNCHANGED <<day, stored, pc>>
    BY <1>14 DEF ReloadRotated
  <2>2. keys' \in [Token -> {"none", "current", "old"}]
    BY <2>1 DEF KeysAfterAdd, Detached
  <2>3. pol \in [Period -> Nat]
    OBVIOUS
  <2>. QED
    BY <2>1, <2>2, <2>3, FreshTypes DEF ExportRow
<1>15. CASE RevokeKey
  <2>1. keys' \in [Token -> {"none", "current", "old"}]
    BY <1>15 DEF RevokeKey
  <2>2. limit \in [Period -> Nat] /\ FreshState(limit)
    BY <1>15 DEF RevokeKey
  <2>3. UNCHANGED <<day, stored, pc>> /\ key' = None
    BY <1>15 DEF RevokeKey
  <2>. QED
    BY <2>1, <2>2, <2>3, FreshTypes DEF ExportRow
<1>16. CASE Restart
  <2>. DEFINE row == IF stored = None THEN [count |-> Zero, last |-> day] ELSE Restored(stored)
              now == ResetLocked(row.count, row.last)
  <2>1. row.count \in [Period -> Nat] /\ row.last \in 0..MaxDay
    BY ZeroType DEF Restored
  <2>2. now \in [Period -> Nat]
    BY <2>1 DEF ResetLocked
  <2>3. missed' \in [Period -> Int]
    <3>1. missed' = [p \in Period |-> admitted[p] - now[p]]
      BY <1>16 DEF Restart
    <3>. QED
      BY <2>2, <3>1
  <2>4. slack' \in [Period -> Nat]
    BY <1>16, <2>3 DEF Restart, NoteSlack
  <2>5. myLimit' \in [Request -> [Period -> Nat]]
    BY <1>16, ZeroType DEF Restart
  <2>6. own' \in [Request -> BOOLEAN]
    <3>1. own' = [r \in Request |-> FALSE]
      BY <1>16 DEF Restart
    <3>. QED
      BY <3>1
  <2>7. /\ pc' \in [Request -> {"idle", "checked", "serving", "rejected"}]
        /\ myDay' \in [Request -> 0..MaxDay]
        /\ keys' \in [Token -> {"none", "current", "old"}]
    BY <1>16 DEF Restart
  <2>8. /\ count' = row.count /\ last' = row.last /\ unflushed' = 0 /\ export' = None
        /\ UNCHANGED <<day, key, limit, stored, admitted, peak>>
    BY <1>16 DEF Restart
  <2>9. unflushed' \in 0..MaxCount
    BY <2>8
  <2>. HIDE DEF row, now
  <2>. QED
    BY <2>1, <2>3, <2>4, <2>5, <2>6, <2>7, <2>8, <2>9
<1>17. CASE UNCHANGED vars
  BY <1>17 DEF vars
<1>. QED
  BY <1>1, <1>2, <1>3, <1>4, <1>5, <1>6, <1>7, <1>8, <1>9, <1>10, <1>11, <1>12, <1>13, <1>14, <1>15, <1>16, <1>17 DEF Next, NextKept

LEMMA ShownAt ==
    \A p \in Period : Shown[p] = IF SamePeriod(p, last, day) THEN count[p] ELSE 0
BY DEF Shown, ResetLocked

\* The two counts, in the terms of the sets.
Counts == /\ key # None => \A p \in Period :
                               Shown[p] = admitted[p] - missed[p] + Cardinality(Rejected(p))
          /\ \A p \in Period : Cardinality(Serving(p)) <= admitted[p]

LEMMA CountsIs == Counts <=> CounterExact /\ ServedAreAdmitted
BY DEF Counts, CounterExact, ServedAreAdmitted, Rejected

\* A step that neither counts nor forgets a request.
LEMMA CountsKept ==
    ASSUME QInv, UNCHANGED <<admitted, missed>>, key' # None => key # None,
           \A p \in Period : /\ Shown'[p] = Shown[p]
                             /\ Rejected(p)' = Rejected(p)
                             /\ Serving(p)' \subseteq Serving(p)
    PROVE  Counts'
<1>1. Counts
  BY CountsIs DEF QInv
<1>2. \A p \in Period : Cardinality(Serving(p)') <= Cardinality(Serving(p))
  BY Sizes, FS_Subset
<1>3. \A p \in Period : Cardinality(Serving(p)') \in Nat
  BY Sizes, FS_Subset, FS_CardinalityType
<1>. QED
  BY <1>1, <1>2, <1>3, Sizes DEF Counts, QInv, TypeOK

\* A step after which no request can be turned away or refunded any more.
LEMMA CountsCleared ==
    ASSUME own' = [r \in Request |-> FALSE], admitted' \in [Period -> Nat], missed' \in [Period -> Int],
           \A p \in Period : Shown'[p] = admitted'[p] - missed'[p]
    PROVE  Counts'
<1>1. \A p \in Period : Rejected(p)' = {} /\ Serving(p)' = {}
  BY DEF Rejected, Serving
<1>2. \A p \in Period : admitted'[p] \in Nat /\ missed'[p] \in Int
  OBVIOUS
<1>3. Cardinality({}) = 0
  BY FS_EmptySet
<1>4. \A p \in Period : /\ Shown'[p] = admitted'[p] - missed'[p] + Cardinality(Rejected(p)')
                         /\ Cardinality(Serving(p)') <= admitted'[p]
  <2>1. TAKE p \in Period
  <2>2. Cardinality(Rejected(p)') = 0 /\ Cardinality(Serving(p)') = 0
    BY <1>1, <1>3
  <2>3. Shown'[p] = admitted'[p] - missed'[p]
    OBVIOUS
  <2>. QED
    BY <1>2, <2>2, <2>3
<1>. QED
  BY <1>4 DEF Counts

LEMMA FreshCounts == ASSUME NEW pol, FreshState(pol), day' = day PROVE Counts'
<1>1. /\ own' = [r \in Request |-> FALSE] /\ count' = Zero /\ admitted' = Zero /\ missed' = Zero
  BY DEF FreshState
<1>2. \A p \in Period : Shown'[p] = 0
  BY <1>1, ShownAt, ZeroType DEF Shown, ResetLocked
<1>3. Zero \in [Period -> Int]
  BY DEF Zero
<1>. QED
  BY <1>1, <1>2, <1>3, ZeroType, CountsCleared

\* A decrement takes the increment of a request back, or the histories say what
\* else it took.
LEMMA Decremented1 ==
    ASSUME TypeOK, NEW r \in Request, NEW w \in BOOLEAN, Decrement(r, w), UNCHANGED <<day, last>>,
           NEW p \in Period
    PROVE  LET mine  == own[r] /\ SamePeriod(p, myDay[r], day)
               taken == SamePeriod(p, last, day) /\ count[p] > 0
           IN  /\ Shown'[p] = IF taken THEN Shown[p] - 1 ELSE Shown[p]
               /\ Shown'[p] \in Nat
               /\ admitted'[p] = IF mine /\ w THEN admitted[p] - 1 ELSE admitted[p]
               /\ missed'[p] = IF taken /\ ~mine THEN missed[p] + 1
                               ELSE IF mine /\ ~taken THEN missed[p] - 1 ELSE missed[p]
<1>1. count'[p] = IF count[p] > 0 THEN count[p] - 1 ELSE 0
  BY DEF Decrement, Decremented
<1>2. Shown[p] = IF SamePeriod(p, last, day) THEN count[p] ELSE 0
  BY ShownAt
<1>3. Shown'[p] = IF SamePeriod(p, last, day) THEN count'[p] ELSE 0
  BY DEF Shown, ResetLocked
<1>4. count[p] \in Nat
  BY DEF TypeOK
<1>. QED
  BY <1>1, <1>2, <1>3, <1>4 DEF Decrement

LEMMA Leave ==
    ASSUME NEW r \in Request, NEW p \in Period
    PROVE  /\ r \in Rejected(p) =>
                Cardinality(Rejected(p) \ {r}) = Cardinality(Rejected(p)) - 1
           /\ r \in Serving(p) =>
                Cardinality(Serving(p) \ {r}) = Cardinality(Serving(p)) - 1
           /\ r \notin Rejected(p) =>
                Cardinality(Rejected(p) \cup {r}) = Cardinality(Rejected(p)) + 1
           /\ r \notin Serving(p) =>
                Cardinality(Serving(p) \cup {r}) = Cardinality(Serving(p)) + 1
BY Sizes, FS_RemoveElement, FS_AddElement

\* The counter shows what it claims, step by step.
LEMMA StepCounts == QInv /\ [Next]_vars => Counts'
<1>. SUFFICES ASSUME QInv, [Next]_vars PROVE Counts'
  OBVIOUS
<1>a. Counts /\ TypeOK /\ Dated
  BY CountsIs DEF QInv
<1>. USE <1>a DEF keyVars, counterVars, storeVars, historyVars, requestVars
<1>1. ASSUME NEW r \in Request, Lookup(r) PROVE Counts'
  <2>1. \A p \in Period : Rejected(p)' = Rejected(p) /\ Serving(p)' = Serving(p)
    BY <1>1 DEF Lookup, Rejected, Serving
  <2>2. \A p \in Period : Shown'[p] = Shown[p]
    BY <1>1 DEF Lookup, Shown, ResetLocked
  <2>. QED
    BY <1>1, <2>1, <2>2, CountsKept DEF Lookup
<1>2. ASSUME NEW r \in Request, Deny(r) PROVE Counts'
  <2>1. \A p \in Period : Rejected(p)' = Rejected(p) /\ Serving(p)' \subseteq Serving(p)
    BY <1>2 DEF Deny, Answer, Rejected, Serving, TypeOK
  <2>2. \A p \in Period : Shown'[p] = Shown[p]
    BY <1>2 DEF Deny, Answer, Shown, ResetLocked
  <2>. QED
    BY <1>2, <2>1, <2>2, CountsKept DEF Deny, Answer
<1>3. ASSUME NEW r \in Request, CountOwn(r) PROVE Counts'
  <2>. DEFINE ok == ~Over([p \in Period |-> Shown[p] + 1], myLimit[r])
  <2>. SUFFICES ASSUME NEW p \in Period
                PROVE  /\ key' # None => Shown'[p] = admitted'[p] - missed'[p] + Cardinality(Rejected(p)')
                       /\ Cardinality(Serving(p)') <= admitted'[p]
    BY DEF Counts
  <2>1. Shown'[p] = Shown[p] + 1
    BY <1>3 DEF CountOwn, Shown, ResetLocked, SamePeriod
  <2>2. r \notin Rejected(p) /\ r \notin Serving(p)
    BY <1>3 DEF CountOwn, Rejected, Serving
  <2>3. /\ key # None => Shown[p] = admitted[p] - missed[p] + Cardinality(Rejected(p))
        /\ Cardinality(Serving(p)) <= admitted[p]
    BY DEF Counts
  <2>4. admitted[p] \in Nat /\ missed[p] \in Int /\ Shown[p] \in Nat
    BY ShownType DEF TypeOK
  <2>5. /\ pc' = [pc EXCEPT ![r] = IF ok THEN "serving" ELSE "rejected"]
        /\ myDay' = [myDay EXCEPT ![r] = day]
        /\ own[r] /\ UNCHANGED <<own, day, key, missed>>
        /\ admitted'[p] = IF ok THEN admitted[p] + 1 ELSE admitted[p]
    BY <1>3 DEF CountOwn
  <2>6. CASE ok
    <3>1. Rejected(p)' = Rejected(p)
      BY <2>2, <2>5, <2>6 DEF Rejected, TypeOK
    <3>2. Serving(p)' = Serving(p) \cup {r}
      BY <2>2, <2>5, <2>6 DEF Serving, SamePeriod, TypeOK
    <3>3. Cardinality(Serving(p)') = Cardinality(Serving(p)) + 1
      BY <2>2, <3>2, Leave
    <3>. QED
      BY <2>1, <2>3, <2>4, <2>5, <2>6, <3>1, <3>3, Sizes
  <2>7. CASE ~ok
    <3>1. Rejected(p)' = Rejected(p) \cup {r}
      BY <2>2, <2>5, <2>7 DEF Rejected, SamePeriod, TypeOK
    <3>2. Serving(p)' = Serving(p)
      BY <2>2, <2>5, <2>7 DEF Serving, TypeOK
    <3>3. Cardinality(Rejected(p)') = Cardinality(Rejected(p)) + 1
      BY <2>2, <3>1, Leave
    <3>. QED
      BY <2>1, <2>3, <2>4, <2>5, <2>7, <3>2, <3>3, Sizes
  <2>. QED
    BY <2>6, <2>7
<1>4. ASSUME NEW r \in Request, CountDetached(r) PROVE Counts'
  <2>1. \A p \in Period : Rejected(p)' = Rejected(p) /\ Serving(p)' = Serving(p)
    BY <1>4 DEF CountDetached, Rejected, Serving
  <2>2. \A p \in Period : Shown'[p] = Shown[p]
    BY <1>4 DEF CountDetached, Shown, ResetLocked
  <2>. QED
    BY <1>4, <2>1, <2>2, CountsKept DEF CountDetached
<1>5. ASSUME NEW r \in Request, Reject(r) PROVE Counts'
  <2>1. CASE own[r]
    <3>1. Answer(r) /\ UNCHANGED <<day, key, last>> /\ Decrement(r, FALSE)
      BY <2>1, <1>5 DEF Reject
    <3>. SUFFICES ASSUME NEW p \in Period
                  PROVE  /\ key' # None => Shown'[p] = admitted'[p] - missed'[p] + Cardinality(Rejected(p)')
                         /\ Cardinality(Serving(p)') <= admitted'[p]
      BY DEF Counts
    <3>2. /\ key # None => Shown[p] = admitted[p] - missed[p] + Cardinality(Rejected(p))
          /\ Cardinality(Serving(p)) <= admitted[p]
      BY DEF Counts
    <3>3. admitted[p] \in Nat /\ missed[p] \in Int /\ Shown[p] \in Nat
      BY ShownType DEF TypeOK
    <3>4. Rejected(p)' = Rejected(p) \ {r} /\ Serving(p)' = Serving(p) \ {r}
      BY <3>1 DEF Answer, Rejected, Serving, TypeOK
    <3>5. LET mine  == own[r] /\ SamePeriod(p, myDay[r], day)
              taken == SamePeriod(p, last, day) /\ count[p] > 0
          IN  /\ Shown'[p] = IF taken THEN Shown[p] - 1 ELSE Shown[p]
              /\ admitted'[p] = IF mine /\ FALSE THEN admitted[p] - 1 ELSE admitted[p]
              /\ missed'[p] = IF taken /\ ~mine THEN missed[p] + 1
                              ELSE IF mine /\ ~taken THEN missed[p] - 1 ELSE missed[p]
      BY <3>1, Decremented1
    <3>6. /\ r \notin Serving(p)
          /\ r \in Rejected(p) <=> own[r] /\ SamePeriod(p, myDay[r], day)
      BY <1>5 DEF Reject, Rejected, Serving
    <3>7. Serving(p) \ {r} = Serving(p)
      BY <3>6
    <3>8. Rejected(p) \ {r} = IF own[r] /\ SamePeriod(p, myDay[r], day) THEN Rejected(p) \ {r} ELSE Rejected(p)
      BY <3>6
    <3>9. Cardinality(Rejected(p)') = IF own[r] /\ SamePeriod(p, myDay[r], day)
                                       THEN Cardinality(Rejected(p)) - 1 ELSE Cardinality(Rejected(p))
      BY <3>4, <3>6, <3>8, Leave
    <3>10. Cardinality(Serving(p)') = Cardinality(Serving(p))
      BY <3>4, <3>7
    <3>11. Cardinality(Rejected(p)) \in Nat /\ Cardinality(Serving(p)) \in Nat
      BY Sizes
    <3>12. key' = key
      BY <3>1
    <3>. QED
      BY <3>2, <3>3, <3>5, <3>9, <3>10, <3>11, <3>12
  <2>2. CASE ~own[r]
    <3>1. Answer(r) /\ UNCHANGED <<day, key, count, last, admitted, missed>>
      BY <1>5, <2>2 DEF Reject
    <3>2. \A p \in Period : Rejected(p)' = Rejected(p) /\ Serving(p)' \subseteq Serving(p)
      BY <2>2, <3>1 DEF Answer, Rejected, Serving, TypeOK
    <3>3. \A p \in Period : Shown'[p] = Shown[p]
      BY <3>1 DEF Shown, ResetLocked
    <3>. QED
      BY <3>1, <3>2, <3>3, CountsKept
  <2>. QED
    BY <2>1, <2>2
<1>6. ASSUME NEW r \in Request, Finish(r) PROVE Counts'
  <2>1. \A p \in Period : Rejected(p)' = Rejected(p) /\ Serving(p)' \subseteq Serving(p)
    BY <1>6 DEF Finish, Answer, Rejected, Serving, TypeOK
  <2>2. \A p \in Period : Shown'[p] = Shown[p]
    BY <1>6 DEF Finish, Answer, Shown, ResetLocked
  <2>. QED
    BY <1>6, <2>1, <2>2, CountsKept DEF Finish, Answer
<1>7. ASSUME NEW r \in Request, Refund(r) PROVE Counts'
  <2>1. Answer(r) /\ UNCHANGED <<day, key, last>> /\ Decrement(r, TRUE)
    BY <1>7 DEF Refund
  <2>. SUFFICES ASSUME NEW p \in Period
                PROVE  /\ key' # None => Shown'[p] = admitted'[p] - missed'[p] + Cardinality(Rejected(p)')
                       /\ Cardinality(Serving(p)') <= admitted'[p]
    BY DEF Counts
  <2>2. /\ key # None => Shown[p] = admitted[p] - missed[p] + Cardinality(Rejected(p))
        /\ Cardinality(Serving(p)) <= admitted[p]
    BY DEF Counts
  <2>3. admitted[p] \in Nat /\ missed[p] \in Int /\ Shown[p] \in Nat
    BY ShownType DEF TypeOK
  <2>4. Rejected(p)' = Rejected(p) \ {r} /\ Serving(p)' = Serving(p) \ {r}
    BY <2>1 DEF Answer, Rejected, Serving, TypeOK
  <2>5. LET mine  == own[r] /\ SamePeriod(p, myDay[r], day)
            taken == SamePeriod(p, last, day) /\ count[p] > 0
        IN  /\ Shown'[p] = IF taken THEN Shown[p] - 1 ELSE Shown[p]
            /\ admitted'[p] = IF mine /\ TRUE THEN admitted[p] - 1 ELSE admitted[p]
            /\ missed'[p] = IF taken /\ ~mine THEN missed[p] + 1
                            ELSE IF mine /\ ~taken THEN missed[p] - 1 ELSE missed[p]
    BY <2>1, Decremented1
  <2>6. /\ r \notin Rejected(p)
        /\ r \in Serving(p) <=> own[r] /\ SamePeriod(p, myDay[r], day)
    BY <1>7 DEF Refund, Rejected, Serving
  <2>7. Rejected(p) \ {r} = Rejected(p)
    BY <2>6
  <2>8. Serving(p) \ {r} = IF own[r] /\ SamePeriod(p, myDay[r], day) THEN Serving(p) \ {r} ELSE Serving(p)
    BY <2>6
  <2>9. Cardinality(Serving(p)') = IF own[r] /\ SamePeriod(p, myDay[r], day)
                                     THEN Cardinality(Serving(p)) - 1 ELSE Cardinality(Serving(p))
    BY <2>4, <2>6, <2>8, Leave
  <2>10. Cardinality(Rejected(p)') = Cardinality(Rejected(p))
    BY <2>4, <2>7
  <2>11. Cardinality(Rejected(p)) \in Nat /\ Cardinality(Serving(p)) \in Nat
    BY Sizes
  <2>12. key' = key
    BY <2>1
  <2>. QED
    BY <2>2, <2>3, <2>5, <2>9, <2>10, <2>11, <2>12
<1>8. CASE PatchKey
  <2>1. \A p \in Period : Rejected(p)' = Rejected(p) /\ Serving(p)' = Serving(p)
    BY <1>8 DEF PatchKey, Rejected, Serving
  <2>2. \A p \in Period : Shown'[p] = Shown[p]
    BY <1>8 DEF PatchKey, Shown, ResetLocked
  <2>. QED
    BY <1>8, <2>1, <2>2, CountsKept DEF PatchKey
<1>9. CASE ReloadSame
  <2>1. \A p \in Period : Rejected(p)' = Rejected(p) /\ Serving(p)' = Serving(p)
    BY <1>9 DEF ReloadSame, Rejected, Serving
  <2>2. \A p \in Period : Shown'[p] = Shown[p]
    BY <1>9 DEF ReloadSame, Shown, ResetLocked
  <2>. QED
    BY <1>9, <2>1, <2>2, CountsKept DEF ReloadSame
<1>10. CASE Export
  <2>1. \A p \in Period : Rejected(p)' = Rejected(p) /\ Serving(p)' = Serving(p)
    BY <1>10 DEF Export, Rejected, Serving
  <2>2. \A p \in Period : Shown'[p] = Shown[p]
    BY <1>10 DEF Export, Shown, ResetLocked, SamePeriod
  <2>. QED
    BY <1>10, <2>1, <2>2, CountsKept DEF Export
<1>11. CASE SaveKeyCounters
  <2>1. \A p \in Period : Rejected(p)' = Rejected(p) /\ Serving(p)' = Serving(p)
    BY <1>11 DEF SaveKeyCounters, Rejected, Serving
  <2>2. \A p \in Period : Shown'[p] = Shown[p]
    BY <1>11 DEF SaveKeyCounters, Shown, ResetLocked
  <2>. QED
    BY <1>11, <2>1, <2>2, CountsKept DEF SaveKeyCounters
<1>12. CASE NextDay
  <2>. SUFFICES ASSUME NEW p \in Period
                PROVE  /\ key' # None => Shown'[p] = admitted'[p] - missed'[p] + Cardinality(Rejected(p)')
                       /\ Cardinality(Serving(p)') <= admitted'[p]
    BY DEF Counts
  <2>1. /\ day' = day + 1 /\ UNCHANGED <<key, count, last, pc, own, myDay>>
        /\ admitted'[p] = IF SamePeriod(p, day, day + 1) THEN admitted[p] ELSE 0
        /\ missed'[p] = IF SamePeriod(p, day, day + 1) THEN missed[p] ELSE 0
    BY <1>12 DEF NextDay
  <2>2. Shown'[p] = IF SamePeriod(p, last, day + 1) THEN count[p] ELSE 0
    BY <2>1 DEF Shown, ResetLocked
  <2>3. /\ day \in Nat /\ last \in Nat /\ \A r \in Request : myDay[r] \in Nat
        /\ last <= day /\ \A r \in Request : myDay[r] <= day
    BY DEF Dated, TypeOK
  <2>4. CASE SamePeriod(p, day, day + 1)
    <3>1. \A d \in Nat : SamePeriod(p, d, day + 1) <=> SamePeriod(p, d, day)
      BY <2>3, <2>4, Midnight
    <3>2. Rejected(p)' = Rejected(p)
      BY <2>1, <2>3, <3>1 DEF Rejected
    <3>3. Serving(p)' = Serving(p)
      BY <2>1, <2>3, <3>1 DEF Serving
    <3>4. Shown'[p] = Shown[p]
      BY <2>2, <2>3, <3>1, ShownAt
    <3>. QED
      BY <2>1, <2>4, <3>2, <3>3, <3>4 DEF Counts
  <2>5. CASE ~SamePeriod(p, day, day + 1)
    <3>1. \A d \in Nat : d <= day => ~SamePeriod(p, d, day + 1)
      BY <2>3, <2>5, Midnight
    <3>2. Rejected(p)' = {}
      BY <2>1, <2>3, <3>1 DEF Rejected
    <3>3. Serving(p)' = {}
      BY <2>1, <2>3, <3>1 DEF Serving
    <3>4. Shown'[p] = 0
      BY <2>2, <2>3, <3>1
    <3>. QED
      BY <2>1, <2>5, <3>2, <3>3, <3>4, FS_EmptySet
  <2>. QED
    BY <2>4, <2>5
<1>13. CASE AddKey
  BY <1>13, FreshCounts DEF AddKey
<1>14. CASE ReloadRotated
  BY <1>14, FreshCounts DEF ReloadRotated
<1>15. CASE RevokeKey
  BY <1>15, FreshCounts DEF RevokeKey
<1>16. CASE Restart
  <2>. DEFINE row == IF stored = None THEN [count |-> Zero, last |-> day] ELSE Restored(stored)
              now == ResetLocked(row.count, row.last)
  <2>1. row.count \in [Period -> Nat]
    BY ZeroType DEF Restored, TypeOK
  <2>2. now \in [Period -> Nat]
    BY <2>1 DEF ResetLocked
  <2>3. /\ missed' = [p \in Period |-> admitted[p] - now[p]] /\ admitted' = admitted
        /\ own' = [r \in Request |-> FALSE]
        /\ count' = row.count /\ last' = row.last /\ day' = day
    BY <1>16 DEF Restart
  <2>. HIDE DEF row
  <2>4. Shown' = now
    BY <2>3 DEF Shown, ResetLocked
  <2>. HIDE DEF now
  <2>5. \A p \in Period : admitted[p] \in Nat /\ now[p] \in Nat
    BY <2>2 DEF TypeOK
  <2>6. \A p \in Period : Shown'[p] = admitted'[p] - missed'[p]
    BY <2>3, <2>4, <2>5
  <2>7. missed' \in [Period -> Int]
    BY <2>3, <2>5
  <2>8. admitted' \in [Period -> Nat]
    BY <2>3 DEF TypeOK
  <2>. QED
    BY <2>3, <2>6, <2>7, <2>8, CountsCleared
<1>17. CASE UNCHANGED vars
  <2>1. \A p \in Period : Rejected(p)' = Rejected(p) /\ Serving(p)' = Serving(p)
    BY <1>17 DEF vars, Rejected, Serving
  <2>2. \A p \in Period : Shown'[p] = Shown[p]
    BY <1>17 DEF vars, Shown, ResetLocked
  <2>. QED
    BY <1>17, <2>1, <2>2, CountsKept DEF vars
<1>. QED
  BY <1>1, <1>2, <1>3, <1>4, <1>5, <1>6, <1>7, <1>8, <1>9, <1>10, <1>11, <1>12, <1>13, <1>14, <1>15, <1>16, <1>17 DEF Next, NextKept

-----------------------------------------------------------------------------
(* The quota. *)

\* A decrement never adds, and its loss is covered.
LEMMA DecrementQuota ==
    ASSUME TypeOK, SlackCovers, QuotaBound, NEW r \in Request, NEW w \in BOOLEAN, Decrement(r, w),
           peak' = peak, missed' \in [Period -> Int], admitted' \in [Period -> Nat]
    PROVE  (SlackCovers /\ QuotaBound)'
<1>. SUFFICES ASSUME NEW p \in Period
              PROVE  missed'[p] <= slack'[p] /\ (peak'[p] = NoCap \/ admitted'[p] <= peak'[p] + slack'[p])
  BY DEF SlackCovers, QuotaBound
<1>1. slack'[p] = IF missed'[p] > slack[p] THEN missed'[p] ELSE slack[p]
  BY DEF Decrement, NoteSlack
<1>2. admitted'[p] = admitted[p] \/ admitted'[p] = admitted[p] - 1
  BY DEF Decrement
<1>3. slack[p] \in Nat /\ admitted[p] \in Nat /\ missed'[p] \in Int /\ peak[p] \in Nat \cup {NoCap}
  BY DEF TypeOK
<1>4. peak[p] = NoCap \/ admitted[p] <= peak[p] + slack[p]
  BY DEF QuotaBound
<1>. QED
  BY <1>1, <1>2, <1>3, <1>4

LEMMA FreshQuota ==
    ASSUME NEW pol, FreshState(pol) PROVE (SlackCovers /\ QuotaBound)'
<1>1. admitted' = Zero /\ missed' = Zero /\ slack' = Zero /\ peak' = Zero
  BY DEF FreshState
<1>. QED
  BY <1>1, ZeroType DEF SlackCovers, QuotaBound

\* No step lets through more than the limits and the slack allow.
LEMMA StepQuota == QInv /\ [Next]_vars => (SlackCovers /\ QuotaBound)'
<1>. SUFFICES ASSUME QInv, [Next]_vars PROVE (SlackCovers /\ QuotaBound)'
  OBVIOUS
<1>a. TypeOK /\ Counts /\ OwnKey /\ SlackCovers /\ QuotaBound
  BY CountsIs DEF QInv
<1>b. TypeOK'
  BY StepTypes
<1>. USE DEF keyVars, counterVars, storeVars, historyVars, requestVars
<1>1. ASSUME NEW r \in Request, Lookup(r) PROVE (SlackCovers /\ QuotaBound)'
  <2>. UNCHANGED <<admitted, missed, slack, peak>>
    BY <1>1 DEF Lookup
  <2>. QED
    BY <1>a DEF SlackCovers, QuotaBound
<1>2. ASSUME NEW r \in Request, Deny(r) PROVE (SlackCovers /\ QuotaBound)'
  <2>. UNCHANGED <<admitted, missed, slack, peak>>
    BY <1>2 DEF Deny
  <2>. QED
    BY <1>a DEF SlackCovers, QuotaBound
<1>3. ASSUME NEW r \in Request, CountOwn(r) PROVE (SlackCovers /\ QuotaBound)'
  <2>. SUFFICES ASSUME NEW p \in Period
                PROVE  missed'[p] <= slack'[p] /\ (peak'[p] = NoCap \/ admitted'[p] <= peak'[p] + slack'[p])
    BY DEF SlackCovers, QuotaBound
  <2>. DEFINE v  == [q \in Period |-> Shown[q] + 1]
              ok == ~Over(v, myLimit[r])
  <2>1. missed'[p] = missed[p] /\ slack'[p] = slack[p] /\ missed[p] <= slack[p]
    BY <1>a, <1>3 DEF CountOwn, SlackCovers
  <2>2. /\ admitted[p] \in Nat /\ missed[p] \in Int /\ slack[p] \in Nat /\ myLimit[r][p] \in Nat
        /\ Shown[p] \in Nat /\ peak[p] \in Nat \cup {NoCap} /\ Cardinality(Rejected(p)) \in Nat
    BY <1>a, ShownType, Sizes DEF TypeOK
  <2>3. Shown[p] = admitted[p] - missed[p] + Cardinality(Rejected(p))
    <3>1. key # None
      BY <1>a, <1>3 DEF CountOwn, OwnKey
    <3>. QED
      BY <1>a, <3>1 DEF Counts
  <2>4. peak[p] = NoCap \/ admitted[p] <= peak[p] + slack[p]
    BY <1>a DEF QuotaBound
  <2>5. /\ admitted'[p] = IF ok THEN admitted[p] + 1 ELSE admitted[p]
        /\ peak'[p] = IF ok THEN IF peak[p] = NoCap \/ myLimit[r][p] = 0 THEN NoCap
                                 ELSE IF myLimit[r][p] > peak[p] THEN myLimit[r][p] ELSE peak[p]
                      ELSE peak[p]
    BY <1>3 DEF CountOwn
  <2>6. ok => myLimit[r][p] = 0 \/ Shown[p] + 1 <= myLimit[r][p]
    <3>1. v[p] = Shown[p] + 1
      OBVIOUS
    <3>2. ok => ~(myLimit[r][p] > 0 /\ v[p] > myLimit[r][p])
      BY DEF Over
    <3>. QED
      BY <2>2, <3>1, <3>2
  <2>. HIDE DEF ok
  <2>. QED
    BY <2>1, <2>2, <2>3, <2>4, <2>5, <2>6
<1>4. ASSUME NEW r \in Request, CountDetached(r) PROVE (SlackCovers /\ QuotaBound)'
  <2>. UNCHANGED <<admitted, missed, slack, peak>>
    BY <1>4 DEF CountDetached
  <2>. QED
    BY <1>a DEF SlackCovers, QuotaBound
<1>5. ASSUME NEW r \in Request, Reject(r) PROVE (SlackCovers /\ QuotaBound)'
  <2>1. missed' \in [Period -> Int] /\ admitted' \in [Period -> Nat]
    BY <1>b DEF TypeOK
  <2>2. CASE own[r]
    <3>1. Decrement(r, FALSE) /\ peak' = peak
      BY <1>5, <2>2 DEF Reject
    <3>. QED
      BY <1>a, <2>1, <3>1, DecrementQuota
  <2>3. CASE ~own[r]
    <3>. UNCHANGED <<admitted, missed, slack, peak>>
      BY <1>5, <2>3 DEF Reject
    <3>. QED
      BY <1>a DEF SlackCovers, QuotaBound
  <2>. QED
    BY <2>2, <2>3
<1>6. ASSUME NEW r \in Request, Finish(r) PROVE (SlackCovers /\ QuotaBound)'
  <2>. UNCHANGED <<admitted, missed, slack, peak>>
    BY <1>6 DEF Finish
  <2>. QED
    BY <1>a DEF SlackCovers, QuotaBound
<1>7. ASSUME NEW r \in Request, Refund(r) PROVE (SlackCovers /\ QuotaBound)'
  <2>1. missed' \in [Period -> Int] /\ admitted' \in [Period -> Nat]
    BY <1>b DEF TypeOK
  <2>2. Decrement(r, TRUE) /\ peak' = peak
    BY <1>7 DEF Refund
  <2>. QED
    BY <1>a, <2>1, <2>2, DecrementQuota
<1>8. CASE PatchKey
  <2>. UNCHANGED <<admitted, missed, slack, peak>>
    BY <1>8 DEF PatchKey
  <2>. QED
    BY <1>a DEF SlackCovers, QuotaBound
<1>9. CASE ReloadSame
  <2>. UNCHANGED <<admitted, missed, slack, peak>>
    BY <1>9 DEF ReloadSame
  <2>. QED
    BY <1>a DEF SlackCovers, QuotaBound
<1>10. CASE Export
  <2>. UNCHANGED <<admitted, missed, slack, peak>>
    BY <1>10 DEF Export
  <2>. QED
    BY <1>a DEF SlackCovers, QuotaBound
<1>11. CASE SaveKeyCounters
  <2>. UNCHANGED <<admitted, missed, slack, peak>>
    BY <1>11 DEF SaveKeyCounters
  <2>. QED
    BY <1>a DEF SlackCovers, QuotaBound
<1>12. CASE NextDay
  <2>. SUFFICES ASSUME NEW p \in Period
                PROVE  missed'[p] <= slack'[p] /\ (peak'[p] = NoCap \/ admitted'[p] <= peak'[p] + slack'[p])
    BY DEF SlackCovers, QuotaBound
  <2>1. \/ /\ admitted'[p] = admitted[p] /\ missed'[p] = missed[p]
           /\ slack'[p] = slack[p] /\ peak'[p] = peak[p]
        \/ admitted'[p] = 0 /\ missed'[p] = 0 /\ slack'[p] = 0 /\ peak'[p] = 0
    BY <1>12 DEF NextDay
  <2>2. missed[p] <= slack[p] /\ (peak[p] = NoCap \/ admitted[p] <= peak[p] + slack[p])
    BY <1>a DEF SlackCovers, QuotaBound
  <2>. QED
    BY <2>1, <2>2
<1>13. CASE AddKey
  BY <1>13, FreshQuota DEF AddKey
<1>14. CASE ReloadRotated
  BY <1>14, FreshQuota DEF ReloadRotated
<1>15. CASE RevokeKey
  BY <1>15, FreshQuota DEF RevokeKey
<1>16. CASE Restart
  <2>. SUFFICES ASSUME NEW p \in Period
                PROVE  missed'[p] <= slack'[p] /\ (peak'[p] = NoCap \/ admitted'[p] <= peak'[p] + slack'[p])
    BY DEF SlackCovers, QuotaBound
  <2>1. /\ slack'[p] = IF missed'[p] > slack[p] THEN missed'[p] ELSE slack[p]
        /\ admitted'[p] = admitted[p] /\ peak'[p] = peak[p]
    BY <1>16 DEF Restart, NoteSlack
  <2>2. slack[p] \in Nat /\ admitted[p] \in Nat /\ missed'[p] \in Int /\ peak[p] \in Nat \cup {NoCap}
    BY <1>a, <1>b DEF TypeOK
  <2>3. peak[p] = NoCap \/ admitted[p] <= peak[p] + slack[p]
    BY <1>a DEF QuotaBound
  <2>. QED
    BY <2>1, <2>2, <2>3
<1>17. CASE UNCHANGED vars
  <2>. UNCHANGED <<admitted, missed, slack, peak>>
    BY <1>17 DEF vars
  <2>. QED
    BY <1>a DEF SlackCovers, QuotaBound
<1>. QED
  BY <1>1, <1>2, <1>3, <1>4, <1>5, <1>6, <1>7, <1>8, <1>9, <1>10, <1>11, <1>12, <1>13, <1>14, <1>15, <1>16, <1>17 DEF Next, NextKept

-----------------------------------------------------------------------------
(* What a crash costs. *)

\* What the rows show today, and how a decrement and a fresh state change it.
LEMMA RowTypes ==
    ASSUME TypeOK, Recoverable, NEW p \in Period
    PROVE  /\ count[p] \in Nat /\ Shown[p] \in Nat /\ Shown[p] <= count[p] /\ count[p] <= MaxCount
           /\ unflushed \in 0..MaxCount
           /\ stored # None => /\ stored.count \in [Period -> Nat] /\ stored.count[p] \in Nat
                               /\ stored.last \in Nat
           /\ export # None => /\ export.count \in [Period -> Nat] /\ export.count[p] \in Nat
                               /\ export.last \in Nat /\ export.since \in 0..MaxCount
BY ShownType, QuotaAssumption DEF TypeOK, Recoverable, RecoverableFor

\* A step that shows no more and touches neither row.
LEMMA RecoverableLess ==
    ASSUME TypeOK, Recoverable, UNCHANGED <<day, stored, export, unflushed>>,
           NEW p \in Period, count'[p] <= MaxCount, Shown'[p] \in Nat, Shown'[p] <= Shown[p]
    PROVE  RecoverableFor(p)'
<1>1. RecoverableFor(p)
  BY DEF Recoverable
<1>2. /\ stored # None => RowShows(stored.count, stored.last, p) \in Nat
      /\ export # None => RowShows(export.count, export.last, p) \in Nat
  BY RowTypes DEF RowShows
<1>. QED
  BY <1>1, <1>2, RowTypes DEF RecoverableFor, RowShows

LEMMA FreshRecoverable ==
    ASSUME TypeOK, Recoverable, NEW pol, FreshState(pol), UNCHANGED <<day, stored>>
    PROVE  Recoverable'
<1>. SUFFICES ASSUME NEW p \in Period PROVE RecoverableFor(p)'
  BY DEF Recoverable
<1>1. count' = Zero /\ unflushed' = 0 /\ export' = Since(LAMBDA v : 0)
  BY DEF FreshState
<1>2. Shown'[p] = 0 /\ count'[p] = 0
  BY <1>1, ZeroType DEF Shown, ResetLocked
<1>3. /\ stored # None => RowShows(stored.count, stored.last, p) \in Nat
      /\ export # None => RowShows(export.count, export.last, p) \in Nat
  BY RowTypes DEF RowShows
<1>4. RecoverableFor(p)
  BY DEF Recoverable
<1>b. /\ count'[p] <= MaxCount
      /\ stored' = None => Shown'[p] <= unflushed'
      /\ stored' # None => /\ Shown'[p] <= unflushed' + RowShows(stored.count, stored.last, p)
                           /\ stored.count[p] <= MaxCount
  <2>1. unflushed' = 0 /\ stored' = stored
    BY <1>1
  <2>. QED
    BY <2>1, <1>2, <1>3, <1>4, QuotaAssumption DEF RecoverableFor
<1>c. RowShows(stored.count, stored.last, p)' = RowShows(stored.count, stored.last, p)
  BY DEF RowShows
<1>5. CASE export = None
  <2>1. export' = None
    BY <1>1, <1>5 DEF Since
  <2>. QED
    BY <1>b, <1>c, <2>1 DEF RecoverableFor
<1>6. CASE export # None
  <2>1. export \in ExportRow
    BY <1>6 DEF TypeOK, ExportRow
  <2>2. export' = [export EXCEPT !.since = 0]
    BY <1>1, <1>6 DEF Since
  <2>3. export'.count = export.count /\ export'.last = export.last /\ export'.since = 0
    BY <2>1, <2>2 DEF ExportRow
  <2>4. RowShows(export.count, export.last, p)' = RowShows(export.count, export.last, p)
    BY <2>3 DEF RowShows
  <2>. QED
    BY <1>b, <1>c, <1>2, <1>3, <1>4, <1>6, <2>3, <2>4 DEF RecoverableFor
<1>. QED
  BY <1>5, <1>6

\* The rows stay as close to the counter as they claim.
LEMMA StepRecoverable == QInv /\ [Next]_vars => Recoverable'
<1>. SUFFICES ASSUME QInv, [Next]_vars PROVE Recoverable'
  OBVIOUS
<1>a. TypeOK /\ Recoverable /\ Dated
  BY DEF QInv
<1>. USE DEF keyVars, counterVars, storeVars, historyVars, requestVars
<1>1. ASSUME NEW r \in Request, Lookup(r) PROVE Recoverable'
  <2>. UNCHANGED <<day, count, last, stored, export, unflushed>>
    BY <1>1 DEF Lookup
  <2>. QED
    BY <1>a DEF Recoverable, RecoverableFor, RowShows, Shown, ResetLocked
<1>2. ASSUME NEW r \in Request, Deny(r) PROVE Recoverable'
  <2>. UNCHANGED <<day, count, last, stored, export, unflushed>>
    BY <1>2 DEF Deny
  <2>. QED
    BY <1>a DEF Recoverable, RecoverableFor, RowShows, Shown, ResetLocked
<1>3. ASSUME NEW r \in Request, CountOwn(r) PROVE Recoverable'
  <2>. SUFFICES ASSUME NEW p \in Period PROVE RecoverableFor(p)'
    BY DEF Recoverable
  <2>1. /\ count'[p] = Shown[p] + 1 /\ count'[p] <= MaxCount /\ last' = day /\ day' = day
        /\ unflushed' = OneMore(unflushed) /\ export' = Since(OneMore) /\ stored' = stored
    BY <1>3 DEF CountOwn
  <2>2. Shown'[p] = Shown[p] + 1
    BY <2>1 DEF Shown, ResetLocked, SamePeriod
  <2>3. RecoverableFor(p)
    BY <1>a DEF Recoverable
  <2>4. Shown[p] \in Nat /\ unflushed \in 0..MaxCount /\ MaxCount \in Nat
    BY <1>a, RowTypes, QuotaAssumption
  <2>5. /\ stored = None => Shown'[p] <= unflushed'
        /\ stored # None => /\ Shown'[p] <= unflushed' + RowShows(stored.count, stored.last, p)
                            /\ stored.count[p] <= MaxCount
    <3>1. stored # None => RowShows(stored.count, stored.last, p) \in Nat
      BY <1>a, RowTypes DEF RowShows
    <3>2. /\ stored = None => Shown[p] <= unflushed
          /\ stored # None => /\ Shown[p] <= unflushed + RowShows(stored.count, stored.last, p)
                              /\ stored.count[p] <= MaxCount
      BY <2>3 DEF RecoverableFor
    <3>3. unflushed' = IF unflushed < MaxCount THEN unflushed + 1 ELSE unflushed
      BY <2>1 DEF OneMore
    <3>4. Shown[p] + 1 <= MaxCount
      BY <2>1
    <3>. QED
      BY <2>2, <2>4, <3>1, <3>2, <3>3, <3>4
  <2>6. CASE export = None
    <3>1. export' = None
      BY <2>1, <2>6 DEF Since
    <3>. QED
      BY <2>1, <2>5, <3>1 DEF RecoverableFor, RowShows
  <2>7. CASE export # None
    <3>1. export \in ExportRow
      BY <1>a, <2>7 DEF TypeOK, ExportRow
    <3>2. export' = Since(OneMore)
      BY <2>1
    <3>3. /\ export'.count = export.count /\ export'.last = export.last
          /\ export'.since = OneMore(export.since)
      <4>1. export' = [export EXCEPT !.since = OneMore(export.since)]
        BY <2>7, <3>2 DEF Since
      <4>. QED
        BY <3>1, <4>1, SinceFields
    <3>4. /\ export.since \in 0..MaxCount /\ export.count[p] <= MaxCount
          /\ Shown[p] <= export.since + RowShows(export.count, export.last, p)
          /\ RowShows(export.count, export.last, p) \in Nat
      BY <1>a, <2>3, <2>7, RowTypes DEF RecoverableFor, RowShows
    <3>5. Shown'[p] <= export'.since + RowShows(export.count, export.last, p)
      <4>1. OneMore(export.since) = IF export.since < MaxCount THEN export.since + 1 ELSE export.since
        BY DEF OneMore
      <4>2. Shown[p] + 1 <= MaxCount
        BY <2>1
      <4>. QED
        BY <2>2, <2>4, <3>3, <3>4, <4>1, <4>2
    <3>. QED
      BY <2>1, <2>5, <3>3, <3>4, <3>5 DEF RecoverableFor, RowShows
  <2>. QED
    BY <2>6, <2>7
<1>4. ASSUME NEW r \in Request, CountDetached(r) PROVE Recoverable'
  <2>. UNCHANGED <<day, count, last, stored, export, unflushed>>
    BY <1>4 DEF CountDetached
  <2>. QED
    BY <1>a DEF Recoverable, RecoverableFor, RowShows, Shown, ResetLocked
<1>5. ASSUME NEW r \in Request, Reject(r) PROVE Recoverable'
  <2>1. CASE own[r]
    <3>1. Decrement(r, FALSE) /\ UNCHANGED <<day, last, stored, export, unflushed>>
      BY <1>5, <2>1 DEF Reject
    <3>. SUFFICES ASSUME NEW p \in Period PROVE RecoverableFor(p)'
      BY DEF Recoverable
    <3>2. Shown'[p] \in Nat /\ Shown'[p] <= Shown[p]
      <4>1. Shown'[p] \in Nat /\ (Shown'[p] = Shown[p] - 1 \/ Shown'[p] = Shown[p])
        BY <1>a, <3>1, Decremented1
      <4>2. Shown[p] \in Nat
        BY <1>a, RowTypes
      <4>. QED
        BY <4>1, <4>2
    <3>3. count'[p] <= MaxCount
      BY <1>a, <3>1, RowTypes, QuotaAssumption DEF Decrement, Decremented
    <3>. QED
      BY <1>a, <3>1, <3>2, <3>3, RecoverableLess
  <2>2. CASE ~own[r]
    <3>. UNCHANGED <<day, count, last, stored, export, unflushed>>
      BY <1>5, <2>2 DEF Reject
    <3>. QED
      BY <1>a DEF Recoverable, RecoverableFor, RowShows, Shown, ResetLocked
  <2>. QED
    BY <2>1, <2>2
<1>6. ASSUME NEW r \in Request, Finish(r) PROVE Recoverable'
  <2>. UNCHANGED <<day, count, last, stored, export, unflushed>>
    BY <1>6 DEF Finish
  <2>. QED
    BY <1>a DEF Recoverable, RecoverableFor, RowShows, Shown, ResetLocked
<1>7. ASSUME NEW r \in Request, Refund(r) PROVE Recoverable'
  <2>1. Decrement(r, TRUE) /\ UNCHANGED <<day, last, stored, export, unflushed>>
    BY <1>7 DEF Refund
  <2>. SUFFICES ASSUME NEW p \in Period PROVE RecoverableFor(p)'
    BY DEF Recoverable
  <2>2. Shown'[p] \in Nat /\ Shown'[p] <= Shown[p]
    <3>1. Shown'[p] \in Nat /\ (Shown'[p] = Shown[p] - 1 \/ Shown'[p] = Shown[p])
      BY <1>a, <2>1, Decremented1
    <3>2. Shown[p] \in Nat
      BY <1>a, RowTypes
    <3>. QED
      BY <3>1, <3>2
  <2>3. count'[p] <= MaxCount
    BY <1>a, <2>1, RowTypes, QuotaAssumption DEF Decrement, Decremented
  <2>. QED
    BY <1>a, <2>1, <2>2, <2>3, RecoverableLess
<1>8. CASE PatchKey
  <2>. UNCHANGED <<day, count, last, stored, export, unflushed>>
    BY <1>8 DEF PatchKey
  <2>. QED
    BY <1>a DEF Recoverable, RecoverableFor, RowShows, Shown, ResetLocked
<1>9. CASE ReloadSame
  <2>. UNCHANGED <<day, count, last, stored, export, unflushed>>
    BY <1>9 DEF ReloadSame
  <2>. QED
    BY <1>a DEF Recoverable, RecoverableFor, RowShows, Shown, ResetLocked
<1>10. CASE Export
  <2>. SUFFICES ASSUME NEW p \in Period PROVE RecoverableFor(p)'
    BY DEF Recoverable
  <2>1. /\ count' = Shown /\ last' = day /\ day' = day /\ stored' = stored /\ unflushed' = unflushed
        /\ export' = [count |-> Shown, last |-> day, since |-> 0]
    BY <1>10 DEF Export
  <2>2. Shown'[p] = Shown[p]
    BY <2>1 DEF Shown, ResetLocked, SamePeriod
  <2>3. RecoverableFor(p)
    BY <1>a DEF Recoverable
  <2>4. export'.count = Shown /\ export'.last = day /\ export'.since = 0
    BY <2>1
  <2>5. RowShows(Shown, day, p) = Shown[p]
    BY DEF RowShows, SamePeriod
  <2>6. Shown[p] \in Nat /\ Shown[p] <= MaxCount
    BY <1>a, RowTypes, QuotaAssumption
  <2>. QED
    BY <2>1, <2>2, <2>3, <2>4, <2>5, <2>6 DEF RecoverableFor, RowShows
<1>11. CASE SaveKeyCounters
  <2>. SUFFICES ASSUME NEW p \in Period PROVE RecoverableFor(p)'
    BY DEF Recoverable
  <2>1. /\ UNCHANGED <<day, count, last>> /\ export # None /\ export' = None
        /\ stored' = [count |-> export.count, last |-> export.last] /\ unflushed' = export.since
    BY <1>11 DEF SaveKeyCounters
  <2>2. RecoverableFor(p)
    BY <1>a DEF Recoverable
  <2>3. stored'.count = export.count /\ stored'.last = export.last
    BY <2>1
  <2>4. stored' # None
    <3>1. export \in ExportRow
      BY <1>a, <2>1 DEF TypeOK, ExportRow
    <3>. QED
      BY <2>1, <3>1, QuotaAssumption DEF ExportRow
  <2>5. Shown'[p] = Shown[p]
    BY <2>1 DEF Shown, ResetLocked
  <2>. QED
    BY <2>1, <2>2, <2>3, <2>4, <2>5 DEF RecoverableFor, RowShows
<1>12. CASE NextDay
  <2>. SUFFICES ASSUME NEW p \in Period PROVE RecoverableFor(p)'
    BY DEF Recoverable
  <2>1. day' = day + 1 /\ UNCHANGED <<count, last, stored, export, unflushed>>
    BY <1>12 DEF NextDay
  <2>2. Shown'[p] = IF SamePeriod(p, last, day + 1) THEN count[p] ELSE 0
    BY <2>1 DEF Shown, ResetLocked
  <2>3. day \in Nat /\ last \in Nat /\ last <= day
    BY <1>a, QuotaAssumption DEF TypeOK, Dated
  <2>4. RecoverableFor(p)
    BY <1>a DEF Recoverable
  <2>5. CASE SamePeriod(p, day, day + 1)
    <3>1. \A d \in Nat : SamePeriod(p, d, day + 1) <=> SamePeriod(p, d, day)
      BY <2>3, <2>5, Midnight
    <3>2. Shown'[p] = Shown[p]
      BY <2>2, <2>3, <3>1, ShownAt
    <3>3. /\ stored # None => RowShows(stored.count, stored.last, p)' = RowShows(stored.count, stored.last, p)
          /\ export # None => RowShows(export.count, export.last, p)' = RowShows(export.count, export.last, p)
      BY <1>a, <2>1, <3>1, RowTypes DEF RowShows
    <3>. QED
      BY <2>1, <2>4, <3>2, <3>3 DEF RecoverableFor
  <2>6. CASE ~SamePeriod(p, day, day + 1)
    <3>1. Shown'[p] = 0
      BY <2>2, <2>3, <2>6, Midnight
    <3>2. /\ stored # None => RowShows(stored.count, stored.last, p)' \in Nat
          /\ export # None => RowShows(export.count, export.last, p)' \in Nat
      BY <1>a, <2>1, RowTypes DEF RowShows
    <3>3. unflushed \in Nat /\ (export # None => export.since \in Nat)
      BY <1>a, RowTypes
    <3>. QED
      BY <2>1, <2>4, <3>1, <3>2, <3>3 DEF RecoverableFor
  <2>. QED
    BY <2>5, <2>6
<1>13. CASE AddKey
  BY <1>a, <1>13, FreshRecoverable DEF AddKey
<1>14. CASE ReloadRotated
  BY <1>a, <1>14, FreshRecoverable DEF ReloadRotated
<1>15. CASE RevokeKey
  BY <1>a, <1>15, FreshRecoverable DEF RevokeKey
<1>16. CASE Restart
  <2>. SUFFICES ASSUME NEW p \in Period PROVE RecoverableFor(p)'
    BY DEF Recoverable
  <2>. DEFINE row == IF stored = None THEN [count |-> Zero, last |-> day] ELSE Restored(stored)
  <2>1. /\ count' = row.count /\ last' = row.last /\ unflushed' = 0 /\ export' = None
        /\ UNCHANGED <<day, stored>>
    BY <1>16 DEF Restart
  <2>2. Shown'[p] = IF SamePeriod(p, row.last, day) THEN row.count[p] ELSE 0
    BY <2>1 DEF Shown, ResetLocked
  <2>3. stored = None => count'[p] = 0 /\ Shown'[p] = 0
    BY <2>1, <2>2, ZeroType
  <2>4. stored # None => row = stored
    BY DEF Restored
  <2>5. RecoverableFor(p)
    BY <1>a DEF Recoverable
  <2>6. stored # None => RowShows(stored.count, stored.last, p) \in Nat
    BY <1>a, RowTypes DEF RowShows
  <2>7. stored # None => Shown'[p] = RowShows(stored.count, stored.last, p)
    BY <2>2, <2>4 DEF RowShows
  <2>. QED
    BY <2>1, <2>3, <2>4, <2>5, <2>6, <2>7, QuotaAssumption DEF RecoverableFor, RowShows
<1>17. CASE UNCHANGED vars
  <2>. UNCHANGED <<day, count, last, stored, export, unflushed>>
    BY <1>17 DEF vars
  <2>. QED
    BY <1>a DEF Recoverable, RecoverableFor, RowShows, Shown, ResetLocked
<1>. QED
  BY <1>1, <1>2, <1>3, <1>4, <1>5, <1>6, <1>7, <1>8, <1>9, <1>10, <1>11, <1>12, <1>13, <1>14, <1>15, <1>16, <1>17 DEF Next, NextKept

-----------------------------------------------------------------------------
(* Theorems. *)

LEMMA InitHolds == Init => QInv
<1>. SUFFICES ASSUME Init PROVE QInv
  OBVIOUS
<1>. USE QuotaAssumption DEF Init
<1>1. limit \in [Period -> Nat]
  OBVIOUS
<1>2. TypeOK
  <2>1. myLimit \in [Request -> [Period -> Nat]]
    BY ZeroType
  <2>2. missed \in [Period -> Int] /\ peak \in [Period -> Nat \cup {NoCap}]
    BY DEF Zero
  <2>3. own \in [Request -> BOOLEAN]
    OBVIOUS
  <2>4. /\ day \in 0..MaxDay /\ last \in 0..MaxDay /\ myDay \in [Request -> 0..MaxDay]
        /\ unflushed \in 0..MaxCount
    OBVIOUS
  <2>5. /\ key \in Token /\ keys \in [Token -> {"none", "current", "old"}]
        /\ pc \in [Request -> {"idle", "checked", "serving", "rejected"}]
    OBVIOUS
  <2>6. /\ count \in [Period -> Nat] /\ admitted \in [Period -> Nat] /\ slack \in [Period -> Nat]
        /\ export = None /\ stored = None
    BY ZeroType
  <2>. QED
    BY <1>1, <2>1, <2>2, <2>3, <2>4, <2>5, <2>6 DEF TypeOK
<1>3. \A p \in Period : Shown[p] = 0
  BY ZeroType DEF Shown, ResetLocked
<1>4. \A p \in Period : Rejected(p) = {} /\ Serving(p) = {}
  BY DEF Rejected, Serving
<1>5. Counts
  <2>1. \A p \in Period : Cardinality(Rejected(p)) = 0 /\ Cardinality(Serving(p)) = 0
    BY <1>4, FS_EmptySet
  <2>2. \A p \in Period : admitted[p] = 0 /\ missed[p] = 0
    BY ZeroType
  <2>. QED
    BY <1>3, <2>1, <2>2 DEF Counts
<1>6. OneWayIn /\ Dated /\ OwnKey
  BY DEF OneWayIn, Dated, OwnKey
<1>7. SlackCovers /\ QuotaBound
  BY ZeroType DEF SlackCovers, QuotaBound
<1>8. Recoverable
  BY <1>3, ZeroType DEF Recoverable, RecoverableFor
<1>. QED
  BY <1>2, <1>5, <1>6, <1>7, <1>8, CountsIs DEF QInv

LEMMA StepHolds == QInv /\ [Next]_vars => QInv'
<1>. SUFFICES ASSUME QInv, [Next]_vars PROVE QInv'
  OBVIOUS
<1>1. (CounterExact /\ ServedAreAdmitted)'
  <2>1. Counts'
    BY StepCounts
  <2>. QED
    BY <2>1, CountsIs, PTL
<1>. QED
  BY <1>1, StepKeys, StepDates, StepTypes, StepQuota, StepRecoverable DEF QInv

LEMMA Invariance == Spec => []QInv
BY InitHolds, StepHolds, PTL DEF Spec

\* However rotation, reload, revocation and restart race a request, only the key's
\* current token leads anywhere, and to the key's current state; no counter goes
\* below zero and no date past the calendar (auth.go:427-437, 501-521).
THEOREM OneWayThrough == Spec => []KeysSound
<1>1. QInv => KeysSound
  BY DEF QInv, KeysSound
<1>. QED
  BY <1>1, Invariance, PTL

\* For any number of requests, the counters of a key show exactly those it let
\* through and did not refund, and those it is about to turn away, short of
\* what the histories say was forgotten (auth.go:155-181, 602-618).
THEOREM CountersExact == Spec => []CounterExact
<1>1. QInv => CounterExact
  BY DEF QInv
<1>. QED
  BY <1>1, Invariance, PTL

\* For any limits, a period lets through no more than the largest limit one of
\* its requests was checked against, plus what the counter forgot
\* (auth.go:694-723).
THEOREM QuotaBounded == Spec => []QuotaBound
<1>1. QInv => QuotaBound
  BY DEF QInv
<1>. QED
  BY <1>1, Invariance, PTL

\* A crash costs at most what was counted since the last flush, however the flush
\* was interrupted, and brings no count of an old period back (persist.go:7).
THEOREM CrashCosts == Spec => CrashLoss
<1>1. ASSUME QInv, Restart
      PROVE  \A p \in Period :
                 /\ Shown'[p] >= Shown[p] - unflushed
                 /\ stored # None /\ ~SamePeriod(p, stored.last, day) => Shown'[p] = 0
  <2>. DEFINE row == IF stored = None THEN [count |-> Zero, last |-> day] ELSE Restored(stored)
  <2>1. TAKE p \in Period
  <2>2. count' = row.count /\ last' = row.last /\ day' = day
    BY <1>1 DEF Restart
  <2>3. Shown'[p] = IF SamePeriod(p, row.last, day) THEN row.count[p] ELSE 0
    BY <2>2 DEF Shown, ResetLocked
  <2>4. stored = None => Shown'[p] = 0
    BY <2>3, ZeroType
  <2>5. stored # None => Shown'[p] = RowShows(stored.count, stored.last, p)
    BY <2>3 DEF RowShows, Restored
  <2>6. RecoverableFor(p) /\ TypeOK /\ Recoverable
    BY <1>1 DEF QInv, Recoverable
  <2>7. /\ Shown[p] \in Nat /\ unflushed \in Nat
        /\ stored # None => RowShows(stored.count, stored.last, p) \in Nat
    BY <2>6, RowTypes DEF RowShows
  <2>8. Shown'[p] >= Shown[p] - unflushed
    BY <2>4, <2>5, <2>6, <2>7 DEF RecoverableFor
  <2>9. stored # None /\ ~SamePeriod(p, stored.last, day) => Shown'[p] = 0
    BY <2>5 DEF RowShows
  <2>. QED
    BY <2>8, <2>9
<1>2. QInv /\ [Next]_vars =>
          [Restart => \A p \in Period :
               /\ Shown'[p] >= Shown[p] - unflushed
               /\ stored # None /\ ~SamePeriod(p, stored.last, day) => Shown'[p] = 0]_vars
  BY <1>1
<1>. QED
  BY <1>2, Invariance, PTL DEF Spec, CrashLoss

=============================================================================
