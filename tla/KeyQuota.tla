------------------------------ MODULE KeyQuota ------------------------------
(***************************************************************************)
(* One API key and its request quotas: auth/auth.go and auth/persist.go.   *)
(*                                                                         *)
(* A request looks its token up, snapshots the key's limits, increments    *)
(* the key's counters and is admitted or turned away; the proxy may refund *)
(* it later, through the key's name.  Meanwhile the key is patched,        *)
(* rotated, reloaded or revoked, the calendar moves, counters are flushed  *)
(* and the process restarts.                                               *)
(*                                                                         *)
(* Keys do not share state, so one name is enough.  keyState is a Go       *)
(* object and a request keeps its pointer after the object was replaced:   *)
(* the module keeps the object the name maps to and, for every pointer,    *)
(* whether it still is that one.  A detached object's counters are nobody  *)
(* else's business, so a request counted there may be admitted or not.     *)
(* The rate limiter in front of the counters only refuses requests: it is  *)
(* part of Deny.                                                           *)
(***************************************************************************)
EXTENDS Integers, FiniteSets, TLC

CONSTANTS
    Request,    \* requests in flight
    Token,      \* token values the key is given
    None,       \* no key, no row
    Policies,   \* limits the key is given, [day, month], 0 is unlimited
    MonthDays,  \* days in a month
    MaxDay,     \* the calendar stops here (a bound on the model)
    MaxCount    \* no counter is counted beyond this (a bound on the model)

Period == {"day", "month"}

ASSUME QuotaAssumption ==
    /\ IsFiniteSet(Request)
    /\ None \notin Token /\ None \notin [count : [Period -> Nat], last : 0..MaxDay]
    /\ Policies \subseteq [Period -> Nat]
    /\ MonthDays \in Nat \ {0} /\ MaxDay \in Nat /\ MaxCount \in Nat

VARIABLES
    day,        \* the calendar
    key,        \* token of the keyState byName holds, None without one
    keys,       \* Middleware.keys: which keyState a token leads to
    limit,      \* its dailyLimit and monthlyLimit
    count,      \* its counter's today and month
    last,       \* the day of its counter's lastReset
    export,     \* the counters SaveToStore has read and not yet written
    stored,     \* the key_counters row
    pc,         \* where a request is
    own,        \* the keyState a request looked up is still the key's
    myLimit,    \* the limits it snapshot, while own
    myDay,      \* the day it was counted, while own
    admitted,   \* history: requests let through this period and not refunded
    missed,     \* history: how many of those the counter does not show
    slack,      \* history: the most it has failed to show this period
    peak,       \* history: the largest limit one of them was checked against
    unflushed   \* history: increments the stored row cannot show

requestVars == <<pc, own, myLimit, myDay>>
keyVars     == <<key, keys, limit>>
counterVars == <<count, last>>
storeVars   == <<export, stored>>
historyVars == <<admitted, missed, slack, peak, unflushed>>
vars == <<day, key, keys, limit, count, last, export, stored, pc, own, myLimit, myDay,
          admitted, missed, slack, peak, unflushed>>

Zero  == [p \in Period |-> 0]
NoCap == -1   \* peak of a period in which an unlimited request was admitted

PeriodOf(p, d) == IF p = "day" THEN d ELSE d \div MonthDays
SamePeriod(p, d, e) == PeriodOf(p, d) = PeriodOf(p, e)

\* resetLocked: a new month clears both counters, a new day only today's.
ResetLocked(v, d) == [p \in Period |-> IF SamePeriod(p, d, day) THEN v[p] ELSE 0]

\* What the key's counter says now (stats).
Shown == ResetLocked(count, last)

\* The over-limit test of Handler; the mutant lets one more through.
OverByOne(v, l) == \E p \in Period : l[p] > 0 /\ v[p] > l[p] + 1
Over(v, l) == \E p \in Period : l[p] > 0 /\ v[p] > l[p]

\* History: increments since the export are counted up to MaxCount.
OneMore(v) == IF v < MaxCount THEN v + 1 ELSE v
Since(f(_)) == IF export = None THEN None ELSE [export EXCEPT !.since = f(@)]

-----------------------------------------------------------------------------
Init ==
    /\ day = 0
    /\ key \in Token
    /\ keys = [t \in Token |-> IF t = key THEN "current" ELSE "none"]
    /\ limit \in Policies
    /\ count = Zero
    /\ last = 0
    /\ export = None
    /\ stored = None
    /\ pc = [r \in Request |-> "idle"]
    /\ own = [r \in Request |-> FALSE]
    /\ myLimit = [r \in Request |-> Zero]
    /\ myDay = [r \in Request |-> 0]
    /\ admitted = Zero
    /\ missed = Zero
    /\ slack = Zero
    /\ peak = Zero
    /\ unflushed = 0

\* The request is answered; it keeps no pointer.
Answer(r) ==
    /\ pc' = [pc EXCEPT ![r] = "idle"]
    /\ own' = [own EXCEPT ![r] = FALSE]
    /\ myLimit' = [myLimit EXCEPT ![r] = Zero]
    /\ myDay' = [myDay EXCEPT ![r] = 0]

-----------------------------------------------------------------------------
(* Handler *)

\* The token is looked up under the middleware's lock and the limits are read
\* under the keyState's: what comes between the two may as well come before
\* (a patch) or after both (a rotation), so they are one step.  What a detached
\* keyState holds is left open.  An unknown token is answered 401.
Lookup(r) ==
    /\ pc[r] = "idle"
    /\ \E t \in Token :
         /\ keys[t] # "none"
         /\ own' = [own EXCEPT ![r] = (keys[t] = "current")]
         /\ myLimit' = [myLimit EXCEPT ![r] = IF keys[t] = "current" THEN limit ELSE Zero]
    /\ pc' = [pc EXCEPT ![r] = "checked"]
    /\ UNCHANGED <<day, keyVars, counterVars, storeVars, myDay, historyVars>>

\* Expired, malformed expiry, or out of rate-limit tokens.
Deny(r) ==
    /\ pc[r] = "checked"
    /\ Answer(r)
    /\ UNCHANGED <<day, keyVars, counterVars, storeVars, historyVars>>

\* incrementAndStats, and the comparison with the limits snapshot before.
CountOwn(r) ==
    LET v  == [p \in Period |-> Shown[p] + 1]
        ok == ~Over(v, myLimit[r])
        higher(p) == IF peak[p] = NoCap \/ myLimit[r][p] = 0 THEN NoCap
                     ELSE IF myLimit[r][p] > peak[p] THEN myLimit[r][p] ELSE peak[p]
    IN  /\ pc[r] = "checked"
        /\ own[r]
        /\ \A p \in Period : v[p] <= MaxCount /\ admitted[p] < MaxCount
        /\ count' = v
        /\ last' = day
        /\ myDay' = [myDay EXCEPT ![r] = day]
        /\ myLimit' = [myLimit EXCEPT ![r] = Zero]
        /\ pc' = [pc EXCEPT ![r] = IF ok THEN "serving" ELSE "rejected"]
        /\ admitted' = [p \in Period |-> IF ok THEN admitted[p] + 1 ELSE admitted[p]]
        /\ peak' = [p \in Period |-> IF ok THEN higher(p) ELSE peak[p]]
        /\ unflushed' = OneMore(unflushed)
        /\ export' = Since(OneMore)
        /\ UNCHANGED <<day, keyVars, stored, own, missed, slack>>

CountDetached(r) ==
    /\ pc[r] = "checked"
    /\ ~own[r]
    /\ \E outcome \in {"serving", "rejected"} : pc' = [pc EXCEPT ![r] = outcome]
    /\ UNCHANGED <<day, keyVars, counterVars, storeVars, own, myLimit, myDay, historyVars>>

\* decrement takes one off each counter, not below zero, and does not look at
\* the calendar.  The mutant leaves the month alone.
DecrementedToday(v) == [v EXCEPT !["day"] = IF @ > 0 THEN @ - 1 ELSE 0]
Decremented(v) == [p \in Period |-> IF v[p] > 0 THEN v[p] - 1 ELSE 0]

NoteSlack == slack' = [p \in Period |-> IF missed'[p] > slack[p] THEN missed'[p] ELSE slack[p]]

\* A decrement for r lands on the key's counter.  The histories tell whether
\* that counter still holds the increment it takes back.
Decrement(r, wasAdmitted) ==
    LET mine(p)  == own[r] /\ SamePeriod(p, myDay[r], day)
        taken(p) == SamePeriod(p, last, day) /\ count[p] > 0
    IN  /\ count' = Decremented(count)
        /\ admitted' = [p \in Period |-> IF mine(p) /\ wasAdmitted THEN admitted[p] - 1 ELSE admitted[p]]
        /\ missed' = [p \in Period |-> IF taken(p) /\ ~mine(p) THEN missed[p] + 1
                                       ELSE IF mine(p) /\ ~taken(p) THEN missed[p] - 1
                                       ELSE missed[p]]
        /\ NoteSlack

\* Over a limit: undo the increment and answer 429.
Reject(r) ==
    /\ pc[r] = "rejected"
    /\ \/ own[r] /\ Decrement(r, FALSE)
       \/ ~own[r] /\ UNCHANGED <<count, admitted, missed, slack>>
    /\ Answer(r)
    /\ UNCHANGED <<day, keyVars, last, storeVars, peak, unflushed>>

\* The proxy is done with the request.
Finish(r) ==
    /\ pc[r] = "serving"
    /\ Answer(r)
    /\ UNCHANGED <<day, keyVars, counterVars, storeVars, historyVars>>

\* Middleware.Refund: the key is looked up again, by name, and its counters
\* are decremented.  A keyState replaced between the two is decremented for
\* nobody, as it would be had the refund come first, so they are one step.
Refund(r) ==
    /\ pc[r] = "serving"
    /\ key # None
    /\ Decrement(r, TRUE)
    /\ Answer(r)
    /\ UNCHANGED <<day, keyVars, last, storeVars, peak, unflushed>>

-----------------------------------------------------------------------------
(* The key's administration *)

\* The name gets a new keyState with fresh counters: every pointer to the old
\* one is detached.
FreshState(pol) ==
    /\ limit' = pol
    /\ count' = Zero
    /\ last' = day
    /\ own' = [r \in Request |-> FALSE]
    /\ myLimit' = [r \in Request |-> Zero]
    /\ myDay' = [r \in Request |-> 0]
    /\ admitted' = Zero
    /\ missed' = Zero
    /\ slack' = Zero
    /\ peak' = Zero
    /\ unflushed' = 0
    /\ export' = Since(LAMBDA v : 0)

Detached(s) == IF s = "current" THEN "old" ELSE s

\* AddKey drops the name's old token; the mutant leaves it in the map.
KeysKeepingOld(t) == [u \in Token |-> IF u = t THEN "current" ELSE Detached(keys[u])]
KeysAfterAdd(t) ==
    [u \in Token |-> IF u = t THEN "current" ELSE IF u = key THEN "none" ELSE Detached(keys[u])]

AddKey ==
    \E t \in Token, pol \in Policies :
        /\ FreshState(pol)
        /\ key' = t
        /\ keys' = KeysAfterAdd(t)
        /\ UNCHANGED <<day, stored, pc>>

PatchKey ==
    /\ key # None
    /\ limit' \in Policies \ {limit}
    /\ UNCHANGED <<day, key, keys, counterVars, storeVars, requestVars, historyVars>>

\* swapKeys with the key in the new configuration under the same token.
ReloadSame ==
    /\ key # None
    /\ limit' \in Policies
    /\ keys' = [u \in Token |-> IF u = key THEN "current" ELSE "none"]
    /\ UNCHANGED <<day, key, counterVars, storeVars, requestVars, historyVars>>

\* swapKeys with the key new or under another token.
ReloadRotated ==
    \E t \in Token \ {key}, pol \in Policies :
        /\ FreshState(pol)
        /\ key' = t
        /\ keys' = [u \in Token |-> IF u = t THEN "current" ELSE "none"]
        /\ UNCHANGED <<day, stored, pc>>

\* RevokeKey, and swapKeys with the key left out.
RevokeKey ==
    /\ key # None
    /\ keys' = [keys EXCEPT ![key] = "none"]
    /\ key' = None
    /\ FreshState(limit)
    /\ UNCHANGED <<day, stored, pc>>

-----------------------------------------------------------------------------
(* Persistence and time *)

\* SaveToStore reads the counters under the locks ...
Export ==
    /\ key # None
    /\ export = None
    /\ count' = Shown
    /\ last' = day
    /\ export' = [count |-> Shown, last |-> day, since |-> 0]
    /\ UNCHANGED <<day, keyVars, stored, requestVars, historyVars>>

\* ... and writes the row after it has let go of them, even of a key that was
\* rotated or revoked in between.
SaveKeyCounters ==
    /\ export # None
    /\ stored' = [count |-> export.count, last |-> export.last]
    /\ unflushed' = export.since
    /\ export' = None
    /\ UNCHANGED <<day, keyVars, counterVars, requestVars, admitted, missed, slack, peak>>

\* The row LoadFromStore restores; the mutant stamps it with today.
RestoredToday(row) == [row EXCEPT !.last = day]
Restored(row) == row

\* The process dies and comes back: requests are gone, the key is rebuilt from
\* its record, its counters from the last flush.
Restart ==
    LET row == IF stored = None THEN [count |-> Zero, last |-> day] ELSE Restored(stored)
        now == ResetLocked(row.count, row.last)
    IN  /\ key # None
        /\ keys' = [u \in Token |-> IF u = key THEN "current" ELSE "none"]
        /\ count' = row.count
        /\ last' = row.last
        /\ missed' = [p \in Period |-> admitted[p] - now[p]]
        /\ NoteSlack
        /\ pc' = [r \in Request |-> "idle"]
        /\ own' = [r \in Request |-> FALSE]
        /\ myLimit' = [r \in Request |-> Zero]
        /\ myDay' = [r \in Request |-> 0]
            /\ unflushed' = 0
        /\ export' = None
        /\ UNCHANGED <<day, key, limit, stored, admitted, peak>>

\* Midnight.  The histories follow the calendar, the counters do not.
NextDay ==
    LET ended(v) == [p \in Period |-> IF SamePeriod(p, day, day + 1) THEN v[p] ELSE 0]
    IN  /\ day < MaxDay
        /\ day' = day + 1
        /\ admitted' = ended(admitted)
        /\ missed' = ended(missed)
        /\ slack' = ended(slack)
        /\ peak' = ended(peak)
        /\ UNCHANGED <<keyVars, counterVars, storeVars, requestVars, unflushed>>

\* The key keeps its token and the process stays up.
NextKept ==
    \/ \E r \in Request : \/ Lookup(r) \/ Deny(r) \/ CountOwn(r)
                          \/ CountDetached(r) \/ Reject(r) \/ Finish(r)
                          \/ Refund(r)
    \/ PatchKey \/ ReloadSame \/ Export \/ SaveKeyCounters \/ NextDay

Next == NextKept \/ AddKey \/ ReloadRotated \/ RevokeKey \/ Restart

Spec     == Init /\ [][Next]_vars
SpecKept == Init /\ [][NextKept]_vars

-----------------------------------------------------------------------------
(* Properties *)

\* Every variable stays in its domain; the counters never go negative.
TypeOK ==
    /\ day \in 0..MaxDay
    /\ key \in Token \cup {None}
    /\ keys \in [Token -> {"none", "current", "old"}]
    /\ limit \in [Period -> Nat]
    /\ count \in [Period -> Nat]
    /\ last \in 0..MaxDay
    /\ export = None \/ export \in [count : [Period -> Nat], last : 0..MaxDay, since : 0..MaxCount]
    /\ stored = None \/ stored \in [count : [Period -> Nat], last : 0..MaxDay]
    /\ pc \in [Request -> {"idle", "checked", "serving", "rejected"}]
    /\ own \in [Request -> BOOLEAN]
    /\ myLimit \in [Request -> [Period -> Nat]]
    /\ myDay \in [Request -> 0..MaxDay]
    /\ admitted \in [Period -> Nat]
    /\ missed \in [Period -> Int]
    /\ slack \in [Period -> Nat]
    /\ peak \in [Period -> Nat \cup {NoCap}]
    /\ unflushed \in 0..MaxCount

\* A key's counters show exactly the requests that were let through and not
\* refunded, and those about to be turned away, except for what a refund of
\* another period or of a replaced key state, or a crash, took away
\* (auth.go:155-181, 602-618).
CounterExact ==
    key # None =>
        \A p \in Period :
            Shown[p] = admitted[p] - missed[p]
                + Cardinality({r \in Request : /\ pc[r] = "rejected" /\ own[r]
                                               /\ SamePeriod(p, myDay[r], day)})

\* However increments, rejections and refunds interleave, a period never lets
\* through more requests than the largest limit one of them was checked
\* against, plus the most the counter was made to forget (auth.go:694-723).
QuotaBound ==
    \A p \in Period : peak[p] = NoCap \/ admitted[p] <= peak[p] + slack[p]

\* What auth.go:694 says of the quotas: they are hard.
HardQuota ==
    \A p \in Period : peak[p] = NoCap \/ admitted[p] <= peak[p]

\* Only the current token of the key authenticates, and to the key's current
\* state: rotation, reload and revocation leave no other way in
\* (auth.go:427-437, 501-507, 511-521).
OneWayIn ==
    \A t \in Token : keys[t] = IF t = key THEN "current" ELSE "none"

\* persist.go:7: a crash loses at most the counts since the last flush, and a
\* restored counter does not carry an old period's counts into the new one.
CrashLoss ==
    [][Restart =>
         \A p \in Period :
             /\ Shown'[p] >= Shown[p] - unflushed
             /\ stored # None /\ ~SamePeriod(p, stored.last, day) => Shown'[p] = 0]_vars

\* Only the current token of the key authenticates, and to the key's current state,
\* whichever of rotation, reload and revocation a request races; every count and
\* date stays in its domain.
KeysSound == TypeOK /\ OneWayIn

(***************************************************************************)
(* Limits and symmetry for the runs: requests and tokens are               *)
(* interchangeable.                                                        *)
(***************************************************************************)
Symmetry == Permutations(Request) \cup Permutations(Token)

\* Either period limited to one request, the other unlimited.
MCPolicies == {[day |-> 1, month |-> 0], [day |-> 0, month |-> 1]}
=============================================================================
