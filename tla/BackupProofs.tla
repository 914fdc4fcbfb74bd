---------------------------- MODULE BackupProofs ----------------------------
(***************************************************************************)
(* Proofs about backup and restore.                                        *)
(*                                                                         *)
(* A restore across restarts, for any number of restores and starts.       *)
(* Whatever writes fail, what is reported is true, what was accepted is    *)
(* tried, and what is swapped in is what was accepted (Told).  That an     *)
(* accepted restore can be found again needs the writes of the status file *)
(* and the removals of markers to succeed, as the run that checks it has   *)
(* it: a stale outcome hides a later marker otherwise.  One restore is     *)
(* under way at a time: the slot (rstate), the handler, the hand-off and   *)
(* the pending marker are all the same reference, and it is newer than any *)
(* report.                                                                 *)
(*                                                                         *)
(* The backup directory, for any budget and any number of files and        *)
(* crashes, and whatever of a pass fails: what it has chosen leaves what   *)
(* is owed of the files that count as good (DirInv).  The free space, for  *)
(* any writers and sizes, on a volume that starts with its margin: what    *)
(* writers may still write is covered beside it (SpaceInv).  The saved     *)
(* status: the newest snapshot is on its way or written (StatusInv).  The  *)
(* command line, when no other process replaces files it did not create    *)
(* (ClientInv).  Archives of any shape: what a verification has read, and  *)
(* what is remembered of it or noted of a file just written, is true of    *)
(* the file as long as its modification time is the one that was seen; and *)
(* a decompression has written the members before the one in hand and the  *)
(* blocks it took of it (ArchiveInv).                                      *)
(***************************************************************************)
EXTENDS MCBackups, FiniteSetTheorems, SequenceTheorems, WellFoundedInduction, TLAPS

-----------------------------------------------------------------------------
(* Finite sets of numbers, and sums. *)

\* A family of subsets of a finite set has a smallest member.
LEMMA SmallestSet ==
    ASSUME NEW M, IsFiniteSet(M), NEW F, F \subseteq SUBSET M, F # {}
    PROVE \E X \in F : \A Y \in F : Y \subseteq X => Y = X
<1>1. IsWellFoundedOn(StrictSubsetOrdering(M), SUBSET M)
  BY FS_FiniteSubsetsOfFinite, FS_StrictSubsetOrderingWellFounded
<1>2. PICK X \in F : \A Y \in F : ~(<<Y, X>> \in StrictSubsetOrdering(M))
  BY <1>1, WFMin
<1>3. ASSUME NEW Y \in F, Y \subseteq X, Y # X PROVE FALSE
  <2>1. <<Y, X>> \in (SUBSET M) \X (SUBSET M)
    OBVIOUS
  <2>2. <<Y, X>> \in StrictSubsetOrdering(M)
    BY <1>3, <2>1 DEF StrictSubsetOrdering
  <2> QED BY <1>2, <2>2
<1> QED BY <1>3

\* A finite set of numbers has a lowest one.
LEMMA Lowest ==
    ASSUME NEW G, IsFiniteSet(G), G # {}, \A m \in G : m \in Nat
    PROVE \E n \in G : \A m \in G : n <= m
<1> DEFINE Upto(n) == {m \in G : m <= n}
           F == {Upto(n) : n \in G}
<1>1. F \subseteq SUBSET G /\ F # {}
  OBVIOUS
<1>2. PICK X \in F : \A Y \in F : Y \subseteq X => Y = X
  <2> HIDE DEF F
  <2> QED BY <1>1, SmallestSet
<1>3. PICK n \in G : X = Upto(n)
  BY <1>2
<1>4. ASSUME NEW m \in G, ~(n <= m) PROVE FALSE
  <2>1. Upto(m) \in F /\ Upto(m) \subseteq X
    <3>1. \A l \in G : l <= m => l <= n
      BY <1>4
    <3> QED BY <1>3, <3>1
  <2>2. n \in X /\ n \notin Upto(m)
    BY <1>3, <1>4
  <2>3. Upto(m) = X
    BY <1>2, <2>1
  <2> QED BY <2>2, <2>3
<1> QED BY <1>4

\* Of a set of numbers, those with fewer than k above them are k, or all.
Above(G, n) == {m \in G : m > n}
Latest(G, k) == {n \in G : Cardinality(Above(G, n)) < k}
LEMMA LatestCount ==
    ASSUME NEW G, IsFiniteSet(G), \A m \in G : m \in Nat, NEW k \in Nat
    PROVE Cardinality(Latest(G, k)) = IF Cardinality(G) <= k THEN Cardinality(G) ELSE k
<1> DEFINE Right(X) == Cardinality(Latest(X, k)) = IF Cardinality(X) <= k THEN Cardinality(X) ELSE k
           Bad == {X \in SUBSET G : ~Right(X)}
<1>1. SUFFICES ASSUME Bad # {} PROVE FALSE
  OBVIOUS
<1>2. PICK X \in Bad : \A Y \in Bad : Y \subseteq X => Y = X
  <2>1. Bad \subseteq SUBSET G
    OBVIOUS
  <2> HIDE DEF Bad
  <2> QED BY <1>1, <2>1, SmallestSet
<1>3. (\A m \in X : m \in Nat) /\ IsFiniteSet(X) /\ ~Right(X)
  BY <1>2, FS_Subset
<1>4. X # {}
  <2>1. Latest({}, k) = {} /\ Cardinality({}) = 0
    BY FS_EmptySet DEF Latest
  <2> QED BY <1>3, <2>1
<1>5. PICK n \in X : \A m \in X : n <= m
  BY <1>3, <1>4, Lowest
<1> DEFINE Z == X \ {n}
<1>6. IsFiniteSet(Z) /\ Cardinality(X) = Cardinality(Z) + 1 /\ Cardinality(Z) \in Nat
  <2>1. IsFiniteSet(Z) /\ Cardinality(Z) = Cardinality(X) - 1
    BY <1>3, FS_RemoveElement
  <2> QED BY <1>3, <2>1, FS_CardinalityType
<1>7. Right(Z)
  <2>1. Z \notin Bad
    BY <1>2
  <2> QED BY <1>2, <2>1
<1>8. Above(X, n) = Z
  BY <1>3, <1>5 DEF Above
<1>9. ASSUME NEW j \in Z PROVE Above(X, j) = Above(Z, j)
  <2>1. \A m \in X : m > j => m # n
    BY <1>3, <1>5
  <2> QED BY <2>1 DEF Above
<1>10. /\ Cardinality(Z) < k => Latest(X, k) = Latest(Z, k) \cup {n}
       /\ ~(Cardinality(Z) < k) => Latest(X, k) = Latest(Z, k)
  BY <1>8, <1>9 DEF Latest
<1>11. IsFiniteSet(Latest(Z, k)) /\ n \notin Latest(Z, k)
  BY <1>6, FS_Subset DEF Latest
<1>12. Cardinality(Latest(Z, k) \cup {n}) = Cardinality(Latest(Z, k)) + 1
  BY <1>11, FS_AddElement
<1> HIDE DEF Z
<1>13. CASE Cardinality(Z) < k
  BY <1>3, <1>6, <1>7, <1>10, <1>12, <1>13
<1>14. CASE ~(Cardinality(Z) < k)
  <2>1. Cardinality(Latest(X, k)) = Cardinality(Latest(Z, k)) /\ ~(Cardinality(X) <= k)
    BY <1>6, <1>10, <1>14
  <2>2. Cardinality(Latest(Z, k)) = k
    BY <1>6, <1>7, <1>14
  <2> QED BY <1>3, <2>1, <2>2
<1> QED BY <1>13, <1>14

\* What writers come to together, and the same as a number of units.
Total(f, S) == SumFunctionOnSet(f, S)
UnitsOf(f, S) == {p \in S \X Nat : 1 <= p[2] /\ p[2] <= f[p[1]]}

LEMMA UnitsAdd ==
    ASSUME NEW M, NEW f \in [M -> Nat], NEW S \in SUBSET M, NEW x \in S,
           IsFiniteSet(UnitsOf(f, S \ {x}))
    PROVE /\ IsFiniteSet(UnitsOf(f, S))
          /\ Cardinality(UnitsOf(f, S)) = f[x] + Cardinality(UnitsOf(f, S \ {x}))
<1> DEFINE one == {x} \X (1 .. f[x])
           rest == UnitsOf(f, S \ {x})
<1>1. f[x] \in Nat
  OBVIOUS
<1>2. IsFiniteSet(one) /\ Cardinality(one) = f[x]
  <2>1. IsFiniteSet({x}) /\ Cardinality({x}) = 1
    BY FS_Singleton
  <2>2. IsFiniteSet(1 .. f[x]) /\ Cardinality(1 .. f[x]) = f[x]
    BY <1>1, FS_Interval
  <2>3. IsFiniteSet(one) /\ Cardinality(one) = 1 * f[x]
    BY <2>1, <2>2, FS_Product
  <2> QED
    BY <1>1, <2>3
<1>3. UnitsOf(f, S) = one \cup rest
  BY <1>1 DEF UnitsOf
<1>4. one \cap rest = {}
  BY DEF UnitsOf
<1>5. Cardinality({}) = 0 /\ IsFiniteSet(rest)
  BY FS_EmptySet
<1> HIDE DEF one, rest
<1>6. /\ IsFiniteSet(one \cup rest)
      /\ Cardinality(one \cup rest) = Cardinality(one) + Cardinality(rest) - 0
  <2>1. /\ IsFiniteSet(one \cup rest)
        /\ Cardinality(one \cup rest)
             = Cardinality(one) + Cardinality(rest) - Cardinality(one \cap rest)
      BY <1>2, <1>5, FS_Union
  <2>2. Cardinality(one \cap rest) = 0
    BY <1>4, <1>5
  <2> QED
    BY <2>1, <2>2
<1>7. Cardinality(rest) \in Nat
  BY FS_CardinalityType DEF rest
<1> QED
  BY <1>1, <1>2, <1>3, <1>6, <1>7 DEF rest

LEMMA UnitsFinite ==
    ASSUME NEW M, IsFiniteSet(M), NEW f \in [M -> Nat], NEW S \in SUBSET M
    PROVE IsFiniteSet(UnitsOf(f, S))
<1> DEFINE Bad == {T \in SUBSET M : ~IsFiniteSet(UnitsOf(f, T))}
<1>1. SUFFICES ASSUME Bad # {} PROVE FALSE
  OBVIOUS
<1>2. PICK X \in Bad : \A Y \in Bad : Y \subseteq X => Y = X
  <2>1. Bad \subseteq SUBSET M
    OBVIOUS
  <2> HIDE DEF Bad
  <2> QED
    BY <1>1, <2>1, SmallestSet
<1>3. CASE X = {}
  <2>1. UnitsOf(f, {}) = {}
    BY DEF UnitsOf
  <2> QED
    BY <1>2, <1>3, <2>1, FS_EmptySet
<1>4. CASE X # {}
  <2>1. PICK x \in X : TRUE
    BY <1>4
  <2>2. X \ {x} \notin Bad
    BY <1>2, <2>1
  <2>3. IsFiniteSet(UnitsOf(f, X \ {x}))
    BY <2>2
  <2> QED
    BY <2>3, UnitsAdd
<1> QED
  BY <1>3, <1>4

LEMMA TotalIsUnits ==
    ASSUME NEW M, IsFiniteSet(M), NEW f \in [M -> Nat], NEW S \in SUBSET M
    PROVE Total(f, S) = Cardinality(UnitsOf(f, S))
<1> DEFINE pick(s) == CHOOSE x \in s : TRUE
           Grow(h) == [s \in SUBSET S |-> IF s = {} THEN 0
                                          ELSE f[CHOOSE x \in s : TRUE]
                                               + h[s \ {CHOOSE x \in s : TRUE}]]
           w == [s \in SUBSET S |-> Cardinality(UnitsOf(f, s))]
           g == CHOOSE iter : iter = Grow(iter)
<1>1. Total(f, S) = g[S]
  BY DEF Total, SumFunctionOnSet, FoldFunctionOnSet, MapThenFoldSet
<1>2. ASSUME NEW s \in SUBSET S, s # {}
      PROVE w[s] = f[pick(s)] + w[s \ {pick(s)}]
  <2>1. pick(s) \in s /\ s \in SUBSET M /\ s \ {pick(s)} \in SUBSET M
    BY <1>2
  <2>2. IsFiniteSet(UnitsOf(f, s \ {pick(s)}))
    BY <2>1, UnitsFinite
  <2> HIDE DEF pick
  <2>3. Cardinality(UnitsOf(f, s)) = f[pick(s)] + Cardinality(UnitsOf(f, s \ {pick(s)}))
    BY <2>1, <2>2, UnitsAdd
  <2> QED
    BY <2>1, <2>3
<1>3. w[{}] = 0
  <2>1. UnitsOf(f, {}) = {}
    BY DEF UnitsOf
  <2> QED
    BY <2>1, FS_EmptySet
<1>4. w = Grow(w)
  <2>1. DOMAIN Grow(w) = SUBSET S /\ DOMAIN w = SUBSET S
    OBVIOUS
  <2>2. \A s \in SUBSET S : w[s] = Grow(w)[s]
    BY <1>2, <1>3
  <2>3. w = [s \in SUBSET S |-> w[s]] /\ Grow(w) = [s \in SUBSET S |-> Grow(w)[s]]
    OBVIOUS
  <2> HIDE DEF w, Grow
  <2> QED
    BY <2>2, <2>3
<1> HIDE DEF w
<1>5. g = Grow(g)
  BY <1>4
<1> HIDE DEF g
<1> DEFINE Bad == {s \in SUBSET S : g[s] # w[s]}
<1>6. Bad = {}
  <2>1. SUFFICES ASSUME Bad # {} PROVE FALSE
    OBVIOUS
  <2>2. IsFiniteSet(S)
    BY FS_Subset
  <2>3. PICK X \in Bad : \A Y \in Bad : Y \subseteq X => Y = X
    <3>1. Bad \subseteq SUBSET S
      OBVIOUS
    <3> HIDE DEF Bad
    <3> QED
      BY <2>1, <2>2, <3>1, SmallestSet
  <2>4. g[{}] = 0
    BY <1>5
  <2>5. X # {} /\ pick(X) \in X
    BY <1>3, <2>3, <2>4
  <2>6. g[X] = f[pick(X)] + g[X \ {pick(X)}]
    BY <1>5, <2>3, <2>5
  <2>7. w[X] = f[pick(X)] + w[X \ {pick(X)}]
    BY <1>2, <2>3, <2>5
  <2> HIDE DEF pick
  <2>8. X \ {pick(X)} \in SUBSET S /\ X \ {pick(X)} \notin Bad
    BY <2>3, <2>5
  <2>9. g[X \ {pick(X)}] = w[X \ {pick(X)}]
    BY <2>8
  <2> QED
    BY <2>3, <2>6, <2>7, <2>9
<1>7. g[S] = w[S]
  BY <1>6
<1> QED
  BY <1>1, <1>7 DEF w

\* Taking an element away takes its share.
LEMMA TotalSplit ==
    ASSUME NEW M, IsFiniteSet(M), NEW f \in [M -> Nat], NEW S \in SUBSET M
    PROVE /\ Total(f, S) \in Nat /\ Total(f, {}) = 0
          /\ \A x \in S : Total(f, S) = f[x] + Total(f, S \ {x})
<1>1. Total(f, S) \in Nat
  BY TotalIsUnits, UnitsFinite, FS_CardinalityType
<1>2. Total(f, {}) = 0
  <2>1. UnitsOf(f, {}) = {}
    BY DEF UnitsOf
  <2>2. Total(f, {}) = Cardinality(UnitsOf(f, {}))
    BY TotalIsUnits
  <2> QED
    BY <2>1, <2>2, FS_EmptySet
<1>3. ASSUME NEW x \in S PROVE Total(f, S) = f[x] + Total(f, S \ {x})
  BY TotalIsUnits, UnitsFinite, UnitsAdd
<1> QED
  BY <1>1, <1>2, <1>3

\* Parts that fit in each fit in all.
LEMMA TotalHolds ==
    ASSUME NEW M, IsFiniteSet(M), NEW f \in [M -> Nat], NEW g \in [M -> Nat], NEW h \in [M -> Nat],
           NEW S \in SUBSET M, \A x \in S : f[x] + g[x] <= h[x]
    PROVE Total(f, S) + Total(g, S) <= Total(h, S)
<1> DEFINE Fits(T) == Total(f, T) + Total(g, T) <= Total(h, T)
           Bad == {T \in SUBSET S : ~Fits(T)}
<1>1. SUFFICES ASSUME Bad # {} PROVE FALSE
  OBVIOUS
<1>2. PICK X \in Bad : \A Y \in Bad : Y \subseteq X => Y = X
  <2>1. Bad \subseteq SUBSET S /\ IsFiniteSet(S)
    BY FS_Subset
  <2> HIDE DEF Bad
  <2> QED BY <1>1, <2>1, SmallestSet
<1>3. X \in SUBSET M /\ X \subseteq S /\ ~Fits(X)
  BY <1>2
<1>4. X # {}
  <2>1. Total(f, {}) = 0 /\ Total(g, {}) = 0 /\ Total(h, {}) = 0
    BY TotalSplit
  <2>2. Fits({})
    BY <2>1
  <2> QED BY <1>3, <2>2
<1>5. PICK x \in X : TRUE
  BY <1>4
<1> DEFINE Y == X \ {x}
<1>6. Y \in SUBSET M /\ Fits(Y)
  BY <1>2, <1>3
<1>7. /\ Total(f, X) = f[x] + Total(f, Y) /\ Total(f, Y) \in Nat
      /\ Total(g, X) = g[x] + Total(g, Y) /\ Total(g, Y) \in Nat
      /\ Total(h, X) = h[x] + Total(h, Y) /\ Total(h, Y) \in Nat
  BY <1>3, <1>6, TotalSplit
<1>8. f[x] \in Nat /\ g[x] \in Nat /\ h[x] \in Nat /\ f[x] + g[x] <= h[x]
  BY <1>3
<1> HIDE DEF Y
<1> QED BY <1>3, <1>6, <1>7, <1>8

\* Only what the members have counts.
LEMMA TotalSame ==
    ASSUME NEW M, IsFiniteSet(M), NEW f \in [M -> Nat], NEW h \in [M -> Nat],
           NEW S \in SUBSET M, \A x \in S : f[x] = h[x]
    PROVE Total(f, S) = Total(h, S)
<1> DEFINE zero == [x \in M |-> 0]
<1>1. zero \in [M -> Nat]
  OBVIOUS
<1>2. \A x \in S : f[x] \in Nat /\ h[x] \in Nat /\ zero[x] = 0
  OBVIOUS
<1>3. \A x \in S : f[x] + zero[x] <= h[x] /\ h[x] + zero[x] <= f[x]
  BY <1>2
<1> HIDE DEF zero
<1>4. /\ Total(f, S) + Total(zero, S) <= Total(h, S)
      /\ Total(h, S) + Total(zero, S) <= Total(f, S)
  BY <1>1, <1>3, TotalHolds
<1>5. Total(f, S) \in Nat /\ Total(h, S) \in Nat /\ Total(zero, S) \in Nat
  BY <1>1, TotalSplit
<1> QED BY <1>4, <1>5

-----------------------------------------------------------------------------
(* A restore across restarts: the invariant. *)

\* References are given out in order.
RefsCounted ==
    /\ staged \cup accepted \cup refused \cup carried \cup tried \cup acked \subseteq 1 .. refs
    /\ {pending.ref, outcome.ref, status.ref, last.ref, handed, toSwap, db, handler.ref}
         \subseteq 0 .. refs

\* The end of the process: what main carries out is what was handed to it.
Ending == mainPc \in {"shutdown", "swap", "mark", "record", "exited"}
             \/ (mainPc = "unmark" /\ toSwap # NoRef)
Quiet  == mainPc \in {"down", "absorb", "clean"} \/ (mainPc = "unmark" /\ toSwap = NoRef)

SlotHeld ==
    /\ Quiet => rstate = "idle" /\ handed = NoRef
    /\ Quiet \/ mainPc \in {"serve", "close"} => toSwap = NoRef /\ rstate # "closed"
    /\ Ending => rstate = "closed" /\ toSwap = handed
    /\ rstate \in {"idle", "staging"} => handed = NoRef
    /\ handler.pc = "idle" <=> handler.ref = NoRef
    /\ rstate = "idle" => handler.pc = "idle"

Newer(ref) == outcome.ref < ref /\ status.ref < ref /\ last.ref < ref
Mark(ref)  == [ref |-> ref, notDone |-> FALSE]

\* The request being served is new, and its copy is staged.
InHand ==
    handler.pc # "idle" =>
        /\ Serving /\ ~sweeping /\ handed = NoRef /\ rstate \in {"staging", "closed"}
        /\ handler.ref \notin accepted \cup refused \cup carried \cup tried
        /\ Newer(handler.ref)
        /\ handler.pc # "stage" => handler.ref \in staged
        /\ handler.pc = "send" => pending = Mark(handler.ref)

\* So is the one handed to main, until main swaps it in or fails to.
HandedOver ==
    handed # NoRef =>
        /\ handler.pc = "idle" /\ ~sweeping /\ handed \in accepted \ refused
        /\ Serving \/ mainPc = "swap" =>
             /\ handed \in staged \ (carried \cup tried) /\ pending = Mark(handed)
             /\ Newer(handed) /\ db # handed
        /\ mainPc \in {"mark", "record"} => handed \in tried /\ pending.ref = handed
        /\ mainPc = "mark" => handed \notin carried /\ db # handed
        /\ mainPc = "record" => (db = handed <=> handed \in carried)
        /\ mainPc \in {"unmark", "exited"} => handed \in tried

\* Main comes to the swap with a restore in its hands.
Busy == mainPc \in {"swap", "mark", "record"} => handed # NoRef

\* What was carried out is neither staged nor marked as not done.
OnDisk ==
    /\ db \in carried \cup {NoRef} /\ staged \cap carried = {}
    /\ pending.notDone => pending.ref \notin carried

Told == /\ RestoreTypeOK /\ RefsCounted /\ SlotHeld /\ InHand /\ HandedOver /\ Busy /\ OnDisk
        /\ ReportsTruthful

\* With every status written and every marker removed: the markers are those of one
\* restore, the status is no newer, and while requests are served there is none but
\* the current one's.
Reliable == "save" \notin WriteFaults /\ "unlink" \notin WriteFaults

MarkersAgree ==
    /\ mainPc # "down" => last = status
    /\ outcome # NoResult /\ pending # NoMark => outcome.ref = pending.ref
    /\ pending # NoMark => status.ref <= pending.ref
    /\ outcome # NoResult => status.ref <= outcome.ref
    /\ mainPc = "clean" => /\ outcome # NoResult => status.ref = outcome.ref
                           /\ pending # NoMark => status.ref = pending.ref
    /\ mainPc = "unmark" /\ toSwap = NoRef =>
         outcome = NoResult /\ (pending # NoMark => status.ref = pending.ref)
    /\ mainPc = "unmark" /\ toSwap # NoRef => outcome # NoResult
    /\ Serving \/ mainPc \in {"swap", "mark", "record"} => outcome = NoResult
    /\ Serving /\ pending # NoMark =>
         handed # NoRef \/ handler.pc = "send" \/ (rstate = "closed" /\ handler.pc = "idle")

Answered(r) == \E m \in acked \cup {status.ref} : m >= r

AllAnswered == Serving /\ handed = NoRef => \A r \in accepted : Answered(r)

Found == MarkersAgree /\ AcceptedDiscoverable /\ AllAnswered

-----------------------------------------------------------------------------
(* The types and the order of the references, one variable at a time. *)

SetsTyped ==
    /\ staged \subseteq Refs /\ accepted \subseteq Refs /\ refused \subseteq Refs
    /\ carried \subseteq Refs /\ tried \subseteq Refs /\ acked \subseteq Refs
MarksTyped ==
    /\ pending \in Marks
    /\ outcome \in Reports /\ status \in Reports /\ last \in Reports
MemTyped ==
    /\ db \in Refs \cup {NoRef}
    /\ mainPc \in {"down", "absorb", "clean", "serve", "close", "shutdown",
                   "swap", "mark", "record", "unmark", "exited"}
    /\ sweeping \in BOOLEAN
    /\ rstate \in {"idle", "staging", "handedOff", "closed"}
    /\ handed \in Refs \cup {NoRef} /\ toSwap \in Refs \cup {NoRef}
    /\ handler \in [pc : {"idle", "stage", "check", "marker", "send"},
                    ref : Refs \cup {NoRef}]
    /\ refs \in 0 .. MaxRestores /\ boots \in 0 .. MaxBoots
Typed == SetsTyped /\ MarksTyped /\ MemTyped

SetsOrdered ==
    /\ staged \subseteq 1 .. refs /\ accepted \subseteq 1 .. refs
    /\ refused \subseteq 1 .. refs /\ carried \subseteq 1 .. refs
    /\ tried \subseteq 1 .. refs /\ acked \subseteq 1 .. refs
MarksOrdered ==
    /\ pending.ref \in 0 .. refs /\ outcome.ref \in 0 .. refs /\ status.ref \in 0 .. refs
    /\ last.ref \in 0 .. refs /\ handed \in 0 .. refs /\ toSwap \in 0 .. refs
    /\ db \in 0 .. refs /\ handler.ref \in 0 .. refs
Ordered == SetsOrdered /\ MarksOrdered

\* The types say it of each variable.
LEMMA TypedIsTypes == Typed <=> RestoreTypeOK
  BY DEF Typed, SetsTyped, MarksTyped, MemTyped, RestoreTypeOK

\* So does the order.
LEMMA OrderedIsCounted == Ordered <=> RefsCounted
  BY DEF Ordered, SetsOrdered, MarksOrdered, RefsCounted

-----------------------------------------------------------------------------
(* Every step keeps the invariant, part by part. *)

\* Main has a restore in its hands where it swaps and records one.
LEMMA MainHolds == ASSUME Told, mainPc \in {"swap", "mark", "record"} PROVE toSwap # NoRef
  BY DEF Told, SlotHeld, Ending, Busy

\* A handler at work has a reference.
LEMMA HandlerHolds == ASSUME Told, handler.pc # "idle" PROVE handler.ref # NoRef
  BY DEF Told, SlotHeld

\* The outcome is written under a reference.
LEMMA RecordHolds == ASSUME Told, mainPc = "record" PROVE pending.ref # NoRef
  BY DEF Told, HandedOver, Busy

\* The history holds references.
LEMMA SetsTypedStep ==
  ASSUME Told, Typed, Ordered, RestoreNext
  PROVE  SetsTyped'
<1>1. CASE CleanupStagedRestores
  BY <1>1 DEF CleanupStagedRestores, history, Typed, SetsTyped
<1>2. CASE StageRestore
  BY <1>2, RestoreAssumption DEF StageRestore, Abort, Told, Typed, SetsTyped, SlotHeld, MemTyped
<1>3. CASE CheckState
  BY <1>3, RestoreAssumption DEF CheckState, Abort, Told, Typed, SetsTyped, InHand
<1>4. CASE WriteMarker
  BY <1>4, RestoreAssumption DEF WriteMarker, Abort, May, Told, Typed, SetsTyped, InHand
<1>5. CASE SendRestore
  BY <1>5, RestoreAssumption DEF SendRestore, Abort, Told, Typed, SetsTyped, InHand
<1>6. CASE AcknowledgeRestoreResult
  BY <1>6, RestoreAssumption DEF AcknowledgeRestoreResult, Told, Typed, Ordered, SetsTyped,
     MarksTyped, Reports
<1>7. CASE SwapStagedRestore
  BY <1>7, MainHolds DEF SwapStagedRestore, Typed, SetsTyped, MemTyped
<1>8. CASE \/ Boot
           \/ AbsorbRestoreOutcome
           \/ RemoveOutcome
           \/ RemovePending
           \/ HandleRestoreBackup
           \/ LeaveLoop
           \/ CloseRestores
           \/ Shutdown
           \/ MarkRestoreNotCarriedOut
           \/ WriteRestoreOutcome
           \/ Die
  BY <1>8 DEF Boot, AbsorbRestoreOutcome, RemoveOutcome, RemovePending, HandleRestoreBackup,
     LeaveLoop, CloseRestores, Shutdown, MarkRestoreNotCarriedOut, WriteRestoreOutcome, Die,
     diskVars, history, Typed, SetsTyped
<1> QED BY <1>1, <1>2, <1>3, <1>4, <1>5, <1>6, <1>7, <1>8 DEF RestoreNext, Starting,
    Requesting, Stopping

\* Markers and reports are markers and reports.
LEMMA MarksTypedStep ==
  ASSUME Told, Typed, Ordered, RestoreNext
  PROVE  MarksTyped'
<1>1. CASE Boot
  BY <1>1 DEF Boot, diskVars, history, Typed, MarksTyped
<1>2. CASE AbsorbRestoreOutcome
  BY <1>2, RestoreAssumption DEF AbsorbRestoreOutcome, Absorbed, May, history, Synthesize,
     Told, Typed, Ordered, MarksTyped, Marks, Reports, Results
<1>3. CASE RemoveOutcome
  BY <1>3 DEF RemoveOutcome, May, history, Typed, MarksTyped, Reports
<1>4. CASE RemovePending
  BY <1>4 DEF RemovePending, May, history, Typed, MarksTyped, Marks
<1>5. CASE StageRestore
  BY <1>5 DEF StageRestore, Abort, Typed, MarksTyped
<1>6. CASE CheckState
  BY <1>6 DEF CheckState, Abort, Typed, MarksTyped
<1>7. CASE WriteMarker
  <2>1. handler.ref \in Refs
    BY <1>7, HandlerHolds DEF WriteMarker, Typed, MemTyped, Refs, NoRef
  <2>2. pending' \in {pending, [ref |-> handler.ref, notDone |-> FALSE]}
    BY <1>7 DEF WriteMarker, Abort
  <2>3. outcome' = outcome /\ status' = status /\ last' = last
    BY <1>7 DEF WriteMarker
  <2>4. [ref |-> handler.ref, notDone |-> FALSE] \in Marks
    BY <2>1 DEF Marks
  <2> QED BY <2>2, <2>3, <2>4 DEF Typed, MarksTyped
<1>8. CASE SendRestore
  BY <1>8 DEF SendRestore, Abort, Typed, MarksTyped, Marks
<1>9. CASE AcknowledgeRestoreResult
  BY <1>9 DEF AcknowledgeRestoreResult, Typed, MarksTyped, Reports
<1>10. CASE MarkRestoreNotCarriedOut
  BY <1>10, RestoreAssumption DEF MarkRestoreNotCarriedOut, May, history, Told, Typed,
     Ordered, MarksTyped, NoMark, Busy, HandedOver, InHand, OnDisk, ReportsTruthful,
     SlotHeld, MemTyped, SetsTyped, MarksOrdered, SetsOrdered, Marks, NoRef, Mark, Newer,
     Serving, Refs, Ending, Quiet, NoResult, Results
<1>11. CASE WriteRestoreOutcome
  BY <1>11, RestoreAssumption, RecordHolds DEF WriteRestoreOutcome, May, history, Told,
     Typed, Ordered, MarksTyped, Busy, HandedOver, InHand, MemTyped, Reports, Results
<1>12. CASE Die
  BY <1>12, RestoreAssumption DEF Die, diskVars, history, Told, Typed, MarksTyped, Reports
<1>13. CASE \/ CleanupStagedRestores
            \/ HandleRestoreBackup
            \/ LeaveLoop
            \/ CloseRestores
            \/ Shutdown
            \/ SwapStagedRestore
  BY <1>13 DEF CleanupStagedRestores, HandleRestoreBackup, LeaveLoop, CloseRestores,
     Shutdown, SwapStagedRestore, history, diskVars, Typed, MarksTyped
<1> QED BY <1>1, <1>2, <1>3, <1>4, <1>5, <1>6, <1>7, <1>8, <1>9, <1>10, <1>11, <1>12, <1>13
    DEF RestoreNext, Starting, Requesting, Stopping

\* The rest of the types.
LEMMA MemTypedStep ==
  ASSUME Typed, Ordered, RestoreNext
  PROVE  MemTyped'
<1>1. CASE Boot
  BY <1>1, RestoreAssumption DEF Boot, diskVars, history, Typed, MemTyped, Resting
<1>2. CASE AbsorbRestoreOutcome
  BY <1>2 DEF AbsorbRestoreOutcome, Absorbed, May, history, Synthesize, Typed, MemTyped
<1>3. CASE RemoveOutcome
  BY <1>3 DEF RemoveOutcome, May, history, Typed, MemTyped
<1>4. CASE RemovePending
  BY <1>4 DEF RemovePending, May, history, Typed, MemTyped
<1>5. CASE CleanupStagedRestores
  BY <1>5 DEF CleanupStagedRestores, history, Typed, MemTyped, Serving
<1>6. CASE HandleRestoreBackup
  BY <1>6, RestoreAssumption DEF HandleRestoreBackup, diskVars, history, Typed, MemTyped, Refs
<1>7. CASE StageRestore
  BY <1>7 DEF StageRestore, Abort, Typed, MemTyped, Resting
<1>8. CASE CheckState
  BY <1>8 DEF CheckState, Abort, Typed, MemTyped, Resting
<1>9. CASE WriteMarker
  BY <1>9 DEF WriteMarker, Abort, May, Typed, MemTyped, Resting
<1>10. CASE SendRestore
  BY <1>10 DEF SendRestore, Abort, Typed, MemTyped, Resting
<1>11. CASE LeaveLoop
  BY <1>11 DEF LeaveLoop, diskVars, history, Typed, MemTyped
<1>12. CASE CloseRestores
  BY <1>12 DEF CloseRestores, diskVars, history, Typed, MemTyped
<1>13. CASE Shutdown
  BY <1>13 DEF Shutdown, diskVars, history, Typed, MemTyped, Resting
<1>14. CASE SwapStagedRestore
  BY <1>14 DEF SwapStagedRestore, Typed, MemTyped
<1>15. CASE MarkRestoreNotCarriedOut
  BY <1>15 DEF MarkRestoreNotCarriedOut, May, history, Typed, MemTyped
<1>16. CASE WriteRestoreOutcome
  BY <1>16 DEF WriteRestoreOutcome, May, history, Typed, MemTyped
<1>17. CASE Die
  BY <1>17 DEF Die, diskVars, history, Typed, MemTyped, Resting
<1>18. CASE AcknowledgeRestoreResult
  BY <1>18 DEF AcknowledgeRestoreResult, Typed, MemTyped
<1> QED BY <1>1, <1>2, <1>3, <1>4, <1>5, <1>6, <1>7, <1>8, <1>9, <1>10, <1>11, <1>12, <1>13,
    <1>14, <1>15, <1>16, <1>17, <1>18 DEF RestoreNext, Starting, Requesting, Stopping

\* Nothing is done to a restore nobody requested.
LEMMA SetsOrderedStep ==
  ASSUME Told, Typed, Ordered, RestoreNext
  PROVE  SetsOrdered'
<1>1. CASE CleanupStagedRestores
  BY <1>1 DEF CleanupStagedRestores, history, Ordered, SetsOrdered
<1>2. CASE HandleRestoreBackup
  BY <1>2, RestoreAssumption DEF HandleRestoreBackup, diskVars, history, Told, Typed,
     Ordered, SetsOrdered, MemTyped
<1>3. CASE StageRestore
  BY <1>3, RestoreAssumption DEF StageRestore, Abort, Told, Typed, Ordered, SetsOrdered,
     Serving, SlotHeld, MarksOrdered, NoRef
<1>4. CASE CheckState
  BY <1>4, RestoreAssumption DEF CheckState, Abort, Told, Ordered, SetsOrdered, InHand
<1>5. CASE WriteMarker
  BY <1>5, RestoreAssumption DEF WriteMarker, Abort, May, Told, Ordered, SetsOrdered, InHand
<1>6. CASE SendRestore
  <2>1. handler.ref \in 1 .. refs
    BY <1>6, HandlerHolds, RestoreAssumption DEF SendRestore, Typed, MemTyped, MarksTyped,
       Ordered, MarksOrdered, Refs, NoRef, Reports, NoResult
  <2>2. refs' = refs /\ staged' \subseteq staged \cup {handler.ref}
         /\ accepted' \subseteq accepted \cup {handler.ref}
         /\ refused' \subseteq refused \cup {handler.ref}
         /\ carried' = carried /\ tried' = tried /\ acked' = acked
    BY <1>6 DEF SendRestore, Abort
  <2> QED BY <2>1, <2>2 DEF Ordered, SetsOrdered
<1>7. CASE AcknowledgeRestoreResult
  <2>1. last.ref \in 1 .. refs
    BY <1>7, RestoreAssumption DEF AcknowledgeRestoreResult, Typed, MemTyped, MarksTyped,
       Ordered, MarksOrdered, Refs, NoRef, Reports, NoResult
  <2>2. refs' = refs /\ staged' = staged /\ accepted' = accepted
         /\ refused' = refused /\ carried' = carried /\ tried' = tried
         /\ acked' = acked \cup {last.ref}
    BY <1>7 DEF AcknowledgeRestoreResult, Abort
  <2> QED BY <2>1, <2>2 DEF Ordered, SetsOrdered
<1>8. CASE SwapStagedRestore
  <2>1. toSwap \in 1 .. refs
    BY <1>8, MainHolds, RestoreAssumption DEF SwapStagedRestore, Typed, MemTyped,
       MarksTyped, Ordered, MarksOrdered, Refs, NoRef, Reports, NoResult
  <2>2. refs' = refs /\ staged' \subseteq staged
         /\ accepted' = accepted /\ refused' = refused /\ carried' \subseteq carried \cup {toSwap}
         /\ tried' = tried \cup {toSwap} /\ acked' = acked
    BY <1>8 DEF SwapStagedRestore, Abort
  <2> QED BY <2>1, <2>2 DEF Ordered, SetsOrdered
<1>9. CASE \/ Boot
           \/ AbsorbRestoreOutcome
           \/ RemoveOutcome
           \/ RemovePending
           \/ LeaveLoop
           \/ CloseRestores
           \/ Shutdown
           \/ MarkRestoreNotCarriedOut
           \/ WriteRestoreOutcome
           \/ Die
  BY <1>9 DEF Boot, AbsorbRestoreOutcome, RemoveOutcome, RemovePending, LeaveLoop,
     CloseRestores, Shutdown, MarkRestoreNotCarriedOut, WriteRestoreOutcome, Die, diskVars,
     history, Ordered, SetsOrdered
<1> QED BY <1>1, <1>2, <1>3, <1>4, <1>5, <1>6, <1>7, <1>8, <1>9 DEF RestoreNext, Starting,
    Requesting, Stopping

\* Nor is one named.
LEMMA MarksOrderedStep ==
  ASSUME Typed, Ordered, RestoreNext
  PROVE  MarksOrdered'
<1>1. CASE Boot
  BY <1>1 DEF Boot, diskVars, history, Typed, Ordered, MarksOrdered, NoRef, Resting, MemTyped
<1>2. CASE AbsorbRestoreOutcome
  BY <1>2 DEF AbsorbRestoreOutcome, Absorbed, May, history, Synthesize, Ordered, MarksOrdered
<1>3. CASE RemoveOutcome
  BY <1>3, RestoreAssumption DEF RemoveOutcome, May, history, Typed, Ordered, MarksOrdered,
     NoResult, MemTyped, NoRef
<1>4. CASE RemovePending
  BY <1>4 DEF RemovePending, May, history, Typed, Ordered, MarksOrdered, NoMark, NoRef, MemTyped
<1>5. CASE HandleRestoreBackup
  BY <1>5 DEF HandleRestoreBackup, diskVars, history, Typed, Ordered, MarksOrdered, MemTyped
<1>6. CASE StageRestore
  BY <1>6, RestoreAssumption DEF StageRestore, Abort, Typed, Ordered, MarksOrdered, Resting,
     MemTyped, NoRef
<1>7. CASE CheckState
  BY <1>7, RestoreAssumption DEF CheckState, Abort, Typed, Ordered, MarksOrdered, Resting,
     MemTyped, NoRef
<1>8. CASE WriteMarker
  BY <1>8, RestoreAssumption DEF WriteMarker, Abort, May, Typed, Ordered, MarksOrdered,
     Resting, MemTyped, NoRef
<1>9. CASE SendRestore
  BY <1>9, RestoreAssumption DEF SendRestore, Abort, Typed, Ordered, MarksOrdered, Resting,
     NoMark, MemTyped, NoRef
<1>10. CASE AcknowledgeRestoreResult
  BY <1>10 DEF AcknowledgeRestoreResult, Typed, Ordered, MarksOrdered, NoResult, MemTyped, NoRef
<1>11. CASE CloseRestores
  BY <1>11 DEF CloseRestores, diskVars, history, Ordered, MarksOrdered
<1>12. CASE Shutdown
  BY <1>12 DEF Shutdown, diskVars, history, Ordered, MarksOrdered, Resting
<1>13. CASE SwapStagedRestore
  BY <1>13 DEF SwapStagedRestore, Ordered, MarksOrdered
<1>14. CASE MarkRestoreNotCarriedOut
  BY <1>14 DEF MarkRestoreNotCarriedOut, May, history, Typed, Ordered, MarksOrdered,
     MarksTyped, Marks
<1>15. CASE WriteRestoreOutcome
  BY <1>15 DEF WriteRestoreOutcome, May, history, Ordered, MarksOrdered
<1>16. CASE Die
  BY <1>16 DEF Die, diskVars, history, Typed, Ordered, MarksOrdered, NoRef, NoResult,
     Resting, MemTyped
<1>17. CASE CleanupStagedRestores \/ LeaveLoop
  BY <1>17 DEF CleanupStagedRestores, LeaveLoop, history, diskVars, Ordered, MarksOrdered
<1> QED BY <1>1, <1>2, <1>3, <1>4, <1>5, <1>6, <1>7, <1>8, <1>9, <1>10, <1>11, <1>12, <1>13,
    <1>14, <1>15, <1>16, <1>17 DEF RestoreNext, Starting, Requesting, Stopping

\* The slot, the hand-off and what main carries out agree.
LEMMA SlotHeldStep ==
  ASSUME Typed, Ordered, SlotHeld, InHand, HandedOver, Busy, OnDisk, ReportsTruthful, RestoreNext
  PROVE  SlotHeld'
<1>1. CASE Boot
  BY <1>1, RestoreAssumption DEF Boot, diskVars, history, Typed, Ordered, SlotHeld, InHand,
     Resting, Ending
<1>2. CASE AbsorbRestoreOutcome
  BY <1>2 DEF AbsorbRestoreOutcome, Absorbed, May, history, Synthesize, SlotHeld, Ending, Quiet
<1>3. CASE RemoveOutcome
  BY <1>3, RestoreAssumption DEF RemoveOutcome, May, history, Typed, SlotHeld, Ending, Quiet
<1>4. CASE RemovePending
  BY <1>4 DEF RemovePending, May, history, SlotHeld, Ending, Quiet
<1>5. CASE HandleRestoreBackup
  BY <1>5, RestoreAssumption DEF HandleRestoreBackup, diskVars, history, Typed, Ordered,
     SlotHeld, InHand, HandedOver, Busy, OnDisk, ReportsTruthful, Resting, Serving,
     MemTyped, MarksOrdered, Ending, Quiet
<1>6. CASE StageRestore
  BY <1>6, RestoreAssumption DEF StageRestore, Abort, Typed, Ordered, SlotHeld, InHand,
     HandedOver, Busy, OnDisk, ReportsTruthful, Resting, MemTyped, Ending, Quiet
<1>7. CASE CheckState
  BY <1>7, RestoreAssumption DEF CheckState, Abort, Typed, Ordered, SlotHeld, InHand,
     HandedOver, Busy, OnDisk, ReportsTruthful, Resting, MemTyped, Ending, Quiet
<1>8. CASE WriteMarker
  BY <1>8, RestoreAssumption DEF WriteMarker, Abort, May, Typed, Ordered, SlotHeld, InHand,
     HandedOver, Busy, OnDisk, ReportsTruthful, Resting, MemTyped, Ending, Quiet
<1>9. CASE SendRestore
  BY <1>9, RestoreAssumption DEF SendRestore, Abort, Typed, Ordered, SlotHeld, InHand,
     HandedOver, Resting, Ending, Quiet
<1>10. CASE LeaveLoop
  BY <1>10 DEF LeaveLoop, diskVars, history, SlotHeld, Ending, Quiet
<1>11. CASE CloseRestores
  BY <1>11 DEF CloseRestores, diskVars, history, SlotHeld, Quiet
<1>12. CASE Shutdown
  BY <1>12, RestoreAssumption DEF Shutdown, diskVars, history, Typed, Ordered, SlotHeld,
     InHand, Resting, Ending, Quiet
<1>13. CASE SwapStagedRestore
  BY <1>13 DEF SwapStagedRestore, SlotHeld, Ending, Quiet
<1>14. CASE MarkRestoreNotCarriedOut
  BY <1>14, RestoreAssumption DEF MarkRestoreNotCarriedOut, May, history, Typed, SlotHeld,
     Ending, Quiet
<1>15. CASE WriteRestoreOutcome
  BY <1>15, RestoreAssumption DEF WriteRestoreOutcome, May, history, Typed, SlotHeld, Busy,
     Ending, Quiet
<1>16. CASE Die
  BY <1>16 DEF Die, diskVars, history, SlotHeld, Resting, Ending
<1>17. CASE CleanupStagedRestores \/ AcknowledgeRestoreResult
  BY <1>17 DEF CleanupStagedRestores, AcknowledgeRestoreResult, history, SlotHeld, Ending, Quiet
<1> QED BY <1>1, <1>2, <1>3, <1>4, <1>5, <1>6, <1>7, <1>8, <1>9, <1>10, <1>11, <1>12, <1>13,
    <1>14, <1>15, <1>16, <1>17 DEF RestoreNext, Starting, Requesting, Stopping

\* The request being served is new.
LEMMA InHandStep ==
  ASSUME Typed, Ordered, SlotHeld, InHand, HandedOver, Busy, OnDisk, ReportsTruthful, RestoreNext
  PROVE  InHand'
<1>1. CASE Boot
  BY <1>1 DEF Boot, diskVars, history, InHand, Resting
<1>2. CASE AbsorbRestoreOutcome
  BY <1>2 DEF AbsorbRestoreOutcome, Absorbed, May, history, Synthesize, SlotHeld, InHand, Quiet
<1>3. CASE RemoveOutcome
  BY <1>3 DEF RemoveOutcome, May, history, SlotHeld, InHand, Quiet
<1>4. CASE RemovePending
  BY <1>4 DEF RemovePending, May, history, SlotHeld, InHand, Ending, Quiet
<1>5. CASE CleanupStagedRestores
  BY <1>5 DEF CleanupStagedRestores, history, InHand
<1>6. CASE HandleRestoreBackup
  BY <1>6, RestoreAssumption DEF HandleRestoreBackup, diskVars, history, Typed, Ordered,
     SlotHeld, InHand, HandedOver, Busy, OnDisk, ReportsTruthful, Resting, Serving,
     MemTyped, MarksOrdered, SetsOrdered, Newer
<1>7. CASE StageRestore
  BY <1>7, RestoreAssumption DEF StageRestore, Abort, Typed, Ordered, SlotHeld, InHand,
     HandedOver, Busy, OnDisk, ReportsTruthful, Serving, Resting, MemTyped, Newer
<1>8. CASE CheckState
  BY <1>8, RestoreAssumption DEF CheckState, Abort, Typed, Ordered, SlotHeld, InHand,
     HandedOver, Busy, OnDisk, ReportsTruthful, Serving, Resting, MemTyped, Newer
<1>9. CASE WriteMarker
  BY <1>9, RestoreAssumption DEF WriteMarker, Abort, May, Typed, Ordered, SlotHeld, InHand,
     HandedOver, Busy, OnDisk, ReportsTruthful, Serving, NoMark, Resting, MemTyped, Mark,
     Newer
<1>10. CASE SendRestore
  BY <1>10 DEF SendRestore, Abort, InHand, Resting
<1>11. CASE AcknowledgeRestoreResult
  BY <1>11, RestoreAssumption DEF AcknowledgeRestoreResult, Typed, Ordered, SlotHeld,
     InHand, HandedOver, Busy, OnDisk, ReportsTruthful, NoResult, Serving, MarksOrdered,
     NoRef, Newer
<1>12. CASE LeaveLoop
  BY <1>12 DEF LeaveLoop, diskVars, history, InHand, Newer, Serving
<1>13. CASE CloseRestores
  BY <1>13 DEF CloseRestores, diskVars, history, InHand, Newer, Serving
<1>14. CASE Shutdown
  BY <1>14, RestoreAssumption DEF Shutdown, diskVars, history, Typed, Ordered, SlotHeld,
     InHand, Resting, Ending
<1>15. CASE SwapStagedRestore
  BY <1>15 DEF SwapStagedRestore, InHand, Busy
<1>16. CASE MarkRestoreNotCarriedOut
  BY <1>16 DEF MarkRestoreNotCarriedOut, May, history, InHand, Busy
<1>17. CASE WriteRestoreOutcome
  BY <1>17 DEF WriteRestoreOutcome, May, history, InHand, Busy
<1>18. CASE Die
  BY <1>18 DEF Die, diskVars, history, InHand, Resting
<1> QED BY <1>1, <1>2, <1>3, <1>4, <1>5, <1>6, <1>7, <1>8, <1>9, <1>10, <1>11, <1>12, <1>13,
    <1>14, <1>15, <1>16, <1>17, <1>18 DEF RestoreNext, Starting, Requesting, Stopping

\* The restore in main's hands is the one that was handed over.
LEMMA HandedOverStep ==
  ASSUME RestoreTypeOK, RefsCounted, SlotHeld, InHand, HandedOver, Busy, OnDisk, RestoreNext
  PROVE  HandedOver'
<1>1. CASE Boot
  BY <1>1 DEF Boot, diskVars, history, HandedOver
<1>2. CASE AbsorbRestoreOutcome
  BY <1>2 DEF AbsorbRestoreOutcome, Absorbed, May, history, Synthesize, SlotHeld,
     HandedOver, Quiet
<1>3. CASE RemoveOutcome
  BY <1>3 DEF RemoveOutcome, May, history, SlotHeld, HandedOver, Quiet
<1>4. CASE RemovePending
  BY <1>4, RestoreAssumption DEF RemovePending, May, history, RestoreTypeOK, SlotHeld,
     HandedOver, Quiet, Serving
<1>5. CASE CleanupStagedRestores
  BY <1>5 DEF CleanupStagedRestores, history, HandedOver
<1>6. CASE HandleRestoreBackup
  BY <1>6 DEF HandleRestoreBackup, diskVars, history, SlotHeld, HandedOver
<1>7. CASE StageRestore
  BY <1>7 DEF StageRestore, Abort, HandedOver
<1>8. CASE CheckState
  BY <1>8 DEF CheckState, Abort, HandedOver
<1>9. CASE WriteMarker
  BY <1>9 DEF WriteMarker, Abort, May, HandedOver
<1>10. CASE SendRestore
  BY <1>10, RestoreAssumption DEF SendRestore, Abort, InHand, HandedOver, OnDisk, Resting,
     Serving, Newer
<1>11. CASE AcknowledgeRestoreResult
  BY <1>11, RestoreAssumption DEF AcknowledgeRestoreResult, RestoreTypeOK, RefsCounted,
     SlotHeld, HandedOver, NoResult, NoRef, Newer
<1>12. CASE LeaveLoop
  BY <1>12 DEF LeaveLoop, diskVars, history, HandedOver, Newer, Serving
<1>13. CASE CloseRestores
  BY <1>13 DEF CloseRestores, diskVars, history, HandedOver, Newer, Serving
<1>14. CASE Shutdown
  BY <1>14, RestoreAssumption DEF Shutdown, diskVars, history, SlotHeld, HandedOver, Ending,
     Newer, Serving
<1>15. CASE SwapStagedRestore
  BY <1>15, RestoreAssumption DEF SwapStagedRestore, RestoreTypeOK, RefsCounted, SlotHeld,
     HandedOver, Ending, Mark, Serving
<1>16. CASE MarkRestoreNotCarriedOut
  BY <1>16, RestoreAssumption DEF MarkRestoreNotCarriedOut, May, history, RestoreTypeOK,
     HandedOver, Marks, Serving
<1>17. CASE WriteRestoreOutcome
  BY <1>17 DEF WriteRestoreOutcome, May, history, HandedOver, Serving
<1>18. CASE Die
  BY <1>18 DEF Die, diskVars, history, HandedOver
<1> QED BY <1>1, <1>2, <1>3, <1>4, <1>5, <1>6, <1>7, <1>8, <1>9, <1>10, <1>11, <1>12, <1>13,
    <1>14, <1>15, <1>16, <1>17, <1>18 DEF RestoreNext, Starting, Requesting, Stopping

\* Main swaps only what it was handed.
LEMMA BusyStep ==
  ASSUME Typed, Ordered, SlotHeld, InHand, HandedOver, Busy, OnDisk, ReportsTruthful, RestoreNext
  PROVE  Busy'
<1>1. CASE Boot
  BY <1>1 DEF Boot, diskVars, history, Busy
<1>2. CASE AbsorbRestoreOutcome
  BY <1>2 DEF AbsorbRestoreOutcome, Absorbed, May, history, Synthesize, Busy
<1>3. CASE RemoveOutcome
  BY <1>3 DEF RemoveOutcome, May, history, Busy
<1>4. CASE RemovePending
  BY <1>4 DEF RemovePending, May, history, Busy
<1>5. CASE SendRestore
  BY <1>5 DEF SendRestore, Abort, SlotHeld, Busy
<1>6. CASE LeaveLoop
  BY <1>6 DEF LeaveLoop, diskVars, history, Busy
<1>7. CASE CloseRestores
  BY <1>7 DEF CloseRestores, diskVars, history, Busy
<1>8. CASE Shutdown
  BY <1>8, RestoreAssumption DEF Shutdown, diskVars, history, Typed, Ordered, SlotHeld,
     Busy, Ending
<1>9. CASE SwapStagedRestore
  BY <1>9 DEF SwapStagedRestore, Busy
<1>10. CASE MarkRestoreNotCarriedOut
  BY <1>10 DEF MarkRestoreNotCarriedOut, May, history, Busy
<1>11. CASE WriteRestoreOutcome
  BY <1>11 DEF WriteRestoreOutcome, May, history, Busy
<1>12. CASE Die
  BY <1>12 DEF Die, diskVars, history, Busy
<1>13. CASE \/ CleanupStagedRestores
            \/ HandleRestoreBackup
            \/ StageRestore
            \/ CheckState
            \/ WriteMarker
            \/ AcknowledgeRestoreResult
  BY <1>13 DEF CleanupStagedRestores, HandleRestoreBackup, StageRestore, CheckState,
     WriteMarker, AcknowledgeRestoreResult, history, diskVars, Busy
<1> QED BY <1>1, <1>2, <1>3, <1>4, <1>5, <1>6, <1>7, <1>8, <1>9, <1>10, <1>11, <1>12, <1>13
    DEF RestoreNext, Starting, Requesting, Stopping

\* What is on disk was carried out.
LEMMA OnDiskStep ==
  ASSUME RestoreTypeOK, RefsCounted, SlotHeld, InHand, HandedOver, Busy, OnDisk, RestoreNext
  PROVE  OnDisk'
<1>1. CASE RemovePending
  BY <1>1 DEF RemovePending, May, history, OnDisk, NoMark
<1>2. CASE CleanupStagedRestores
  BY <1>2 DEF CleanupStagedRestores, history, OnDisk
<1>3. CASE StageRestore
  BY <1>3 DEF StageRestore, Abort, InHand, OnDisk
<1>4. CASE CheckState
  BY <1>4 DEF CheckState, Abort, InHand, OnDisk
<1>5. CASE WriteMarker
  BY <1>5 DEF WriteMarker, Abort, May, InHand, OnDisk
<1>6. CASE SendRestore
  BY <1>6 DEF SendRestore, Abort, InHand, OnDisk, NoMark
<1>7. CASE SwapStagedRestore
  BY <1>7 DEF SwapStagedRestore, HandedOver, Busy, OnDisk, Mark
<1>8. CASE MarkRestoreNotCarriedOut
  BY <1>8 DEF MarkRestoreNotCarriedOut, May, history, RestoreTypeOK, HandedOver, Busy,
     OnDisk, Marks
<1>9. CASE \/ Boot
           \/ AbsorbRestoreOutcome
           \/ RemoveOutcome
           \/ HandleRestoreBackup
           \/ AcknowledgeRestoreResult
           \/ LeaveLoop
           \/ CloseRestores
           \/ Shutdown
           \/ WriteRestoreOutcome
           \/ Die
  BY <1>9 DEF Boot, AbsorbRestoreOutcome, RemoveOutcome, HandleRestoreBackup,
     AcknowledgeRestoreResult, LeaveLoop, CloseRestores, Shutdown, WriteRestoreOutcome, Die,
     diskVars, history, OnDisk
<1> QED BY <1>1, <1>2, <1>3, <1>4, <1>5, <1>6, <1>7, <1>8, <1>9 DEF RestoreNext, Starting,
    Requesting, Stopping

\* No report is wrong.
LEMMA ReportsTruthfulStep ==
  ASSUME Typed, Ordered, SlotHeld, InHand, HandedOver, Busy, OnDisk, ReportsTruthful, RestoreNext
  PROVE  ReportsTruthful'
<1>1. CASE Boot
  BY <1>1 DEF Boot, diskVars, history, ReportsTruthful
<1>2. CASE AbsorbRestoreOutcome
  BY <1>2 DEF AbsorbRestoreOutcome, Absorbed, May, history, Synthesize, OnDisk, ReportsTruthful
<1>3. CASE RemoveOutcome
  BY <1>3 DEF RemoveOutcome, May, history, ReportsTruthful, NoResult
<1>4. CASE AcknowledgeRestoreResult
  BY <1>4 DEF AcknowledgeRestoreResult, ReportsTruthful, NoResult
<1>5. CASE SwapStagedRestore
  BY <1>5, RestoreAssumption DEF SwapStagedRestore, Typed, Ordered, SlotHeld, InHand,
     HandedOver, Busy, OnDisk, ReportsTruthful, MarksTyped, MarksOrdered, Ending, Newer
<1>6. CASE WriteRestoreOutcome
  BY <1>6, RestoreAssumption DEF WriteRestoreOutcome, May, history, Typed, Ordered,
     SlotHeld, InHand, HandedOver, Busy, ReportsTruthful, Ending
<1>7. CASE Die
  BY <1>7 DEF Die, diskVars, history, ReportsTruthful, NoResult
<1>8. CASE \/ RemovePending
           \/ CleanupStagedRestores
           \/ HandleRestoreBackup
           \/ StageRestore
           \/ CheckState
           \/ WriteMarker
           \/ SendRestore
           \/ LeaveLoop
           \/ CloseRestores
           \/ Shutdown
           \/ MarkRestoreNotCarriedOut
  BY <1>8 DEF RemovePending, CleanupStagedRestores, HandleRestoreBackup, StageRestore,
     CheckState, WriteMarker, SendRestore, LeaveLoop, CloseRestores, Shutdown,
     MarkRestoreNotCarriedOut, history, diskVars, ReportsTruthful
<1> QED BY <1>1, <1>2, <1>3, <1>4, <1>5, <1>6, <1>7, <1>8 DEF RestoreNext, Starting,
    Requesting, Stopping

\* The markers are of one restore.
LEMMA MarkersAgreeStep ==
  ASSUME Typed, Ordered, SlotHeld, InHand, HandedOver, Busy, OnDisk, Reliable, MarkersAgree,
         RestoreNext
  PROVE  MarkersAgree'
<1>1. CASE Boot
  BY <1>1 DEF Boot, diskVars, history, MarkersAgree, Serving
<1>2. CASE AbsorbRestoreOutcome
  BY <1>2, RestoreAssumption DEF AbsorbRestoreOutcome, Absorbed, May, history, Synthesize,
     Typed, Ordered, SlotHeld, InHand, HandedOver, Busy, OnDisk, Reliable, MarkersAgree,
     MarksOrdered, Serving
<1>3. CASE RemoveOutcome
  BY <1>3, RestoreAssumption DEF RemoveOutcome, May, history, Typed, Ordered, SlotHeld,
     InHand, HandedOver, Busy, OnDisk, Reliable, MarkersAgree, Quiet, Serving
<1>4. CASE RemovePending
  BY <1>4 DEF RemovePending, May, history, Reliable, MarkersAgree, Serving
<1>5. CASE HandleRestoreBackup
  BY <1>5 DEF HandleRestoreBackup, diskVars, history, SlotHeld, MarkersAgree, Resting
<1>6. CASE StageRestore
  BY <1>6 DEF StageRestore, Abort, MarkersAgree
<1>7. CASE CheckState
  BY <1>7 DEF CheckState, Abort, MarkersAgree
<1>8. CASE WriteMarker
  <2>1. pending = NoMark /\ UNCHANGED <<outcome, status, mainPc, toSwap, last, handed>>
    BY <1>8 DEF WriteMarker, InHand, MarkersAgree
  <2>2. CASE pending' = pending
    BY <1>8, <2>1, <2>2 DEF WriteMarker, Abort, MarkersAgree, Serving
  <2>3. CASE pending' # pending
    <3>1. pending' = Mark(handler.ref) /\ handler' = [handler EXCEPT !.pc = "send"]
      BY <1>8, <2>3 DEF WriteMarker, Abort, Mark
    <3>2. handler'.pc = "send" /\ pending'.ref = handler.ref
      BY <3>1 DEF Typed, MemTyped, Mark
    <3>3. outcome = NoResult /\ Serving
      BY <1>8 DEF WriteMarker, MarkersAgree
    <3>4. status.ref <= handler.ref
      BY <1>8, RestoreAssumption DEF WriteMarker, InHand, Newer, Typed, Ordered, MarksTyped, MemTyped,
         MarksOrdered, Refs, Reports, NoResult
    <3> QED BY <2>1, <3>2, <3>3, <3>4 DEF MarkersAgree, Serving
  <2> QED BY <2>2, <2>3
<1>9. CASE SendRestore
  BY <1>9 DEF SendRestore, Abort, SlotHeld, InHand, MarkersAgree, Resting
<1>10. CASE AcknowledgeRestoreResult
  BY <1>10, RestoreAssumption DEF AcknowledgeRestoreResult, Typed, Ordered, MarkersAgree,
     NoResult, Serving, MarksOrdered, NoRef
<1>11. CASE LeaveLoop
  BY <1>11 DEF LeaveLoop, diskVars, history, MarkersAgree, Serving
<1>12. CASE CloseRestores
  BY <1>12 DEF CloseRestores, diskVars, history, MarkersAgree, Serving
<1>13. CASE Shutdown
  BY <1>13 DEF Shutdown, diskVars, history, MarkersAgree, Serving
<1>14. CASE SwapStagedRestore
  BY <1>14 DEF SwapStagedRestore, MarkersAgree, Serving
<1>15. CASE MarkRestoreNotCarriedOut
  BY <1>15, RestoreAssumption DEF MarkRestoreNotCarriedOut, May, history, Typed, Ordered,
     Busy, MarkersAgree, MarksTyped, Marks, Serving
<1>16. CASE WriteRestoreOutcome
  BY <1>16, RestoreAssumption DEF WriteRestoreOutcome, May, history, Typed, Ordered,
     SlotHeld, InHand, HandedOver, Busy, OnDisk, Reliable, MarkersAgree, MarksTyped, Ending,
     Serving, NoMark, NoResult
<1>17. CASE Die
  BY <1>17 DEF Die, diskVars, history, MarkersAgree, Serving
<1>18. CASE CleanupStagedRestores
  BY <1>18 DEF CleanupStagedRestores, history, MarkersAgree, Serving
<1> QED BY <1>1, <1>2, <1>3, <1>4, <1>5, <1>6, <1>7, <1>8, <1>9, <1>10, <1>11, <1>12, <1>13,
    <1>14, <1>15, <1>16, <1>17, <1>18 DEF RestoreNext, Starting, Requesting, Stopping

\* A marker of it, or of a later one, remains.
LEMMA DiscoverableStep ==
  ASSUME Typed, Ordered, SlotHeld, InHand, HandedOver, Busy, OnDisk, Reliable, MarkersAgree,
         AcceptedDiscoverable, AllAnswered, RestoreNext
  PROVE  AcceptedDiscoverable'
<1>1. CASE AbsorbRestoreOutcome
  BY <1>1, RestoreAssumption DEF AbsorbRestoreOutcome, Absorbed, May, history, Synthesize,
     Typed, Ordered, SlotHeld, InHand, HandedOver, OnDisk, MarkersAgree,
     AcceptedDiscoverable, SetsTyped, MarksOrdered
<1>2. CASE RemoveOutcome
  BY <1>2 DEF RemoveOutcome, May, history, MarkersAgree, AcceptedDiscoverable
<1>3. CASE RemovePending
  BY <1>3 DEF RemovePending, May, history, MarkersAgree, AcceptedDiscoverable
<1>4. CASE StageRestore
  BY <1>4 DEF StageRestore, Abort, AcceptedDiscoverable
<1>5. CASE CheckState
  BY <1>5 DEF CheckState, Abort, AcceptedDiscoverable
<1>6. CASE WriteMarker
  <2>1. CASE pending' = pending
    BY <1>6, <2>1 DEF WriteMarker, Abort, AcceptedDiscoverable
  <2>2. CASE pending' # pending
    BY <1>6, <2>2, RestoreAssumption DEF WriteMarker, Abort, May, Typed, Ordered, SlotHeld,
       InHand, HandedOver, Busy, OnDisk, Reliable, MarkersAgree, AcceptedDiscoverable, NoMark,
       SetsOrdered, NoRef
  <2> QED BY <2>1, <2>2
<1>7. CASE SendRestore
  <2>1. handler.ref \in accepted' => pending'.ref = handler.ref
    BY <1>7 DEF SendRestore, Abort, Typed, MemTyped, SetsTyped, InHand, Mark
  <2>2. CASE rstate = "staging"
    <3>1. accepted' = accepted \cup {handler.ref} /\ pending' = pending /\ acked' = acked
          /\ outcome' = outcome /\ status' = status
      BY <1>7, <2>2 DEF SendRestore
    <3>2. pending.ref = handler.ref /\ handler.ref >= handler.ref
      BY <1>7, <2>1, <3>1 DEF Typed, MemTyped, Refs, NoRef
    <3> QED BY <3>1, <3>2 DEF AcceptedDiscoverable
  <2>3. CASE rstate # "staging"
    <3>1. accepted' = accepted /\ acked' = acked /\ status' = status
      BY <1>7, <2>3 DEF SendRestore, Abort
    <3>2. \A r \in accepted : Answered(r)
      BY <1>7, <2>3 DEF SendRestore, AllAnswered, InHand
    <3> QED BY <3>1, <3>2 DEF AcceptedDiscoverable, Answered
  <2> QED BY <2>2, <2>3
<1>8. CASE AcknowledgeRestoreResult
  BY <1>8 DEF AcknowledgeRestoreResult, MarkersAgree, AcceptedDiscoverable, Serving
<1>9. CASE MarkRestoreNotCarriedOut
  BY <1>9, RestoreAssumption DEF MarkRestoreNotCarriedOut, May, history, Typed, Ordered,
     SlotHeld, InHand, HandedOver, AcceptedDiscoverable, MarksTyped, Marks
<1>10. CASE WriteRestoreOutcome
  BY <1>10, RestoreAssumption DEF WriteRestoreOutcome, May, history, Typed, Ordered,
     SlotHeld, InHand, HandedOver, Busy, OnDisk, Reliable, MarkersAgree,
     AcceptedDiscoverable, AllAnswered, MarksTyped, MemTyped, SetsTyped, MarksOrdered,
     NoRef, NoResult
<1>11. CASE \/ Boot
            \/ CleanupStagedRestores
            \/ HandleRestoreBackup
            \/ LeaveLoop
            \/ CloseRestores
            \/ Shutdown
            \/ SwapStagedRestore
            \/ Die
  BY <1>11 DEF Boot, CleanupStagedRestores, HandleRestoreBackup, LeaveLoop, CloseRestores,
     Shutdown, SwapStagedRestore, Die, diskVars, history, AcceptedDiscoverable
<1> QED BY <1>1, <1>2, <1>3, <1>4, <1>5, <1>6, <1>7, <1>8, <1>9, <1>10, <1>11
    DEF RestoreNext, Starting, Requesting, Stopping

\* While no restore is under way, all were answered.
LEMMA AnsweredStep ==
  ASSUME Typed, Ordered, SlotHeld, InHand, HandedOver, Busy, OnDisk, Reliable, MarkersAgree,
         AcceptedDiscoverable, AllAnswered, RestoreNext
  PROVE  AllAnswered'
<1>1. CASE Boot
  BY <1>1 DEF Boot, diskVars, history, AllAnswered, Serving
<1>2. CASE AbsorbRestoreOutcome
  BY <1>2, RestoreAssumption DEF AbsorbRestoreOutcome, Absorbed, May, history, Synthesize,
     Typed, Ordered, SlotHeld, InHand, HandedOver, Busy, OnDisk, Reliable, MarkersAgree,
     AcceptedDiscoverable, AllAnswered, NoMark, NoResult, SetsTyped, MarksOrdered, NoRef,
     Answered
<1>3. CASE RemoveOutcome
  BY <1>3 DEF RemoveOutcome, May, history, AllAnswered, Serving
<1>4. CASE RemovePending
  BY <1>4, RestoreAssumption DEF RemovePending, May, history, Typed, Ordered, SlotHeld,
     InHand, HandedOver, Busy, OnDisk, Reliable, MarkersAgree, AcceptedDiscoverable,
     AllAnswered, NoMark, NoRef, MarksTyped, SetsTyped, MarksOrdered, Ending, NoResult,
     Answered
<1>5. CASE SendRestore
  BY <1>5, RestoreAssumption DEF SendRestore, Abort, Typed, Ordered, SlotHeld, InHand,
     AllAnswered, Answered
<1>6. CASE AcknowledgeRestoreResult
  BY <1>6 DEF AcknowledgeRestoreResult, Reliable, MarkersAgree, AllAnswered, Serving, Answered
<1>7. CASE LeaveLoop
  BY <1>7 DEF LeaveLoop, diskVars, history, Reliable, MarkersAgree, AllAnswered, Serving,
     Answered
<1>8. CASE CloseRestores
  BY <1>8 DEF CloseRestores, diskVars, history, Reliable, MarkersAgree, AllAnswered,
     Serving, Answered
<1>9. CASE Shutdown
  BY <1>9 DEF Shutdown, diskVars, history, AllAnswered, Serving
<1>10. CASE SwapStagedRestore
  BY <1>10 DEF SwapStagedRestore, AllAnswered, Serving
<1>11. CASE MarkRestoreNotCarriedOut
  BY <1>11 DEF MarkRestoreNotCarriedOut, May, history, AllAnswered, Serving
<1>12. CASE WriteRestoreOutcome
  BY <1>12 DEF WriteRestoreOutcome, May, history, AllAnswered, Serving
<1>13. CASE Die
  BY <1>13 DEF Die, diskVars, history, AllAnswered, Serving
<1>14. CASE \/ CleanupStagedRestores
            \/ HandleRestoreBackup
            \/ StageRestore
            \/ CheckState
            \/ WriteMarker
  BY <1>14 DEF CleanupStagedRestores, HandleRestoreBackup, StageRestore, CheckState,
     WriteMarker, history, diskVars, AllAnswered, Answered, Serving
<1> QED BY <1>1, <1>2, <1>3, <1>4, <1>5, <1>6, <1>7, <1>8, <1>9, <1>10, <1>11, <1>12, <1>13,
    <1>14 DEF RestoreNext, Starting, Requesting, Stopping

-----------------------------------------------------------------------------
(* Theorems. *)

\* The first start finds an empty directory.
LEMMA ToldFirst == ASSUME RestoreInit PROVE Told /\ Found
<1>1. Typed /\ Ordered
  <2>1. SetsTyped
    BY DEF RestoreInit, SetsTyped
  <2>2. MarksTyped
    BY DEF RestoreInit, MarksTyped, Marks, Reports
  <2>3. MemTyped
    <3>1. 0 \in 0 .. MaxRestores /\ 0 \in 0 .. MaxBoots
      BY RestoreAssumption
    <3>2. Resting \in [pc : {"idle", "stage", "check", "marker", "send"},
                       ref : Refs \cup {NoRef}]
      BY DEF Resting
    <3> QED BY <3>1, <3>2 DEF RestoreInit, MemTyped
  <2>4. Ordered
    BY DEF RestoreInit, Ordered, SetsOrdered, MarksOrdered, NoRef, NoMark, NoResult, Resting
  <2> QED BY <2>1, <2>2, <2>3, <2>4 DEF Typed
<1>2. SlotHeld /\ InHand /\ HandedOver /\ Busy /\ OnDisk /\ ReportsTruthful
  BY DEF RestoreInit, SlotHeld, InHand, HandedOver, Busy, OnDisk, ReportsTruthful, Quiet,
     Ending, NoRef, NoMark, NoResult, Resting
<1>3. Found
  BY DEF RestoreInit, Found, MarkersAgree, AcceptedDiscoverable, AllAnswered, Serving, NoRef,
     NoMark, NoResult
<1> QED BY <1>1, <1>2, <1>3, TypedIsTypes, OrderedIsCounted DEF Told

\* No step takes it away.
LEMMA ToldKept == ASSUME Told, [RestoreNext]_restoreVars PROVE Told'
<1>1. Typed /\ Ordered
  BY TypedIsTypes, OrderedIsCounted DEF Told
<1>2. CASE RestoreNext
  <2>1. Typed' /\ Ordered'
    BY <1>1, <1>2, SetsTypedStep, MarksTypedStep, MemTypedStep, SetsOrderedStep,
       MarksOrderedStep DEF Typed, Ordered
  <2>2. RestoreTypeOK' /\ RefsCounted'
    BY <2>1, TypedIsTypes, OrderedIsCounted, PTL
  <2>3. SlotHeld' /\ InHand' /\ HandedOver' /\ Busy' /\ OnDisk' /\ ReportsTruthful'
    BY <1>1, <1>2, SlotHeldStep, InHandStep, HandedOverStep, BusyStep, OnDiskStep,
       ReportsTruthfulStep DEF Told
  <2> QED BY <2>2, <2>3 DEF Told
<1>3. CASE UNCHANGED restoreVars
  BY <1>3 DEF restoreVars, diskVars, memVars, history, Told, RestoreTypeOK, RefsCounted, SlotHeld,
     InHand, HandedOver, Busy, OnDisk, ReportsTruthful, Quiet, Ending, Serving, Newer, Mark
<1> QED BY <1>2, <1>3

\* Nor what can be found.
LEMMA FoundKept == ASSUME Told, Found, Reliable, [RestoreNext]_restoreVars PROVE Found'
<1>1. Typed /\ Ordered
  BY TypedIsTypes, OrderedIsCounted DEF Told
<1>2. CASE RestoreNext
  BY <1>1, <1>2, MarkersAgreeStep, DiscoverableStep, AnsweredStep DEF Told, Found
<1>3. CASE UNCHANGED restoreVars
  BY <1>3 DEF restoreVars, diskVars, memVars, history, Found, MarkersAgree,
     AcceptedDiscoverable, AllAnswered, Answered, Serving
<1> QED BY <1>2, <1>3

\* What was handed over is what is carried out, and it is tried.
LEMMA ToldTries == ASSUME Told PROVE AcceptedIsTried /\ SwapsWhatWasAccepted
  BY DEF Told, SlotHeld, HandedOver, Busy, Ending, Mark, NoRef, AcceptedIsTried,
     SwapsWhatWasAccepted

\* Whichever writes fail and wherever the process dies, no report is wrong, a shutdown
\* that ends has tried what it accepted, and main swaps in the copy of the request it
\* accepted.
THEOREM RestoreToldTruly ==
    RestoreSpec => [](ReportsTruthful /\ AcceptedIsTried /\ SwapsWhatWasAccepted)
<1>1. RestoreInit => Told
  BY ToldFirst
<1>2. Told /\ [RestoreNext]_restoreVars => Told'
  BY ToldKept
<1>3. Told => ReportsTruthful /\ AcceptedIsTried /\ SwapsWhatWasAccepted
  BY ToldTries DEF Told
<1> QED BY <1>1, <1>2, <1>3, PTL DEF RestoreSpec

-----------------------------------------------------------------------------
(* The backup directory: the invariant. *)

PassRecord == [pc : {"idle", "list", "delete", "settle"},
               excess : SUBSET [name : Names, version : 0 .. 1], again : BOOLEAN, asked : BOOLEAN]
Kinds == {f \in AllFiles : ~(f.good /\ f.trusted)}
DirTyped ==
    /\ stamp \in 0 .. MaxFiles /\ DOMAIN dirFiles \subseteq 1 .. stamp
    /\ \A n \in DOMAIN dirFiles : dirFiles[n] \in Kinds
    /\ prune \in [Pools -> PassRecord]
    /\ owed \in [Pools -> Nat] /\ spared \in [Pools -> BOOLEAN]
OpsTyped ==
    /\ temps \subseteq Owners /\ pins \subseteq Names /\ keeping \in BOOLEAN
    /\ scheduled \in [pc : {"idle", "write", "written", "commit", "prune", "pruning"},
                      content : Contents]
    /\ uploading \in [pc : {"idle", "receive", "received", "commit"}, content : Contents]
    /\ manual \in {"idle", "build", "send"} /\ sweeper \in {"idle", "claimed", "sweep"}
    /\ runMu \in {NoOne, "sched", "manual", "sweep"} /\ heavyMu \in {NoOne, "upload", "sweep"}

\* Who holds a lock is at work, and its file is there.
LocksHeld ==
    /\ sweeper = "sweep" <=> runMu = "sweep"
    /\ sweeper = "sweep" <=> heavyMu = "sweep"
    /\ scheduled.pc \in {"write", "written", "commit"} <=> runMu = "sched"
    /\ manual = "build" <=> runMu = "manual"
    /\ uploading.pc \in {"receive", "received"} <=> heavyMu = "upload"
    /\ LiveTempsKept

\* A scheduled backup runs the passes of its pool itself.
Doomed(p) == {d.name : d \in prune[p].excess}
PassesGood ==
    /\ prune["sched"].pc # "idle" <=> scheduled.pc = "pruning"
    /\ ~prune["sched"].again /\ ~prune["sched"].asked
    /\ \A p \in Pools :
         /\ prune[p].pc = "idle" => ~prune[p].again
         /\ prune[p].pc # "delete" => prune[p].excess = {}
         /\ \A n \in Doomed(p) : n <= stamp /\ (n \in DOMAIN dirFiles => dirFiles[n].pool = p)

\* What a pass has chosen leaves what is owed, and no more than the budget unless
\* another pass is to come.
Unchosen(p) == Counted(p) \ Doomed(p)
Pending(p) ==
    \/ prune[p].asked \/ prune[p].again \/ prune[p].pc = "list"
    \/ p = "sched" /\ scheduled.pc = "prune"
PoolKept(p) ==
    /\ owed[p] <= Retention /\ owed[p] <= Cardinality(Unchosen(p))
    /\ Retention > 0 /\ ~Pending(p) /\ ~spared[p] => Cardinality(Unchosen(p)) <= Retention
PoolsKept == \A p \in Pools : PoolKept(p)

DirInv == DirTyped /\ OpsTyped /\ LocksHeld /\ PassesGood /\ PoolsKept

LEMMA DirNumbers ==
    /\ Retention \in Nat /\ MaxFiles \in Nat /\ Contents # {}
    /\ (CHOOSE c \in Contents : TRUE) \in Contents
  BY BackupDirAssumption

LEMMA UnchosenFinite ==
    ASSUME DirTyped, NEW p \in Pools
    PROVE /\ (\A n \in Counted(p) : n \in Nat) /\ IsFiniteSet(Counted(p)) /\ IsFiniteSet(Unchosen(p))
          /\ Cardinality(Counted(p)) \in Nat /\ Cardinality(Unchosen(p)) \in Nat
<1>1. Counted(p) \subseteq 1 .. stamp /\ stamp \in Nat
  BY DirNumbers DEF DirTyped, Counted, InPool
<1>2. IsFiniteSet(1 .. stamp)
  BY <1>1, FS_Interval
<1>3. IsFiniteSet(Counted(p)) /\ IsFiniteSet(Unchosen(p))
  BY <1>1, <1>2, FS_Subset DEF Unchosen
<1> QED BY <1>1, <1>3, FS_CardinalityType

LEMMA DirFirst == ASSUME BackupDirInit PROVE DirInv
<1>1. IdlePass \in PassRecord /\ IdleOp.pc = "idle" /\ IdleOp.content \in Contents
  BY DirNumbers DEF IdlePass, PassRecord, IdleOp
<1>2. stamp \in 0 .. MaxFiles /\ DOMAIN dirFiles = {}
  BY DirNumbers DEF BackupDirInit
<1>3. DirTyped
  BY <1>1, <1>2 DEF BackupDirInit, DirTyped
<1>4. OpsTyped
  BY <1>1, DirNumbers DEF BackupDirInit, OpsTyped, IdleOp
<1>5. LocksHeld
  BY <1>1 DEF BackupDirInit, LocksHeld, LiveTempsKept, NoOne
<1>6. \A p \in Pools : prune[p] = IdlePass /\ Doomed(p) = {}
  BY DEF BackupDirInit, Doomed, IdlePass
<1>7. PassesGood
  BY <1>1, <1>6 DEF BackupDirInit, PassesGood, IdlePass, Pools
<1>8. PoolsKept
  <2>1. ASSUME NEW p \in Pools PROVE PoolKept(p)
    <3>1. Unchosen(p) = {} /\ Cardinality({}) = 0 /\ owed[p] = 0
      BY <1>2, FS_EmptySet DEF Unchosen, Counted, InPool, BackupDirInit
    <3>2. Cardinality(Unchosen(p)) = 0
      BY <3>1
    <3> QED BY <3>1, <3>2, DirNumbers DEF PoolKept
  <2> QED BY <2>1 DEF PoolsKept
<1> QED BY <1>3, <1>4, <1>5, <1>7, <1>8 DEF DirInv
-----------------------------------------------------------------------------
(* The backup directory: every step. *)

\* The steps that touch neither the backups nor the passes.
Around ==
    \/ RunScheduledBackup \/ WriteBackupArchive \/ DedupeAndVerify \/ Manual
    \/ HandleUploadBackup \/ CheckUploadedBackup \/ Sweeps
    \/ \E n \in Names : PinBackup(n) \/ UnpinBackup(n)
\* The steps of the passes, of the commits, and of others.
Passing ==
    \/ PruneAfterScheduled \/ StartUploadPrune
    \/ \E p \in Pools : PruneBackups(p) \/ DeleteExcess(p) \/ SettlePrune(p)
LosesFile(n) == HandleDeleteBackup(n) \/ DamageFile(n) \/ ForgetVerified(n)
Losing == \E n \in Names : LosesFile(n)
Rotting == \E n \in Names : RotSilently(n)

LEMMA DirSteps ==
    BackupDirNext => Around \/ Passing \/ CommitScheduled \/ CommitUpload \/ Losing \/ Rotting
                       \/ CrashDuringBackup
BY DEF BackupDirNext, Backups, Manual, Uploads, Pruning, Readers, Sweeps, Around, Passing,
   Losing, Rotting, LosesFile

\* What a step of the locks leaves alone.
LEMMA AroundKeeps ==
    ASSUME Around, PassesGood, OpsTyped
    PROVE /\ UNCHANGED <<dirFiles, stamp, prune, owed, spared>>
          /\ scheduled'.pc = "pruning" <=> scheduled.pc = "pruning"
          /\ scheduled.pc = "prune" => scheduled'.pc = "prune"
<1>1. CASE RunScheduledBackup
  BY <1>1 DEF RunScheduledBackup
<1>2. CASE WriteBackupArchive
  <2>1. scheduled'.pc \in {"written", "idle"}
    BY <1>2 DEF WriteBackupArchive, IdleOp, OpsTyped
  <2> QED BY <1>2, <2>1 DEF WriteBackupArchive
<1>3. CASE DedupeAndVerify
  BY <1>3 DEF DedupeAndVerify, IdleOp, OpsTyped
<1>4. CASE Manual
  BY <1>4 DEF Manual, HandleBackupNow, BuildManualBackup, SendManualBackup, lockVars
<1>5. CASE HandleUploadBackup \/ CheckUploadedBackup
  BY <1>5 DEF HandleUploadBackup, CheckUploadedBackup
<1>6. CASE Sweeps
  BY <1>6 DEF Sweeps, ClaimSweep, TryExclusive, CleanupBackupLeftovers
<1>7. ASSUME NEW n \in Names, PinBackup(n) \/ UnpinBackup(n)
      PROVE UNCHANGED <<dirFiles, stamp, prune, owed, spared, scheduled>>
  BY <1>7 DEF PinBackup, UnpinBackup, opVars
<1> QED BY <1>1, <1>2, <1>3, <1>4, <1>5, <1>6, <1>7 DEF Around

\* The operations keep their types.
LEMMA OpsTypedStep ==
    ASSUME DirTyped, OpsTyped, BackupDirNext PROVE OpsTyped'
<1>0. /\ IdleOp = [pc |-> "idle", content |-> IdleOp.content] /\ IdleOp.content \in Contents
      /\ IdleOp.pc = "idle"
  BY DirNumbers DEF IdleOp
<1>1. temps' \subseteq Owners
  BY DEF BackupDirNext, Backups, Manual, Uploads, Pruning, Readers, Sweeps, RunScheduledBackup,
     WriteBackupArchive, DedupeAndVerify, CommitScheduled, PruneAfterScheduled, HandleBackupNow,
     BuildManualBackup, SendManualBackup, HandleUploadBackup, CheckUploadedBackup, CommitUpload,
     StartUploadPrune, EndUpload, PruneBackups, DeleteExcess, SettlePrune, PinBackup,
     UnpinBackup, HandleDeleteBackup, DamageFile, RotSilently, ForgetVerified, ClaimSweep, TryExclusive,
     CleanupBackupLeftovers, CrashDuringBackup, OpsTyped, Owners
<1>2. pins' \subseteq Names
  BY DEF BackupDirNext, Backups, Manual, Uploads, Pruning, Readers, Sweeps, RunScheduledBackup,
     WriteBackupArchive, DedupeAndVerify, CommitScheduled, PruneAfterScheduled, HandleBackupNow,
     BuildManualBackup, SendManualBackup, HandleUploadBackup, CheckUploadedBackup, CommitUpload,
     StartUploadPrune, PruneBackups, DeleteExcess, SettlePrune, PinBackup,
     UnpinBackup, HandleDeleteBackup, DamageFile, RotSilently, ForgetVerified, ClaimSweep, TryExclusive,
     CleanupBackupLeftovers, CrashDuringBackup, OpsTyped
<1>3. scheduled' \in [pc : {"idle", "write", "written", "commit", "prune", "pruning"},
                      content : Contents]
  <2>1. scheduled \in [pc : {"idle", "write", "written", "commit", "prune", "pruning"},
                      content : Contents]
    BY DEF OpsTyped
  <2>2. \/ scheduled' \in {scheduled, IdleOp} \/ scheduled' = [IdleOp EXCEPT !.pc = "pruning"]
        \/ \E c \in Contents : scheduled' = [pc |-> "write", content |-> c]
        \/ \E x \in {"written", "commit", "prune"} : scheduled' = [scheduled EXCEPT !.pc = x]
    BY DEF BackupDirNext, Backups, Manual, Uploads, Pruning, Readers, Sweeps,
       RunScheduledBackup, WriteBackupArchive, DedupeAndVerify, CommitScheduled,
       PruneAfterScheduled, HandleBackupNow, BuildManualBackup, SendManualBackup,
       HandleUploadBackup, CheckUploadedBackup, CommitUpload, StartUploadPrune, EndUpload,
       PruneBackups, DeleteExcess, SettlePrune, PinBackup, opVars, UnpinBackup,
       HandleDeleteBackup, DamageFile, RotSilently, ForgetVerified, ClaimSweep, TryExclusive, CleanupBackupLeftovers,
       CrashDuringBackup
  <2> HIDE DEF IdleOp
  <2> QED BY <1>0, <2>1, <2>2
<1>4. uploading' \in [pc : {"idle", "receive", "received", "commit"}, content : Contents]
  <2>1. uploading \in [pc : {"idle", "receive", "received", "commit"}, content : Contents]
    BY DEF OpsTyped
  <2>2. \/ uploading' \in {uploading, IdleOp}
        \/ \E c \in Contents : uploading' = [pc |-> "receive", content |-> c]
        \/ uploading' = [uploading EXCEPT !.pc = "received"]
    BY DEF BackupDirNext, Backups, Manual, Uploads, Pruning, Readers, Sweeps,
       RunScheduledBackup, WriteBackupArchive, DedupeAndVerify, CommitScheduled,
       PruneAfterScheduled, HandleBackupNow, BuildManualBackup, SendManualBackup,
       HandleUploadBackup, CheckUploadedBackup, CommitUpload, StartUploadPrune, EndUpload,
       PruneBackups, DeleteExcess, SettlePrune, PinBackup, opVars, UnpinBackup,
       HandleDeleteBackup, DamageFile, RotSilently, ForgetVerified, ClaimSweep, TryExclusive, CleanupBackupLeftovers,
       CrashDuringBackup
  <2> HIDE DEF IdleOp
  <2> QED BY <1>0, <2>1, <2>2
<1>5. /\ manual' \in {"idle", "build", "send"} /\ sweeper' \in {"idle", "claimed", "sweep"}
      /\ keeping' \in BOOLEAN
  BY DEF BackupDirNext, Backups, Manual, Uploads, Pruning, Readers, Sweeps, RunScheduledBackup,
     WriteBackupArchive, DedupeAndVerify, CommitScheduled, PruneAfterScheduled, HandleBackupNow,
     BuildManualBackup, SendManualBackup, HandleUploadBackup, CheckUploadedBackup, CommitUpload,
     StartUploadPrune, PruneBackups, DeleteExcess, SettlePrune, PinBackup, opVars, lockVars,
     UnpinBackup, HandleDeleteBackup, DamageFile, RotSilently, ForgetVerified, ClaimSweep, TryExclusive,
     CleanupBackupLeftovers, CrashDuringBackup, OpsTyped
<1>6. runMu' \in {NoOne, "sched", "manual", "sweep"} /\ heavyMu' \in {NoOne, "upload", "sweep"}
  BY DEF BackupDirNext, Backups, Manual, Uploads, Pruning, Readers, Sweeps, RunScheduledBackup,
     WriteBackupArchive, DedupeAndVerify, CommitScheduled, PruneAfterScheduled, HandleBackupNow,
     BuildManualBackup, SendManualBackup, HandleUploadBackup, CheckUploadedBackup, CommitUpload,
     StartUploadPrune, EndUpload, PruneBackups, DeleteExcess, SettlePrune, PinBackup, lockVars,
     UnpinBackup, HandleDeleteBackup, DamageFile, RotSilently, ForgetVerified, ClaimSweep, TryExclusive,
     CleanupBackupLeftovers, CrashDuringBackup, OpsTyped
<1> QED BY <1>1, <1>2, <1>3, <1>4, <1>5, <1>6 DEF OpsTyped

\* Who holds a lock keeps its file: a sweep needs both locks.
LEMMA LocksStep ==
    ASSUME OpsTyped, LocksHeld, PassesGood, BackupDirNext PROVE LocksHeld'
<1> USE DEF OpsTyped, LocksHeld, LiveTempsKept, NoOne
<1>0. IdleOp.pc = "idle"
  BY DEF IdleOp
<1>1. CASE RunScheduledBackup
  BY <1>1 DEF RunScheduledBackup
<1>2. CASE WriteBackupArchive
  BY <1>0, <1>2 DEF WriteBackupArchive
<1>3. CASE DedupeAndVerify
  BY <1>0, <1>3 DEF DedupeAndVerify
<1>4. CASE CommitScheduled
  BY <1>4 DEF CommitScheduled
<1>5. CASE PruneAfterScheduled
  <2>1. scheduled'.pc = "pruning"
    BY <1>5 DEF PruneAfterScheduled, IdleOp
  <2> QED BY <1>5, <2>1 DEF PruneAfterScheduled, lockVars
<1>6. CASE Manual
  BY <1>6 DEF Manual, HandleBackupNow, BuildManualBackup, SendManualBackup, lockVars
<1>7. CASE HandleUploadBackup
  BY <1>7 DEF HandleUploadBackup
<1>8. CASE CheckUploadedBackup \/ CommitUpload
  BY <1>0, <1>8 DEF CheckUploadedBackup, CommitUpload, EndUpload
<1>9. CASE StartUploadPrune
  BY <1>9 DEF StartUploadPrune, lockVars
<1>10. CASE Pruning
  <2>1. ASSUME NEW p \in Pools, PruneBackups(p) \/ DeleteExcess(p) PROVE LocksHeld'
    BY <2>1 DEF PruneBackups, DeleteExcess, lockVars
  <2>2. ASSUME NEW p \in Pools, SettlePrune(p) PROVE LocksHeld'
    <3>1. p = "sched" => scheduled.pc = "pruning"
      BY <2>2 DEF SettlePrune, PassesGood
    <3> QED BY <1>0, <2>2, <3>1 DEF SettlePrune, lockVars
  <2> QED BY <1>10, <2>1, <2>2 DEF Pruning
<1>11. CASE Readers
  BY <1>11 DEF Readers, PinBackup, UnpinBackup, HandleDeleteBackup, DamageFile, RotSilently, ForgetVerified, lockVars, opVars
<1>12. CASE Sweeps
  BY <1>12 DEF Sweeps, ClaimSweep, TryExclusive, CleanupBackupLeftovers
<1>13. CASE CrashDuringBackup
  BY <1>0, <1>13 DEF CrashDuringBackup
<1> QED BY <1>1, <1>2, <1>3, <1>4, <1>5, <1>6, <1>7, <1>8, <1>9, <1>10, <1>11, <1>12, <1>13
     DEF BackupDirNext, Backups, Uploads
\* The names and the passes of the two pools.
LEMMA TwoPools == "sched" \in Pools /\ "upload" \in Pools /\ "sched" # "upload"
                  /\ \A p \in Pools : p = "sched" \/ p = "upload"
BY DEF Pools

\* A new name is above all others, in its pool and in no other.
LEMMA Committed ==
    ASSUME DirTyped, NEW p \in Pools, NEW c \in Contents, CommitBackupFile(p, c)
    PROVE /\ stamp' \in 0 .. MaxFiles /\ DOMAIN dirFiles' \subseteq 1 .. stamp'
          /\ \A n \in DOMAIN dirFiles' : dirFiles'[n] \in Kinds
          /\ owed' \in [Pools -> Nat]
          /\ Counted(p)' = Counted(p) \cup {stamp + 1} /\ stamp + 1 \notin DOMAIN dirFiles
          /\ \A q \in Pools \ {p} : Counted(q)' = Counted(q) /\ owed'[q] = owed[q]
          /\ owed'[p] = Least(Retention, owed[p] + 1)
          /\ \A n \in DOMAIN dirFiles : dirFiles'[n] = dirFiles[n]
          /\ \A n \in DOMAIN dirFiles' : n \notin DOMAIN dirFiles => n = stamp + 1
<1>1. stamp \in Nat /\ stamp' = stamp + 1 /\ stamp' \in 0 .. MaxFiles /\ stamp' \in 1 .. stamp'
      /\ \A n \in 1 .. stamp : n \in 1 .. stamp' /\ n # stamp + 1
  BY DirNumbers DEF CommitBackupFile, DirTyped
<1>2. DOMAIN dirFiles' = DOMAIN dirFiles \cup {stamp + 1}
  BY DEF CommitBackupFile
<1>3. DOMAIN dirFiles \subseteq 1 .. stamp /\ stamp + 1 \notin DOMAIN dirFiles
  BY <1>1 DEF DirTyped
<1>4. dirFiles'[stamp + 1] = File(p, c) /\ \A n \in DOMAIN dirFiles : dirFiles'[n] = dirFiles[n]
  BY <1>3 DEF CommitBackupFile
<1>5. File(p, c) \in Kinds /\ File(p, c).pool = p /\ Counts(File(p, c))
  BY DEF File, AllFiles, Kinds, Counts
<1>6. \A n \in DOMAIN dirFiles' : dirFiles'[n] \in Kinds
  BY <1>2, <1>4, <1>5 DEF DirTyped
<1>7. owed' = [owed EXCEPT ![p] = Least(Retention, owed[p] + 1)]
  BY DEF CommitBackupFile
<1>8. owed[p] \in Nat /\ Least(Retention, owed[p] + 1) \in Nat
  BY DirNumbers DEF DirTyped, Least
<1>9. owed' \in [Pools -> Nat] /\ owed'[p] = Least(Retention, owed[p] + 1)
      /\ \A q \in Pools \ {p} : owed'[q] = owed[q]
  BY <1>7, <1>8 DEF DirTyped
<1>10. Counted(p)' = Counted(p) \cup {stamp + 1} /\ \A q \in Pools \ {p} : Counted(q)' = Counted(q)
  BY <1>2, <1>3, <1>4, <1>5 DEF Counted, InPool
<1> QED BY <1>1, <1>2, <1>3, <1>4, <1>6, <1>9, <1>10

\* A file others take away, or that is found damaged, leaves its pool's good ones.
LEMMA LostFile ==
    ASSUME DirTyped, NEW n \in Names, LosesFile(n)
    PROVE /\ n \in DOMAIN dirFiles /\ DOMAIN dirFiles' \subseteq DOMAIN dirFiles
          /\ \A m \in DOMAIN dirFiles' : dirFiles'[m] \in Kinds /\ dirFiles'[m].pool = dirFiles[m].pool
          /\ UNCHANGED <<stamp, prune, spared, scheduled>>
          /\ dirFiles[n].pool \in Pools
          /\ owed' = [owed EXCEPT ![dirFiles[n].pool] =
                        Least(@, Cardinality(Counted(dirFiles[n].pool) \ (Doomed(dirFiles[n].pool) \cup {n})))]
          /\ \A q \in Pools : Counted(q)' = Counted(q) \ {n}
<1>1. n \in DOMAIN dirFiles /\ dirFiles[n] \in Kinds /\ dirFiles[n].pool \in Pools
  BY DEF DirTyped, Kinds, AllFiles, LosesFile, HandleDeleteBackup, Deletable, DamageFile, ForgetVerified
<1>2. UNCHANGED <<stamp, prune, spared, scheduled>> /\ Lose(n)
  BY DEF LosesFile, HandleDeleteBackup, DamageFile, ForgetVerified, opVars
<1>3. CASE HandleDeleteBackup(n)
  BY <1>1, <1>2, <1>3 DEF HandleDeleteBackup, Without, DirTyped, Counted, InPool, Lose, Doomed
<1>4. ASSUME NEW f \in Kinds, f.pool = dirFiles[n].pool, ~Counts(f), dirFiles' = [dirFiles EXCEPT ![n] = f]
      PROVE /\ DOMAIN dirFiles' \subseteq DOMAIN dirFiles
            /\ \A m \in DOMAIN dirFiles' : dirFiles'[m] \in Kinds /\ dirFiles'[m].pool = dirFiles[m].pool
            /\ \A q \in Pools : Counted(q)' = Counted(q) \ {n}
  <2>1. DOMAIN dirFiles' = DOMAIN dirFiles /\ dirFiles'[n] = f
        /\ \A m \in DOMAIN dirFiles \ {n} : dirFiles'[m] = dirFiles[m]
    BY <1>1, <1>4
  <2> QED BY <1>4, <2>1 DEF DirTyped, Counted, InPool
<1>5. CASE DamageFile(n)
  <2>1. PICK v \in dirFiles[n].version .. 1 :
          dirFiles' = [dirFiles EXCEPT ![n] = [@ EXCEPT !.good = FALSE, !.trusted = FALSE, !.version = v]]
    BY <1>5 DEF DamageFile
  <2> DEFINE f == [dirFiles[n] EXCEPT !.good = FALSE, !.trusted = FALSE, !.version = v]
  <2>2. v \in 0 .. 1
    BY <1>1 DEF Kinds, AllFiles
  <2>3. f \in Kinds /\ f.pool = dirFiles[n].pool /\ ~Counts(f)
    BY <1>1, <2>2 DEF Kinds, AllFiles, Counts
  <2>4. dirFiles' = [dirFiles EXCEPT ![n] = f]
    BY <2>1
  <2> HIDE DEF f
  <2> QED BY <1>1, <1>2, <1>4, <2>3, <2>4 DEF Lose, Doomed
<1>6. CASE ForgetVerified(n)
  <2> DEFINE f == [dirFiles[n] EXCEPT !.trusted = FALSE]
  <2>1. dirFiles' = [dirFiles EXCEPT ![n] = f] /\ dirFiles[n].trusted
    BY <1>6 DEF ForgetVerified
  <2>2. f \in Kinds /\ f.pool = dirFiles[n].pool /\ ~Counts(f)
    BY <1>1, <2>1 DEF Kinds, AllFiles, Counts
  <2> HIDE DEF f
  <2> QED BY <1>1, <1>2, <1>4, <2>1, <2>2 DEF Lose, Doomed
<1> QED BY <1>3, <1>5, <1>6 DEF LosesFile

\* What rots without a sign still counts.
LEMMA Rotted ==
    ASSUME DirTyped, NEW n \in Names, RotSilently(n)
    PROVE /\ DOMAIN dirFiles' = DOMAIN dirFiles
          /\ \A m \in DOMAIN dirFiles' : dirFiles'[m] \in Kinds /\ dirFiles'[m].pool = dirFiles[m].pool
          /\ UNCHANGED <<stamp, prune, spared, scheduled, owed>>
          /\ \A q \in Pools : Counted(q)' = Counted(q)
<1> DEFINE f == [dirFiles[n] EXCEPT !.good = FALSE, !.trusted = TRUE]
<1>1. n \in DOMAIN dirFiles /\ dirFiles[n] \in Kinds /\ Counts(dirFiles[n])
  BY DEF DirTyped, RotSilently, Counts
<1>2. f \in Kinds /\ f.pool = dirFiles[n].pool /\ Counts(f)
  BY <1>1 DEF Kinds, AllFiles, Counts
<1>3. dirFiles' = [dirFiles EXCEPT ![n] = f] /\ UNCHANGED <<stamp, prune, spared, scheduled, owed>>
  BY DEF RotSilently, opVars
<1> HIDE DEF f
<1>4. DOMAIN dirFiles' = DOMAIN dirFiles /\ dirFiles'[n] = f
      /\ \A m \in DOMAIN dirFiles \ {n} : dirFiles'[m] = dirFiles[m]
  BY <1>1, <1>3
<1> QED BY <1>1, <1>2, <1>3, <1>4 DEF DirTyped, Counted, InPool

\* After a crash only the good files count, and no more of them is owed.
LEMMA Crashed ==
    ASSUME DirTyped, CrashDuringBackup
    PROVE /\ DOMAIN dirFiles' = DOMAIN dirFiles
          /\ \A m \in DOMAIN dirFiles' : dirFiles'[m] \in Kinds
          /\ \A p \in Pools : /\ Counted(p)' = Good(p) /\ Good(p) \subseteq Counted(p)
                              /\ owed'[p] = Least(owed[p], Cardinality(Good(p)))
                              /\ prune'[p] = IdlePass /\ spared'[p]
          /\ DOMAIN owed' = Pools
<1>1. dirFiles' = [n \in DOMAIN dirFiles |-> [dirFiles[n] EXCEPT !.trusted = FALSE]]
  BY DEF CrashDuringBackup
<1>2. DOMAIN dirFiles' = DOMAIN dirFiles
      /\ \A n \in DOMAIN dirFiles : dirFiles'[n] = [dirFiles[n] EXCEPT !.trusted = FALSE]
  BY <1>1
<1>3. ASSUME NEW n \in DOMAIN dirFiles
      PROVE dirFiles'[n] \in Kinds /\ dirFiles'[n].pool = dirFiles[n].pool
            /\ (Counts(dirFiles'[n]) <=> dirFiles[n].good)
  <2>1. dirFiles[n] \in Kinds /\ dirFiles'[n] = [dirFiles[n] EXCEPT !.trusted = FALSE]
    BY <1>2 DEF DirTyped
  <2> QED BY <2>1 DEF Kinds, AllFiles, Counts
<1>4. ASSUME NEW p \in Pools PROVE Counted(p)' = Good(p) /\ Good(p) \subseteq Counted(p)
  <2>1. Good(p) \subseteq Counted(p)
    BY DEF Good, Counted, Counts
  <2>2. Counted(p)' = {n \in DOMAIN dirFiles' : dirFiles'[n].pool = p /\ Counts(dirFiles'[n])}
    BY DEF Counted, InPool, Counts
  <2>3. Good(p) = {n \in DOMAIN dirFiles : dirFiles[n].pool = p /\ dirFiles[n].good}
    BY DEF Good, InPool
  <2> QED BY <1>2, <1>3, <2>1, <2>2, <2>3
<1> QED BY <1>2, <1>3, <1>4 DEF CrashDuringBackup

\* What each step of a pass does to its record.
LEMMA PassTyped ==
    ASSUME DirTyped, PruneAfterScheduled \/ StartUploadPrune
                     \/ \E p \in Pools : PruneBackups(p) \/ DeleteExcess(p) \/ SettlePrune(p)
    PROVE prune' \in [Pools -> PassRecord]
<1>1. \A p \in Pools : prune[p] \in PassRecord
  BY DEF DirTyped
<1>2. ASSUME NEW p \in Pools, RequestPrune(p) PROVE prune' \in [Pools -> PassRecord]
  <2>1. /\ [prune[p] EXCEPT !.pc = "list", !.asked = FALSE] \in PassRecord
        /\ [prune[p] EXCEPT !.again = TRUE, !.asked = FALSE] \in PassRecord
    BY <1>1 DEF PassRecord
  <2> QED BY <1>2, <2>1 DEF RequestPrune, DirTyped
<1>3. ASSUME NEW p \in Pools, PruneBackups(p) PROVE prune' \in [Pools -> PassRecord]
  <2>1. CASE prune' = [prune EXCEPT ![p] = [prune[p] EXCEPT !.pc = "settle"]]
    <3>1. [prune[p] EXCEPT !.pc = "settle"] \in PassRecord
      BY <1>1 DEF PassRecord
    <3> QED BY <2>1, <3>1 DEF DirTyped
  <2>2. ASSUME NEW E \in SUBSET [name : Names, version : 0 .. 1],
               prune' = [prune EXCEPT ![p] = [prune[p] EXCEPT !.pc = "delete", !.excess = E]]
        PROVE prune' \in [Pools -> PassRecord]
    <3>1. [prune[p] EXCEPT !.pc = "delete", !.excess = E] \in PassRecord
      BY <1>1 DEF PassRecord
    <3> QED BY <2>2, <3>1 DEF DirTyped
  <2>3. \A X \in SUBSET DOMAIN dirFiles :
          {[name |-> n, version |-> dirFiles[n].version] : n \in X} \in SUBSET [name : Names, version : 0 .. 1]
    <3>1. 1 .. stamp \subseteq Names
      BY DirNumbers DEF DirTyped, Names
    <3>2. \A n \in DOMAIN dirFiles : n \in Names /\ dirFiles[n].version \in 0 .. 1
      BY <3>1 DEF DirTyped, Kinds, AllFiles
    <3> QED BY <3>2
  <2>4. \A unread : Excess(p, unread) \subseteq DOMAIN dirFiles
    BY DEF Excess, Counted, InPool
  <2>5. ASSUME NEW unread, prune' = [prune EXCEPT ![p] = [prune[p] EXCEPT !.pc = "delete",
                 !.excess = IF Retention = 0 THEN {} ELSE
                   {[name |-> n, version |-> dirFiles[n].version] : n \in Excess(p, unread)}]]
        PROVE prune' \in [Pools -> PassRecord]
    <3> DEFINE E == IF Retention = 0 THEN {} ELSE
                      {[name |-> n, version |-> dirFiles[n].version] : n \in Excess(p, unread)}
    <3>1. E \in SUBSET [name : Names, version : 0 .. 1]
      BY <2>3, <2>4
    <3>2. prune' = [prune EXCEPT ![p] = [prune[p] EXCEPT !.pc = "delete", !.excess = E]]
      BY <2>5
    <3> HIDE DEF E
    <3> QED BY <2>2, <3>1, <3>2
  <2>6. \/ prune' = [prune EXCEPT ![p] = [prune[p] EXCEPT !.pc = "settle"]]
        \/ \E unread : prune' = [prune EXCEPT ![p] = [prune[p] EXCEPT !.pc = "delete",
                 !.excess = IF Retention = 0 THEN {} ELSE
                   {[name |-> n, version |-> dirFiles[n].version] : n \in Excess(p, unread)}]]
    BY <1>3 DEF PruneBackups
  <2> QED BY <2>1, <2>5, <2>6
<1>4. ASSUME NEW p \in Pools, DeleteExcess(p) PROVE prune' \in [Pools -> PassRecord]
  <2>1. prune' = [prune EXCEPT ![p] = [prune[p] EXCEPT !.pc = "settle", !.excess = {}]]
    BY <1>4 DEF DeleteExcess
  <2>2. [prune[p] EXCEPT !.pc = "settle", !.excess = {}] \in PassRecord
    BY <1>1 DEF PassRecord
  <2> QED BY <2>1, <2>2 DEF DirTyped
<1>5. ASSUME NEW p \in Pools, SettlePrune(p) PROVE prune' \in [Pools -> PassRecord]
  <2> DEFINE s == IF prune[p].again THEN "list" ELSE "idle"
  <2>1. prune' = [prune EXCEPT ![p] = [prune[p] EXCEPT !.pc = s, !.again = FALSE]]
    BY <1>5 DEF SettlePrune
  <2> HIDE DEF s
  <2>0. s \in {"list", "idle"}
    BY DEF s
  <2>2. [prune[p] EXCEPT !.pc = s, !.again = FALSE] \in PassRecord
    BY <1>1, <2>0 DEF PassRecord
  <2> QED BY <2>1, <2>2 DEF DirTyped
<1> QED BY <1>2, <1>3, <1>4, <1>5, TwoPools DEF PruneAfterScheduled, StartUploadPrune

\* The backups, the passes and the history keep their types.
LEMMA DirTypedStep ==
    ASSUME DirTyped, OpsTyped, PassesGood, BackupDirNext PROVE DirTyped'
<1>1. CASE Around
  BY <1>1, AroundKeeps DEF DirTyped
<1>2. CASE Passing
  <2>1. stamp' = stamp /\ owed' = owed
    BY <1>2 DEF Passing, PruneAfterScheduled, StartUploadPrune, PruneBackups, DeleteExcess,
       SettlePrune
  <2>2. spared' \in [Pools -> BOOLEAN]
    BY <1>2 DEF Passing, PruneAfterScheduled, StartUploadPrune, PruneBackups, DeleteExcess,
       SettlePrune,
       DirTyped
  <2>3. dirFiles' = dirFiles \/ \E D : dirFiles' = Without(dirFiles, D)
    BY <1>2 DEF Passing, PruneAfterScheduled, StartUploadPrune, PruneBackups, DeleteExcess,
       SettlePrune
  <2>4. DOMAIN dirFiles' \subseteq 1 .. stamp' /\ \A n \in DOMAIN dirFiles' : dirFiles'[n] \in Kinds
    BY <2>1, <2>3 DEF Without, DirTyped
  <2>5. prune' \in [Pools -> PassRecord]
    BY <1>2, PassTyped DEF Passing
  <2> QED BY <2>1, <2>2, <2>4, <2>5 DEF DirTyped
<1>3. CASE CommitScheduled
  <2>1. scheduled.content \in Contents /\ CommitBackupFile("sched", scheduled.content)
        /\ prune' = prune /\ spared' = spared
    BY <1>3 DEF CommitScheduled, OpsTyped
  <2> QED BY <2>1, Committed, TwoPools DEF DirTyped
<1>4. CASE CommitUpload
  <2>1. spared' = spared
    BY <1>4 DEF CommitUpload
  <2>2. CASE UNCHANGED <<dirFiles, stamp, owed, prune>>
    BY <2>1, <2>2 DEF DirTyped
  <2>3. CASE ~UNCHANGED <<dirFiles, stamp, owed, prune>>
    <3>1. /\ uploading.content \in Contents /\ CommitBackupFile("upload", uploading.content)
          /\ prune' = [prune EXCEPT !["upload"] = [prune["upload"] EXCEPT !.asked = TRUE]]
      BY <1>4, <2>3 DEF CommitUpload, OpsTyped
    <3>2. prune' \in [Pools -> PassRecord]
      BY <3>1, TwoPools DEF DirTyped, PassRecord
    <3> QED BY <2>1, <3>1, <3>2, Committed, TwoPools DEF DirTyped
  <2> QED BY <2>2, <2>3
<1>5. CASE Losing
  <2>1. PICK n \in Names : LosesFile(n)
    BY <1>5 DEF Losing
  <2> DEFINE p == dirFiles[n].pool
             r == Least(owed[p], Cardinality(Counted(p) \ (Doomed(p) \cup {n})))
  <2>2. p \in Pools /\ owed' = [owed EXCEPT ![p] = r]
    BY <2>1, LostFile
  <2>3. Counted(p) \ (Doomed(p) \cup {n}) \subseteq Unchosen(p)
    BY DEF Unchosen
  <2>4. r \in Nat
    BY <2>2, <2>3, UnchosenFinite, FS_Subset, FS_CardinalityType DEF Least, DirTyped
  <2>5. owed' \in [Pools -> Nat]
    <3> HIDE DEF r
    <3> QED BY <2>2, <2>4 DEF DirTyped
  <2>6. DOMAIN dirFiles' \subseteq 1 .. stamp' /\ UNCHANGED <<stamp, prune, spared>>
        /\ \A m \in DOMAIN dirFiles' : dirFiles'[m] \in Kinds
    BY <2>1, LostFile DEF DirTyped
  <2> QED BY <2>5, <2>6 DEF DirTyped
<1>6. CASE Rotting
  BY <1>6, Rotted DEF Rotting, DirTyped
<1>7. CASE CrashDuringBackup
  <2>1. IdlePass \in PassRecord
    BY DEF IdlePass, PassRecord
  <2>2. \A p \in Pools : Least(owed[p], Cardinality(Good(p))) \in Nat
    BY <1>7, Crashed, UnchosenFinite, FS_Subset, FS_CardinalityType DEF Least, DirTyped
  <2>3. owed' \in [Pools -> Nat]
    BY <1>7, <2>2 DEF CrashDuringBackup
  <2>4. /\ prune' \in [Pools -> PassRecord] /\ spared' \in [Pools -> BOOLEAN] /\ stamp' = stamp
    BY <1>7, <2>1 DEF CrashDuringBackup
  <2>5. stamp' \in 0 .. MaxFiles /\ DOMAIN dirFiles' \subseteq 1 .. stamp'
        /\ \A n \in DOMAIN dirFiles' : dirFiles'[n] \in Kinds
    BY <1>7, <2>4, Crashed DEF DirTyped
  <2> QED BY <2>3, <2>4, <2>5 DEF DirTyped
<1> QED BY <1>1, <1>2, <1>3, <1>4, <1>5, <1>6, <1>7, DirSteps
-----------------------------------------------------------------------------
(* The steps of a pass, one by one. *)

LEMMA Requested ==
    ASSUME DirTyped, NEW p \in Pools, RequestPrune(p)
    PROVE /\ ~prune'[p].asked /\ Doomed(p)' = Doomed(p) /\ prune'[p].excess = prune[p].excess
          /\ prune[p].pc = "idle" => prune'[p].pc = "list" /\ prune'[p].again = prune[p].again
          /\ prune[p].pc # "idle" => prune'[p].pc = prune[p].pc /\ prune'[p].again
          /\ \A q \in Pools \ {p} : prune'[q] = prune[q] /\ Doomed(q)' = Doomed(q)
<1>1. prune[p] \in PassRecord
  BY DEF DirTyped
<1>2. prune' = [prune EXCEPT ![p] = prune'[p]]
  BY DEF RequestPrune, DirTyped
<1>3. /\ prune[p].pc = "idle" => prune'[p] = [prune[p] EXCEPT !.pc = "list", !.asked = FALSE]
      /\ prune[p].pc # "idle" => prune'[p] = [prune[p] EXCEPT !.again = TRUE, !.asked = FALSE]
  BY DEF RequestPrune, DirTyped
<1>4. ~prune'[p].asked /\ prune'[p].excess = prune[p].excess
      /\ (prune[p].pc = "idle" => prune'[p].pc = "list" /\ prune'[p].again = prune[p].again)
      /\ (prune[p].pc # "idle" => prune'[p].pc = prune[p].pc /\ prune'[p].again)
  BY <1>1, <1>3 DEF PassRecord
<1> QED BY <1>2, <1>4 DEF Doomed, DirTyped

\* A pass chooses all but the newest of those it could verify: what is left is within
\* the budget if it could verify all, and at the budget when there is enough.
LEMMA Left ==
    ASSUME DirTyped, NEW p \in Pools, NEW unread, Retention > 0
    PROVE /\ Excess(p, unread) \subseteq Counted(p)
          /\ Cardinality(Counted(p) \ Excess(p, unread)) >= Least(Retention, Cardinality(Counted(p)))
          /\ unread = {} => Cardinality(Counted(p) \ Excess(p, unread)) <= Retention
<1> DEFINE read == Counted(p) \ unread
           kept == Counted(p) \ Excess(p, unread)
<1>1. /\ Excess(p, unread) = {n \in read : Cardinality(Above(read, n)) >= Retention}
      /\ Excess(p, unread) \subseteq read /\ read \subseteq Counted(p)
  BY DEF Excess, Above
<1>2. IsFiniteSet(read) /\ Cardinality(read) \in Nat /\ \A n \in read : n \in Nat
  BY <1>1, UnchosenFinite, FS_Subset, FS_CardinalityType
<1>3. \A n \in read : Cardinality(Above(read, n)) \in Nat
  <2>1. \A n \in read : Above(read, n) \subseteq read
    BY DEF Above
  <2> QED BY <1>2, <2>1, FS_Subset, FS_CardinalityType
<1>4. Latest(read, Retention) = read \ Excess(p, unread)
  BY <1>1, <1>3, DirNumbers DEF Latest
<1>5. IsFiniteSet(kept) /\ Cardinality(kept) \in Nat /\ Cardinality(Counted(p)) \in Nat
  <2>1. kept \subseteq Counted(p)
    OBVIOUS
  <2> QED BY <2>1, UnchosenFinite, FS_Subset, FS_CardinalityType
<1>6. Latest(read, Retention) \subseteq kept
  BY <1>1, <1>4
<1>7. Cardinality(Latest(read, Retention)) =
         IF Cardinality(read) <= Retention THEN Cardinality(read) ELSE Retention
  BY <1>2, LatestCount, DirNumbers
<1>8. unread = {} => kept = Latest(read, Retention)
  BY <1>4
<1> HIDE DEF read, kept
<1>9. CASE Cardinality(read) <= Retention
  <2>1. Latest(read, Retention) = read
    <3>1. Latest(read, Retention) \subseteq read
      BY DEF Latest
    <3> QED BY <1>2, <1>7, <1>9, <3>1, FS_Subset
  <2>2. Excess(p, unread) = {}
    BY <1>1, <1>4, <2>1
  <2>3. kept = Counted(p)
    BY <2>2 DEF kept
  <2>4. Cardinality(kept) >= Least(Retention, Cardinality(Counted(p)))
    BY <1>5, <2>3, DirNumbers DEF Least
  <2>5. unread = {} => Cardinality(kept) <= Retention
    BY <1>7, <1>8, <1>9
  <2> QED BY <1>1, <2>4, <2>5 DEF kept
<1>10. CASE ~(Cardinality(read) <= Retention)
  <2>1. Cardinality(kept) >= Retention
    BY <1>5, <1>6, <1>7, <1>10, FS_Subset, DirNumbers
  <2>2. Cardinality(kept) >= Least(Retention, Cardinality(Counted(p)))
    BY <1>5, <2>1, DirNumbers DEF Least
  <2>3. unread = {} => Cardinality(kept) <= Retention
    BY <1>7, <1>8, <1>10, DirNumbers
  <2> QED BY <1>1, <2>2, <2>3 DEF kept
<1> QED BY <1>9, <1>10

LEMMA Chosen ==
    ASSUME DirTyped, NEW p \in Pools, prune[p].excess = {}, PruneBackups(p)
    PROVE /\ prune'[p].pc \in {"delete", "settle"} /\ prune'[p].again = prune[p].again
          /\ prune'[p].asked = prune[p].asked
          /\ prune'[p].pc = "settle" => prune'[p].excess = {}
          /\ Doomed(p)' \subseteq Counted(p)
          /\ Counted(p)' = Counted(p) /\ UNCHANGED <<dirFiles, stamp, owed, scheduled>>
          /\ Retention > 0 /\ ~spared'[p] => Cardinality(Unchosen(p)') <= Retention
          /\ Cardinality(Unchosen(p)') >= Least(Retention, Cardinality(Counted(p)))
          /\ \A q \in Pools \ {p} : prune'[q] = prune[q] /\ spared'[q] = spared[q]
<1>1. Counted(p)' = Counted(p) /\ UNCHANGED <<dirFiles, stamp, owed, scheduled>>
  BY DEF PruneBackups, Counted, InPool
<1>2. Unchosen(p)' = Counted(p) \ Doomed(p)'
  BY <1>1 DEF Unchosen
<1>3. Cardinality(Counted(p)) \in Nat /\ Retention \in Nat
  BY UnchosenFinite, DirNumbers
<1>4. CASE /\ Retention > 0 /\ spared' = [spared EXCEPT ![p] = TRUE]
           /\ prune' = [prune EXCEPT ![p] = [prune[p] EXCEPT !.pc = "settle"]]
  <2>1. /\ prune'[p].pc = "settle" /\ prune'[p].excess = {} /\ prune'[p].again = prune[p].again
        /\ prune'[p].asked = prune[p].asked /\ spared'[p]
        /\ \A q \in Pools \ {p} : prune'[q] = prune[q] /\ spared'[q] = spared[q]
    BY <1>4 DEF DirTyped, PassRecord
  <2>2. Doomed(p)' = {}
    BY <2>1 DEF Doomed
  <2>3. Cardinality(Unchosen(p)') >= Least(Retention, Cardinality(Counted(p)))
    BY <1>2, <1>3, <2>2 DEF Least
  <2> QED BY <1>1, <2>1, <2>2, <2>3
<1>5. ASSUME NEW unread, spared' = [spared EXCEPT ![p] = unread # {}],
             prune' = [prune EXCEPT ![p] = [prune[p] EXCEPT !.pc = "delete",
                !.excess = IF Retention = 0 THEN {} ELSE
                  {[name |-> n, version |-> dirFiles[n].version] : n \in Excess(p, unread)}]]
      PROVE /\ prune'[p].pc = "delete" /\ prune'[p].again = prune[p].again
            /\ prune'[p].asked = prune[p].asked /\ Doomed(p)' \subseteq Counted(p)
            /\ Retention > 0 /\ ~spared'[p] => Cardinality(Unchosen(p)') <= Retention
            /\ Cardinality(Unchosen(p)') >= Least(Retention, Cardinality(Counted(p)))
            /\ \A q \in Pools \ {p} : prune'[q] = prune[q] /\ spared'[q] = spared[q]
  <2> DEFINE E == IF Retention = 0 THEN {} ELSE
                    {[name |-> n, version |-> dirFiles[n].version] : n \in Excess(p, unread)}
  <2>1. prune' = [prune EXCEPT ![p] = [prune[p] EXCEPT !.pc = "delete", !.excess = E]]
    BY <1>5
  <2>2. Doomed(p)' = {d.name : d \in prune'[p].excess}
    BY DEF Doomed
  <2>3. {d.name : d \in E} = IF Retention = 0 THEN {} ELSE Excess(p, unread)
    <3>1. CASE Retention = 0
      BY <3>1
    <3>2. CASE Retention # 0
      <4>1. \A d \in E : d.name \in Excess(p, unread)
        BY <3>2
      <4>2. ASSUME NEW n \in Excess(p, unread) PROVE \E d \in E : d.name = n
        <5>1. [name |-> n, version |-> dirFiles[n].version] \in E
          BY <3>2
        <5> QED BY <5>1
      <4> HIDE DEF E
      <4> QED BY <3>2, <4>1, <4>2
    <3> QED BY <3>1, <3>2
  <2> HIDE DEF E
  <2>4. /\ prune'[p].pc = "delete" /\ prune'[p].again = prune[p].again
        /\ prune'[p].asked = prune[p].asked /\ prune'[p].excess = E
        /\ \A q \in Pools \ {p} : prune'[q] = prune[q]
    BY <2>1 DEF DirTyped, PassRecord
  <2>5. (spared'[p] <=> unread # {}) /\ \A q \in Pools \ {p} : spared'[q] = spared[q]
    BY <1>5 DEF DirTyped
  <2>6. Doomed(p)' = IF Retention = 0 THEN {} ELSE Excess(p, unread)
    BY <2>2, <2>3, <2>4
  <2>7. CASE Retention = 0
    <3>1. Unchosen(p)' = Counted(p) /\ Doomed(p)' = {}
      BY <1>2, <2>6, <2>7
    <3>2. Cardinality(Unchosen(p)') >= Least(Retention, Cardinality(Counted(p)))
      BY <1>3, <3>1, <2>7 DEF Least
    <3> QED BY <2>4, <2>5, <2>7, <3>1, <3>2
  <2>8. CASE Retention # 0
    <3>1. Retention > 0 /\ Unchosen(p)' = Counted(p) \ Excess(p, unread)
          /\ Doomed(p)' = Excess(p, unread)
      BY <1>2, <1>3, <2>6, <2>8
    <3> QED BY <2>4, <2>5, <3>1, Left
  <2> QED BY <2>7, <2>8
<1>6. CASE prune' = [prune EXCEPT ![p].pc = "settle"] /\ spared' = [spared EXCEPT ![p] = TRUE]
           /\ Retention > 0
  BY <1>1, <1>4, <1>6
<1>7. CASE \E unread : /\ spared' = [spared EXCEPT ![p] = unread # {}]
                       /\ prune' = [prune EXCEPT ![p] = [prune[p] EXCEPT !.pc = "delete",
                            !.excess = IF Retention = 0 THEN {} ELSE
                              {[name |-> n, version |-> dirFiles[n].version] : n \in Excess(p, unread)}]]
  <2>1. PICK unread :
          /\ spared' = [spared EXCEPT ![p] = unread # {}]
          /\ prune' = [prune EXCEPT ![p] = [prune[p] EXCEPT !.pc = "delete",
               !.excess = IF Retention = 0 THEN {} ELSE
                 {[name |-> n, version |-> dirFiles[n].version] : n \in Excess(p, unread)}]]
    BY <1>7
  <2>2. /\ prune'[p].pc = "delete" /\ prune'[p].again = prune[p].again
        /\ prune'[p].asked = prune[p].asked /\ Doomed(p)' \subseteq Counted(p)
        /\ Retention > 0 /\ ~spared'[p] => Cardinality(Unchosen(p)') <= Retention
        /\ Cardinality(Unchosen(p)') >= Least(Retention, Cardinality(Counted(p)))
        /\ \A q \in Pools \ {p} : prune'[q] = prune[q] /\ spared'[q] = spared[q]
    BY <1>5, <2>1
  <2> QED BY <1>1, <2>2
<1>8. CASE \E unread \in SUBSET InPool(p) :
             /\ unread = {} \/ Cardinality(InPool(p)) > Retention
             /\ prune' = [prune EXCEPT ![p].pc = "delete",
                            ![p].excess = IF Retention = 0 THEN {} ELSE
                              {[name |-> n, version |-> dirFiles[n].version] : n \in Excess(p, unread)}]
             /\ spared' = [spared EXCEPT ![p] = unread # {}]
  <2>1. PICK unread :
          /\ prune' = [prune EXCEPT ![p].pc = "delete",
                         ![p].excess = IF Retention = 0 THEN {} ELSE
                           {[name |-> n, version |-> dirFiles[n].version] : n \in Excess(p, unread)}]
          /\ spared' = [spared EXCEPT ![p] = unread # {}]
    BY <1>8
  <2>2. prune' = [prune EXCEPT ![p] = [prune[p] EXCEPT !.pc = "delete",
                    !.excess = IF Retention = 0 THEN {} ELSE
                      {[name |-> n, version |-> dirFiles[n].version] : n \in Excess(p, unread)}]]
    BY <2>1
  <2> QED BY <1>7, <2>1, <2>2
<1>9. \/ Retention > 0 /\ prune' = [prune EXCEPT ![p].pc = "settle"]
           /\ spared' = [spared EXCEPT ![p] = TRUE]
      \/ \E unread \in SUBSET InPool(p) :
             /\ unread = {} \/ Cardinality(InPool(p)) > Retention
             /\ prune' = [prune EXCEPT ![p].pc = "delete",
                            ![p].excess = IF Retention = 0 THEN {} ELSE
                              {[name |-> n, version |-> dirFiles[n].version] : n \in Excess(p, unread)}]
             /\ spared' = [spared EXCEPT ![p] = unread # {}]
  BY Zenon DEF PruneBackups
<1> QED BY <1>6, <1>8, <1>9

\* A pass deletes nothing it has not chosen, and all of that unless it spares one.
LEMMA Deleted ==
    ASSUME DirTyped, PassesGood, NEW p \in Pools, DeleteExcess(p)
    PROVE /\ prune'[p].pc = "settle" /\ prune'[p].again = prune[p].again /\ prune'[p].asked = prune[p].asked
          /\ prune'[p].excess = {} /\ Doomed(p)' = {}
          /\ Unchosen(p) \subseteq Unchosen(p)'
          /\ ~spared'[p] => ~spared[p] /\ Unchosen(p)' = Unchosen(p)
          /\ \A q \in Pools \ {p} : /\ prune'[q] = prune[q] /\ spared'[q] = spared[q]
                                    /\ Counted(q)' = Counted(q)
          /\ DOMAIN dirFiles' \subseteq DOMAIN dirFiles
          /\ \A n \in DOMAIN dirFiles' : dirFiles'[n] = dirFiles[n]
          /\ UNCHANGED <<stamp, owed, scheduled>> /\ Unchosen(p)' \subseteq Counted(p)
<1> DEFINE todo == {d \in prune[p].excess : d.name \in DOMAIN dirFiles}
           dels == {d.name : d \in {x \in todo : x.name \notin pins
                                     /\ dirFiles[x.name].version = x.version}}
<1>1. PICK gone1 \in SUBSET dels :
        /\ dirFiles' = Without(dirFiles, gone1)
        /\ spared' = [spared EXCEPT ![p] = @ \/ {d.name : d \in todo} # gone1]
  BY DEF DeleteExcess
<1>2. prune' = [prune EXCEPT ![p] = [prune[p] EXCEPT !.pc = "settle", !.excess = {}]]
  BY DEF DeleteExcess
<1>3. /\ prune'[p].pc = "settle" /\ prune'[p].again = prune[p].again /\ prune'[p].asked = prune[p].asked
      /\ prune'[p].excess = {} /\ \A q \in Pools \ {p} : prune'[q] = prune[q]
  BY <1>2 DEF DirTyped, PassRecord
<1>4. Doomed(p)' = {}
  BY <1>3 DEF Doomed
<1>5. gone1 \subseteq Doomed(p) /\ gone1 \subseteq DOMAIN dirFiles
  BY <1>1 DEF Doomed
<1>6. \A n \in gone1 : dirFiles[n].pool = p
  BY <1>5 DEF PassesGood
<1>7. {d.name : d \in todo} = Doomed(p) \cap DOMAIN dirFiles
  BY DEF Doomed
<1>8. \A q \in Pools : spared'[q] = IF q = p THEN spared[p] \/ Doomed(p) \cap DOMAIN dirFiles # gone1
                                    ELSE spared[q]
  BY <1>1, <1>7 DEF DirTyped
<1> HIDE DEF dels, todo
<1>9. /\ DOMAIN dirFiles' = DOMAIN dirFiles \ gone1
      /\ \A n \in DOMAIN dirFiles' : dirFiles'[n] = dirFiles[n]
  BY <1>1 DEF Without
<1>10. \A q \in Pools : Counted(q)' = Counted(q) \ gone1
  BY <1>9 DEF Counted, InPool
<1>11. \A q \in Pools \ {p} : Counted(q)' = Counted(q)
  BY <1>6, <1>10 DEF Counted, InPool
<1>12. Unchosen(p)' = Counted(p) \ gone1
  BY <1>4, <1>10 DEF Unchosen
<1>13. Counted(p) \subseteq DOMAIN dirFiles
  BY DEF Counted, InPool
<1>14. ~spared'[p] => ~spared[p] /\ Unchosen(p)' = Unchosen(p)
  BY <1>8, <1>12, <1>13 DEF Unchosen
<1>15. Unchosen(p) \subseteq Unchosen(p)'
  BY <1>5, <1>12 DEF Unchosen
<1> QED BY <1>3, <1>4, <1>8, <1>9, <1>11, <1>12, <1>14, <1>15 DEF DeleteExcess

LEMMA Settled ==
    ASSUME DirTyped, NEW p \in Pools, SettlePrune(p)
    PROVE /\ prune[p].pc = "settle" /\ prune'[p].excess = prune[p].excess
          /\ ~prune'[p].again /\ prune'[p].asked = prune[p].asked
          /\ prune[p].again => prune'[p].pc = "list"
          /\ ~prune[p].again => prune'[p].pc = "idle"
          /\ \A q \in Pools \ {p} : prune'[q] = prune[q]
          /\ UNCHANGED <<dirFiles, stamp, owed, spared>>
          /\ p = "sched" => scheduled' = IdleOp
          /\ p # "sched" => scheduled' = scheduled
<1>1. prune' = [prune EXCEPT ![p] = [prune[p] EXCEPT
          !.pc = IF prune[p].again THEN "list" ELSE "idle", !.again = FALSE]]
  BY DEF SettlePrune
<1> QED BY <1>1 DEF SettlePrune, DirTyped, PassRecord
-----------------------------------------------------------------------------
(* What has been chosen is of its pool, and what is owed is left. *)

\* One pool's part of PassesGood.
PassGood(p) ==
    /\ prune[p].pc = "idle" => ~prune[p].again
    /\ prune[p].pc # "delete" => prune[p].excess = {}
    /\ \A n \in Doomed(p) : n <= stamp /\ (n \in DOMAIN dirFiles => dirFiles[n].pool = p)
SchedPass ==
    /\ prune["sched"].pc # "idle" <=> scheduled.pc = "pruning"
    /\ ~prune["sched"].again /\ ~prune["sched"].asked
LEMMA PassesParts ==
    /\ PassesGood <=> SchedPass /\ \A p \in Pools : PassGood(p)
    /\ PassesGood' <=> SchedPass' /\ \A p \in Pools : PassGood(p)'
BY DEF PassesGood, SchedPass, PassGood

\* A pass that has not moved stays good as files go.
LEMMA PassStays ==
    ASSUME NEW p, PassGood(p), prune'[p].pc = prune[p].pc, prune'[p].again = prune[p].again,
           prune'[p].excess = prune[p].excess, stamp' = stamp,
           DOMAIN dirFiles' \subseteq DOMAIN dirFiles,
           \A n \in DOMAIN dirFiles' : dirFiles'[n].pool = dirFiles[n].pool
    PROVE PassGood(p)'
BY DEF PassGood, Doomed

\* A new file is none that a pass has chosen.
LEMMA PassCommits ==
    ASSUME DirTyped, NEW p \in Pools, NEW q \in Pools, NEW c \in Contents, CommitBackupFile(q, c),
           PassGood(p), prune'[p].pc = prune[p].pc, prune'[p].again = prune[p].again,
           prune'[p].excess = prune[p].excess
    PROVE PassGood(p)'
<1>1. stamp \in Nat /\ stamp' = stamp + 1
  BY DirNumbers DEF DirTyped, CommitBackupFile
<1>2. Doomed(p)' = Doomed(p)
  BY DEF Doomed
<1>3. ASSUME NEW n \in Doomed(p) PROVE n <= stamp' /\ (n \in DOMAIN dirFiles' => dirFiles'[n].pool = p)
  <2>1. n \in Nat /\ n <= stamp
    <3>1. Doomed(p) \subseteq Names
      BY DEF Doomed, DirTyped, PassRecord
    <3> QED BY <3>1, DirNumbers DEF PassGood, Names
  <2>2. n <= stamp' /\ n # stamp + 1
    BY <1>1, <2>1
  <2> QED BY <2>2, Committed DEF PassGood
<1> QED BY <1>2, <1>3 DEF PassGood

LEMMA PassesStep ==
    ASSUME DirTyped, OpsTyped, LocksHeld, PassesGood, BackupDirNext PROVE PassesGood'
<1>0. SchedPass /\ \A p \in Pools : PassGood(p)
  BY PassesParts
<1>1. CASE Around
  BY <1>1, AroundKeeps DEF PassesGood, Doomed
<1>2. CASE PruneAfterScheduled
  <2>1. scheduled.pc = "prune" /\ scheduled'.pc = "pruning" /\ RequestPrune("sched")
        /\ UNCHANGED <<dirFiles, stamp>>
    BY <1>2 DEF PruneAfterScheduled, IdleOp
  <2>2. prune["sched"].pc = "idle" /\ prune["sched"].excess = {}
    BY <1>0, <2>1, TwoPools DEF SchedPass, PassGood
  <2>3. SchedPass'
    BY <1>0, <2>1, <2>2, Requested, TwoPools DEF SchedPass
  <2>4. PassGood("sched")'
    BY <2>1, <2>2, Requested, TwoPools DEF PassGood, Doomed
  <2>5. PassGood("upload")'
    BY <1>0, <2>1, Requested, TwoPools, PassStays
  <2> QED BY <2>3, <2>4, <2>5, TwoPools, PassesParts
<1>3. CASE StartUploadPrune
  <2>1. RequestPrune("upload") /\ UNCHANGED <<dirFiles, stamp, scheduled>>
    BY <1>3 DEF StartUploadPrune
  <2>2. prune'["sched"] = prune["sched"]
    BY <2>1, Requested, TwoPools
  <2>3. SchedPass' /\ PassGood("sched")'
    BY <1>0, <2>1, <2>2, TwoPools, PassStays DEF SchedPass
  <2>4. PassGood("upload")'
    BY <1>0, <2>1, Requested, TwoPools DEF PassGood, Doomed
  <2> QED BY <2>3, <2>4, TwoPools, PassesParts
<1>4. ASSUME NEW p \in Pools, PruneBackups(p) PROVE PassesGood'
  <2>0. prune[p].pc = "list" /\ prune[p].excess = {}
    BY <1>0, <1>4 DEF PruneBackups, PassGood
  <2>1. prune[p].pc = "list" /\ UNCHANGED <<dirFiles, stamp, scheduled>>
    BY <1>4 DEF PruneBackups
  <2>2. /\ prune'[p].pc \in {"delete", "settle"} /\ prune'[p].again = prune[p].again
        /\ prune'[p].asked = prune[p].asked /\ (prune'[p].pc = "settle" => prune'[p].excess = {})
        /\ \A q \in Pools \ {p} : prune'[q] = prune[q]
    BY <1>4, <2>0, Chosen
  <2>3. SchedPass'
    BY <1>0, <2>1, <2>2, TwoPools DEF SchedPass
  <2>4. ASSUME NEW q \in Pools, q # p PROVE PassGood(q)'
    BY <1>0, <2>1, <2>2, <2>4, PassStays
  <2>5. ASSUME NEW n \in Doomed(p)' PROVE n <= stamp /\ dirFiles[n].pool = p
    <3>1. n \in Counted(p) /\ DOMAIN dirFiles \subseteq 1 .. stamp /\ stamp \in Nat
      BY <1>4, <2>0, <2>5, Chosen, DirNumbers DEF DirTyped
    <3> QED BY <3>1 DEF Counted, InPool
  <2>6. PassGood(p)'
    BY <2>1, <2>2, <2>5 DEF PassGood
  <2> QED BY <2>3, <2>4, <2>6, PassesParts
<1>5. ASSUME NEW p \in Pools, DeleteExcess(p) PROVE PassesGood'
  <2>1. prune[p].pc = "delete"
    BY <1>5 DEF DeleteExcess
  <2>2. SchedPass'
    BY <1>0, <1>5, <2>1, Deleted, TwoPools DEF SchedPass
  <2>3. ASSUME NEW q \in Pools, q # p PROVE PassGood(q)'
    BY <1>0, <1>5, <2>3, Deleted, PassStays
  <2>4. PassGood(p)'
    BY <1>5, Deleted DEF PassGood
  <2> QED BY <2>2, <2>3, <2>4, PassesParts
<1>6. ASSUME NEW p \in Pools, SettlePrune(p) PROVE PassesGood'
  <2>1. SchedPass'
    <3>1. IdleOp.pc = "idle"
      BY DEF IdleOp
    <3> QED BY <1>0, <1>6, <3>1, Settled, TwoPools DEF SchedPass
  <2>2. ASSUME NEW q \in Pools, q # p PROVE PassGood(q)'
    BY <1>0, <1>6, <2>2, Settled, PassStays
  <2>3. PassGood(p)'
    <3>1. prune'[p].excess = {} /\ Doomed(p)' = {}
      BY <1>0, <1>6, Settled DEF PassGood, Doomed
    <3> QED BY <1>6, <3>1, Settled DEF PassGood
  <2> QED BY <2>1, <2>2, <2>3, PassesParts
<1>7. CASE CommitScheduled
  <2>1. /\ scheduled.content \in Contents /\ CommitBackupFile("sched", scheduled.content)
        /\ prune' = prune /\ scheduled.pc = "commit" /\ scheduled'.pc = "prune"
    BY <1>7 DEF CommitScheduled, OpsTyped
  <2>2. SchedPass'
    BY <1>0, <2>1 DEF SchedPass
  <2>3. \A p \in Pools : PassGood(p)'
    BY <1>0, <2>1, PassCommits, TwoPools
  <2> QED BY <2>2, <2>3, PassesParts
<1>8. CASE CommitUpload
  <2>1. CASE UNCHANGED <<dirFiles, stamp, owed, prune>>
    <3>1. scheduled' = scheduled
      BY <1>8 DEF CommitUpload
    <3> QED BY <2>1, <3>1 DEF PassesGood, Doomed
  <2>2. CASE ~UNCHANGED <<dirFiles, stamp, owed, prune>>
    <3>1. /\ uploading.content \in Contents /\ CommitBackupFile("upload", uploading.content)
          /\ prune' = [prune EXCEPT !["upload"] = [prune["upload"] EXCEPT !.asked = TRUE]]
          /\ scheduled' = scheduled
      BY <1>8, <2>2 DEF CommitUpload, OpsTyped
    <3>2. /\ prune'["sched"] = prune["sched"] /\ prune'["upload"].pc = prune["upload"].pc
          /\ prune'["upload"].again = prune["upload"].again
          /\ prune'["upload"].excess = prune["upload"].excess
      BY <3>1, TwoPools DEF DirTyped, PassRecord
    <3>3. SchedPass'
      BY <1>0, <3>1, <3>2 DEF SchedPass
    <3>4. PassGood("sched")' /\ PassGood("upload")'
      BY <1>0, <3>1, <3>2, PassCommits, TwoPools
    <3> QED BY <3>3, <3>4, TwoPools, PassesParts
  <2> QED BY <2>1, <2>2
<1>9. CASE Losing
  <2>1. PICK n \in Names : LosesFile(n)
    BY <1>9 DEF Losing
  <2>2. SchedPass'
    BY <1>0, <2>1, LostFile DEF SchedPass
  <2>3. \A p \in Pools : PassGood(p)'
    BY <1>0, <2>1, LostFile, PassStays
  <2> QED BY <2>2, <2>3, PassesParts
<1>10. CASE CrashDuringBackup
  <2>1. \A p \in Pools : prune'[p] = IdlePass
    BY <1>10 DEF CrashDuringBackup
  <2>2. scheduled'.pc = "idle"
    BY <1>10 DEF CrashDuringBackup, IdleOp
  <2> QED BY <2>1, <2>2, TwoPools DEF PassesGood, IdlePass, Doomed
<1>11. CASE Rotting
  <2>1. PICK n \in Names : RotSilently(n)
    BY <1>11 DEF Rotting
  <2>2. SchedPass'
    BY <1>0, <2>1, Rotted DEF SchedPass
  <2>3. \A p \in Pools : PassGood(p)'
    BY <1>0, <2>1, Rotted, PassStays
  <2> QED BY <2>2, <2>3, PassesParts
<1> QED BY <1>1, <1>2, <1>3, <1>4, <1>5, <1>6, <1>7, <1>8, <1>9, <1>10, <1>11, DirSteps
    DEF Passing
\* A pool whose files, doom and debt stay is kept, unless less is pending.
LEMMA PoolStays ==
    ASSUME NEW p, PoolKept(p), Unchosen(p)' = Unchosen(p), owed'[p] = owed[p],
           Pending(p) => Pending(p)',
           ~Pending(p)' /\ ~spared'[p] => ~spared[p]
    PROVE PoolKept(p)'
BY DEF PoolKept

LEMMA PoolsStep ==
    ASSUME DirTyped, OpsTyped, LocksHeld, PassesGood, PoolsKept, BackupDirNext PROVE PoolsKept'
<1>0. /\ SchedPass /\ \A p \in Pools : PassGood(p) /\ PoolKept(p)
      /\ \A p \in Pools : owed[p] \in Nat /\ Cardinality(Unchosen(p)) \in Nat /\ Cardinality(Counted(p)) \in Nat
      /\ Retention \in Nat
  BY PassesParts, UnchosenFinite, DirNumbers DEF PoolsKept, DirTyped
<1>1. CASE Around
  <2>1. ASSUME NEW p \in Pools PROVE Pending(p) => Pending(p)'
    BY <1>1, AroundKeeps DEF Pending
  <2>2. ASSUME NEW p \in Pools PROVE Unchosen(p)' = Unchosen(p)
    BY <1>1, AroundKeeps DEF Unchosen, Counted, InPool, Doomed
  <2> QED BY <1>0, <1>1, <2>1, <2>2, AroundKeeps, PoolStays DEF PoolsKept
<1>2. ASSUME NEW p \in Pools, RequestPrune(p), UNCHANGED <<dirFiles, owed, spared>>,
             p # "sched" => scheduled' = scheduled
      PROVE PoolsKept'
  <2>1. ASSUME NEW q \in Pools PROVE Unchosen(q)' = Unchosen(q)
    BY <1>2, Requested DEF Unchosen, Counted, InPool
  <2>2. Pending(p)'
    BY <1>0, <1>2, Requested DEF Pending
  <2>3. PoolKept(p)'
    BY <1>0, <1>2, <2>1, <2>2 DEF PoolKept
  <2>4. ASSUME NEW q \in Pools, q # p PROVE Pending(q) => Pending(q)'
    <3>1. prune'[q] = prune[q]
      BY <1>2, <2>4, Requested
    <3>2. q = "sched" => scheduled' = scheduled
      BY <1>2, <2>4
    <3> QED BY <3>1, <3>2 DEF Pending
  <2>5. ASSUME NEW q \in Pools, q # p PROVE PoolKept(q)'
    BY <1>0, <1>2, <2>1, <2>4, <2>5, Requested, PoolStays
  <2> QED BY <2>3, <2>5 DEF PoolsKept
<1>3. CASE PruneAfterScheduled \/ StartUploadPrune
  BY <1>2, <1>3, TwoPools DEF PruneAfterScheduled, StartUploadPrune
<1>4. ASSUME NEW p \in Pools, PruneBackups(p) PROVE PoolsKept'
  <2>0. prune[p].pc = "list" /\ prune[p].excess = {}
    BY <1>0, <1>4 DEF PruneBackups, PassGood
  <2>1. /\ Retention > 0 /\ ~spared'[p] => Cardinality(Unchosen(p)') <= Retention
        /\ Cardinality(Unchosen(p)') >= Least(Retention, Cardinality(Counted(p)))
        /\ UNCHANGED <<dirFiles, stamp, owed, scheduled>>
        /\ \A q \in Pools \ {p} : prune'[q] = prune[q] /\ spared'[q] = spared[q]
    BY <1>4, <2>0, Chosen
  <2>2. owed[p] <= Retention /\ owed[p] <= Cardinality(Counted(p))
    <3>1. Cardinality(Unchosen(p)) <= Cardinality(Counted(p))
      BY UnchosenFinite, FS_Subset DEF Unchosen
    <3> QED BY <1>0, <3>1 DEF PoolKept
  <2>3. Cardinality(Unchosen(p)') \in Nat
    <3>1. Unchosen(p)' \subseteq Counted(p)
      BY <2>1 DEF Unchosen, Counted, InPool
    <3> QED BY <3>1, UnchosenFinite, FS_Subset, FS_CardinalityType
  <2>4. owed[p] <= Cardinality(Unchosen(p)')
    BY <1>0, <2>1, <2>2, <2>3 DEF Least
  <2>5. PoolKept(p)'
    BY <2>1, <2>2, <2>4 DEF PoolKept
  <2>6. ASSUME NEW q \in Pools, q # p PROVE Unchosen(q)' = Unchosen(q) /\ (Pending(q) => Pending(q)')
    BY <2>1, <2>6 DEF Unchosen, Counted, InPool, Doomed, Pending
  <2>7. ASSUME NEW q \in Pools, q # p PROVE PoolKept(q)'
    BY <1>0, <2>1, <2>6, <2>7, PoolStays
  <2> QED BY <2>5, <2>7 DEF PoolsKept
<1>5. ASSUME NEW p \in Pools, DeleteExcess(p) PROVE PoolsKept'
  <2>1. prune[p].pc = "delete" /\ owed' = owed /\ scheduled' = scheduled
    BY <1>5 DEF DeleteExcess
  <2>2. IsFiniteSet(Unchosen(p)') /\ Cardinality(Unchosen(p)') \in Nat
    BY <1>5, Deleted, UnchosenFinite, FS_Subset, FS_CardinalityType
  <2>3. Cardinality(Unchosen(p)) <= Cardinality(Unchosen(p)')
    BY <1>5, <2>2, Deleted, FS_Subset
  <2>4. owed'[p] <= Retention /\ owed'[p] <= Cardinality(Unchosen(p)')
    BY <1>0, <2>1, <2>2, <2>3 DEF PoolKept
  <2>5. Pending(p) => Pending(p)'
    BY <1>5, <2>1, Deleted DEF Pending
  <2>6. ~spared'[p] => ~spared[p] /\ Unchosen(p)' = Unchosen(p)
    BY <1>5, Deleted
  <2>7. PoolKept(p)'
    BY <1>0, <2>1, <2>4, <2>5, <2>6 DEF PoolKept
  <2>8. ASSUME NEW q \in Pools, q # p PROVE Unchosen(q)' = Unchosen(q) /\ (Pending(q) => Pending(q)')
    BY <1>5, <2>1, <2>8, Deleted DEF Unchosen, Doomed, Pending
  <2>9. ASSUME NEW q \in Pools, q # p PROVE PoolKept(q)'
    BY <1>0, <1>5, <2>1, <2>8, <2>9, Deleted, PoolStays
  <2> QED BY <2>7, <2>9 DEF PoolsKept
<1>6. ASSUME NEW p \in Pools, SettlePrune(p) PROVE PoolsKept'
  <2>1. ASSUME NEW q \in Pools PROVE Unchosen(q)' = Unchosen(q)
    BY <1>6, Settled DEF Unchosen, Counted, InPool, Doomed
  <2>2. p = "sched" => scheduled.pc = "pruning"
    BY <1>0, <1>6, Settled, TwoPools DEF SchedPass
  <2>3. ASSUME NEW q \in Pools PROVE Pending(q) => Pending(q)'
    BY <1>6, <2>2, Settled DEF Pending
  <2> QED BY <1>0, <1>6, <2>1, <2>3, Settled, PoolStays DEF PoolsKept
<1>7. ASSUME NEW p \in Pools, NEW c \in Contents, CommitBackupFile(p, c), Pending(p)',
             \A q \in Pools : /\ prune'[q].pc = prune[q].pc /\ prune'[q].excess = prune[q].excess
                              /\ spared'[q] = spared[q]
                              /\ q # p /\ Pending(q) => Pending(q)'
      PROVE PoolsKept'
  <2>1. Doomed(p)' = Doomed(p)
    BY <1>7 DEF Doomed
  <2>2. stamp + 1 \notin Doomed(p)
    <3>1. stamp \in Nat /\ ~(stamp + 1 <= stamp)
      BY DirNumbers DEF DirTyped
    <3> QED BY <1>0, <3>1 DEF PassGood
  <2>3. Unchosen(p)' = Unchosen(p) \cup {stamp + 1} /\ stamp + 1 \notin Unchosen(p)
    BY <1>7, <2>1, <2>2, Committed DEF Unchosen, Counted, InPool
  <2>4. Cardinality(Unchosen(p)') = Cardinality(Unchosen(p)) + 1
    BY <2>3, UnchosenFinite, FS_AddElement
  <2>5. owed'[p] = Least(Retention, owed[p] + 1)
    BY <1>7, Committed
  <2>6. owed'[p] <= Retention /\ owed'[p] <= Cardinality(Unchosen(p)')
    BY <1>0, <2>4, <2>5 DEF Least, PoolKept
  <2>7. PoolKept(p)'
    BY <1>7, <2>6 DEF PoolKept
  <2>8. ASSUME NEW q \in Pools, q # p PROVE Unchosen(q)' = Unchosen(q) /\ owed'[q] = owed[q]
    BY <1>7, <2>8, Committed DEF Unchosen, Doomed
  <2>9. ASSUME NEW q \in Pools, q # p PROVE PoolKept(q)'
    BY <1>0, <1>7, <2>8, <2>9, PoolStays
  <2> QED BY <2>7, <2>9 DEF PoolsKept
<1>8. CASE CommitScheduled
  <2>1. /\ scheduled.content \in Contents /\ CommitBackupFile("sched", scheduled.content)
        /\ prune' = prune /\ spared' = spared /\ scheduled'.pc = "prune"
    BY <1>8 DEF CommitScheduled, OpsTyped
  <2>2. Pending("sched")' /\ \A q \in Pools : q # "sched" /\ Pending(q) => Pending(q)'
    BY <2>1 DEF Pending
  <2> QED BY <1>7, <2>1, <2>2, TwoPools
<1>9. CASE CommitUpload
  <2>1. scheduled' = scheduled /\ spared' = spared
    BY <1>9 DEF CommitUpload
  <2>2. CASE UNCHANGED <<dirFiles, stamp, owed, prune>>
    <3>1. ASSUME NEW p \in Pools PROVE Unchosen(p)' = Unchosen(p) /\ (Pending(p) => Pending(p)')
      BY <2>1, <2>2 DEF Unchosen, Counted, InPool, Doomed, Pending
    <3> QED BY <1>0, <2>1, <2>2, <3>1, PoolStays DEF PoolsKept
  <2>3. CASE ~UNCHANGED <<dirFiles, stamp, owed, prune>>
    <3>1. /\ uploading.content \in Contents /\ CommitBackupFile("upload", uploading.content)
          /\ prune' = [prune EXCEPT !["upload"] = [prune["upload"] EXCEPT !.asked = TRUE]]
      BY <1>9, <2>3 DEF CommitUpload, OpsTyped
    <3>2. /\ prune'["sched"] = prune["sched"] /\ prune'["upload"].asked
          /\ \A q \in Pools : prune'[q].pc = prune[q].pc /\ prune'[q].excess = prune[q].excess
      BY <3>1, TwoPools DEF DirTyped, PassRecord
    <3>3. Pending("upload")' /\ \A q \in Pools : q # "upload" /\ Pending(q) => Pending(q)'
      BY <2>1, <3>2, TwoPools DEF Pending
    <3> QED BY <1>7, <2>1, <3>1, <3>2, <3>3, TwoPools
  <2> QED BY <2>2, <2>3
<1>10. CASE Losing
  <2>1. PICK n \in Names : LosesFile(n)
    BY <1>10 DEF Losing
  <2>0. PICK p \in Pools : p = dirFiles[n].pool
    BY <2>1, LostFile
  <2> DEFINE left == Counted(p) \ (Doomed(p) \cup {n})
  <2>2. /\ owed' = [owed EXCEPT ![p] = Least(owed[p], Cardinality(left))]
        /\ UNCHANGED <<prune, spared, scheduled>> /\ \A q \in Pools : Counted(q)' = Counted(q) \ {n}
    BY <2>0, <2>1, LostFile
  <2>3. \A q \in Pools : Unchosen(q)' = Unchosen(q) \ {n} /\ (Pending(q) => Pending(q)')
    BY <2>2 DEF Unchosen, Doomed, Pending
  <2>4. Unchosen(p)' = left /\ left \subseteq Unchosen(p)
    BY <2>2, <2>3 DEF Unchosen
  <2> HIDE DEF left
  <2>5. Cardinality(left) \in Nat /\ Cardinality(left) <= Cardinality(Unchosen(p))
    BY <2>2, <2>4, UnchosenFinite, FS_Subset, FS_CardinalityType
  <2>6. owed'[p] = Least(owed[p], Cardinality(left)) /\ \A q \in Pools \ {p} : owed'[q] = owed[q]
    BY <2>2 DEF DirTyped
  <2>7. owed'[p] <= Retention /\ owed'[p] <= Cardinality(Unchosen(p)')
    BY <1>0, <2>2, <2>4, <2>5, <2>6 DEF Least, PoolKept
  <2>8. Cardinality(Unchosen(p)) <= Retention => Cardinality(Unchosen(p)') <= Retention
    BY <1>0, <2>2, <2>4, <2>5
  <2>9. PoolKept(p)'
    BY <1>0, <2>2, <2>3, <2>7, <2>8 DEF PoolKept
  <2>10. ASSUME NEW q \in Pools, q # p PROVE PoolKept(q)'
    <3>1. n \notin Unchosen(q)
      BY <2>0, <2>10 DEF Unchosen, Counted, InPool
    <3>2. Unchosen(q)' = Unchosen(q)
      BY <2>3, <3>1
    <3> QED BY <1>0, <2>2, <2>3, <2>6, <2>10, <3>2, PoolStays
  <2> QED BY <2>9, <2>10 DEF PoolsKept
<1>11. CASE CrashDuringBackup
  <2>1. ASSUME NEW p \in Pools PROVE PoolKept(p)'
    <3>1. /\ Counted(p)' = Good(p) /\ Good(p) \subseteq Counted(p) /\ prune'[p] = IdlePass
          /\ spared'[p] /\ owed'[p] = Least(owed[p], Cardinality(Good(p)))
      BY <1>11, Crashed
    <3>2. Unchosen(p)' = Good(p)
      BY <3>1 DEF Unchosen, Doomed, IdlePass
    <3>3. Cardinality(Good(p)) \in Nat
      BY <3>1, UnchosenFinite, FS_Subset, FS_CardinalityType
    <3>4. owed'[p] <= Retention /\ owed'[p] <= Cardinality(Unchosen(p)')
      BY <1>0, <3>1, <3>2, <3>3 DEF Least, PoolKept
    <3> QED BY <3>1, <3>4 DEF PoolKept
  <2> QED BY <2>1 DEF PoolsKept
<1>12. CASE Rotting
  <2>1. PICK n \in Names : RotSilently(n)
    BY <1>12 DEF Rotting
  <2>2. ASSUME NEW p \in Pools PROVE Unchosen(p)' = Unchosen(p) /\ (Pending(p) => Pending(p)')
    BY <2>1, Rotted DEF Unchosen, Doomed, Pending
  <2> QED BY <1>0, <2>1, <2>2, Rotted, PoolStays DEF PoolsKept
<1> QED BY <1>1, <1>3, <1>4, <1>5, <1>6, <1>8, <1>9, <1>10, <1>11, <1>12, DirSteps DEF Passing

-----------------------------------------------------------------------------
(* The backup directory: what the invariant shows. *)

LEMMA DirKept == ASSUME DirInv, BackupDirNext PROVE DirInv'
BY DirTypedStep, OpsTypedStep, LocksStep, PassesStep, PoolsStep DEF DirInv

LEMMA DirRests == ASSUME DirInv, UNCHANGED bdVars PROVE DirInv'
<1>1. \A p \in Pools : Unchosen(p)' = Unchosen(p) /\ (Pending(p)' <=> Pending(p))
  BY DEF bdVars, Unchosen, Counted, InPool, Doomed, Pending
<1>2. PoolsKept'
  BY <1>1 DEF DirInv, bdVars, PoolsKept, PoolKept
<1>3. DirTyped' /\ OpsTyped' /\ LocksHeld' /\ PassesGood'
  BY DEF DirInv, bdVars, lockVars, opVars, DirTyped, OpsTyped, LocksHeld, LiveTempsKept,
     PassesGood, Doomed
<1> QED BY <1>2, <1>3 DEF DirInv

LEMMA DirShown ==
    ASSUME DirInv
    PROVE BackupDirTypeOK /\ GoodBackupsKept /\ LiveTempsKept /\ RetentionEnforced
<1>1. BackupDirTypeOK
  <2>1. DOMAIN dirFiles \subseteq Names
    BY DirNumbers DEF DirInv, DirTyped, Names
  <2>2. \A p \in Pools : prune[p] \in PassRecord
    BY DEF DirInv, DirTyped
  <2>3. \A n \in DOMAIN dirFiles : dirFiles[n] \in AllFiles
    BY DEF DirInv, DirTyped, Kinds
  <2> QED BY <2>1, <2>2, <2>3 DEF DirInv, DirTyped, OpsTyped, BackupDirTypeOK, PassRecord
<1>2. ASSUME NEW p \in Pools PROVE Cardinality(Counted(p)) >= owed[p]
  <2>1. Cardinality(Unchosen(p)) <= Cardinality(Counted(p)) /\ owed[p] \in Nat
        /\ Cardinality(Unchosen(p)) \in Nat /\ Cardinality(Counted(p)) \in Nat
    BY UnchosenFinite, FS_Subset DEF Unchosen, DirInv, DirTyped
  <2> QED BY <2>1 DEF DirInv, PoolsKept, PoolKept
<1>3. RetentionEnforced
  <2>1. ASSUME NEW p \in Pools, Retention > 0, prune[p].pc = "idle", ~prune[p].asked, ~spared[p],
               p = "sched" => scheduled.pc # "prune"
        PROVE Cardinality(Counted(p)) <= Retention
    <3>1. ~prune[p].again /\ prune[p].excess = {}
      BY <2>1 DEF DirInv, PassesGood
    <3>2. Unchosen(p) = Counted(p)
      BY <3>1 DEF Unchosen, Doomed
    <3>3. ~Pending(p)
      BY <2>1, <3>1 DEF Pending
    <3> QED BY <2>1, <3>2, <3>3 DEF DirInv, PoolsKept, PoolKept
  <2> QED BY <2>1 DEF RetentionEnforced
<1> QED BY <1>1, <1>2, <1>3 DEF GoodBackupsKept, DirInv, LocksHeld

-----------------------------------------------------------------------------
(* The free space: the invariant. *)

WriterRecord == [pc : {"idle", "preflight", "snapshot", "checked", "output",
                       "archive", "reserve", "stream", "grow", "hung"},
                 seen : Int, size : Nat, stale : BOOLEAN]
Others(w) == Writers \ {w}
Measured == {"preflight", "output", "reserve", "grow"}

\* What a writer may still write without another grant, and what of its hold it has
\* written.
Cover(w) ==
    IF writer[w].pc = "snapshot" THEN DbSize
    ELSE IF writer[w].pc = "archive" /\ writer[w].size = DbSize THEN DbSize
    ELSE IF writer[w].pc = "stream" THEN holds[w] - writer[w].size ELSE 0
Filled(w) == IF holds[w] = 0 THEN 0 ELSE writer[w].size
covers == [w \in Writers |-> Cover(w)]
filled == [w \in Writers |-> Filled(w)]

\* A writer has what it writes, by where it is.
WholeHold == WalRoom + DbSize + DbSize
RunGood(w) ==
    /\ writer[w].pc \in {"idle", "preflight", "snapshot", "checked", "output", "archive", "hung"}
    /\ writer[w].pc \in {"idle", "preflight"} => holds[w] = 0 /\ writer[w].size = 0
    /\ writer[w].pc = "snapshot" => holds[w] = WholeHold /\ writer[w].size = 0
    /\ writer[w].pc \in {"checked", "output"} => holds[w] = WholeHold /\ writer[w].size = DbSize
    /\ writer[w].pc = "archive" => holds[w] = WholeHold /\ writer[w].size \in {DbSize, DbSize + DbSize}
StreamGood(w) ==
    /\ writer[w].pc \in {"idle", "reserve", "stream", "grow", "hung"}
    /\ writer[w].pc \in {"idle", "reserve"} => holds[w] = 0 /\ writer[w].size = 0
    /\ writer[w].pc = "stream" => writer[w].size <= holds[w]
    /\ writer[w].pc = "grow" => writer[w].size = holds[w] /\ writer[w].size < StreamLimit
WriterGood(w) ==
    /\ w \in Runs => RunGood(w)
    /\ w \in Streams => StreamGood(w)
    /\ writer[w].pc = "hung" => holds[w] = 0 \/ writer[w].size <= holds[w]

\* A measurement that is not stale promises no more than what is left and what the
\* others have written of their holds since.
SeenGood(w) ==
    writer[w].pc \in Measured /\ ~writer[w].stale
        => writer[w].seen <= free + Total(filled, Others(w))

\* The margin, and all that may still be written, is left.
MarginLeft == ~gambled => free >= FloorSpace + Total(covers, Writers)

SpaceInv == DiskSpaceTypeOK /\ MarginLeft /\ \A w \in Writers : WriterGood(w) /\ SeenGood(w)

LEMMA SpaceNumbers ==
    /\ IsFiniteSet(Writers) /\ Runs \cap Streams = {} /\ Writers = Runs \cup Streams
    /\ Volume \in Nat /\ FloorSpace \in Nat /\ DbSize \in Nat /\ WalRoom \in Nat
    /\ FirstGuess \in Nat /\ GrowBy \in Nat /\ StreamLimit \in Nat /\ WholeHold \in Nat
<1>1. WalRoom \in Nat /\ DbSize \in Nat
  BY DiskSpaceAssumption
<1>2. WholeHold \in Nat
  BY <1>1 DEF WholeHold
<1> QED BY <1>2, DiskSpaceAssumption DEF Writers

LEMMA WriterFields ==
    ASSUME DiskSpaceTypeOK, NEW w \in Writers
    PROVE /\ writer[w] \in WriterRecord /\ writer[w].seen \in Int /\ writer[w].size \in Nat
          /\ writer[w].stale \in BOOLEAN /\ holds[w] \in Nat
          /\ writer \in [Writers -> WriterRecord]
BY DEF DiskSpaceTypeOK, WriterRecord

\* What is left to write and what is written fit in what is held.
LEMMA HoldsBoth ==
    ASSUME DiskSpaceTypeOK, NEW w \in Writers, WriterGood(w)
    PROVE Cover(w) \in Nat /\ Filled(w) \in Nat /\ Cover(w) + Filled(w) <= holds[w]
<1>1. writer[w].size \in Nat /\ holds[w] \in Nat /\ DbSize \in Nat /\ WalRoom \in Nat
  BY WriterFields, SpaceNumbers
<1>2. CASE w \in Runs
  <2>1. RunGood(w)
    BY <1>2 DEF WriterGood
  <2>2. CASE writer[w].pc = "hung"
    BY <1>1, <2>2 DEF WriterGood, Cover, Filled
  <2>3. CASE writer[w].pc \in {"idle", "preflight"}
    BY <1>1, <2>1, <2>3 DEF RunGood, Cover, Filled
  <2>4. CASE writer[w].pc \in {"snapshot", "checked", "output", "archive"}
    BY <1>1, <2>1, <2>4 DEF RunGood, Cover, Filled, WholeHold
  <2> QED BY <2>1, <2>2, <2>3, <2>4 DEF RunGood
<1>3. CASE w \in Streams
  <2>1. StreamGood(w)
    BY <1>3 DEF WriterGood
  <2>2. CASE writer[w].pc = "hung"
    BY <1>1, <2>2 DEF WriterGood, Cover, Filled
  <2>3. CASE writer[w].pc # "hung"
    BY <1>1, <2>1, <2>3 DEF StreamGood, Cover, Filled
  <2> QED BY <2>2, <2>3
<1> QED BY <1>2, <1>3, SpaceNumbers

\* The same as an implication, for the state after a step.
WritersGood == DiskSpaceTypeOK /\ \A w \in Writers : WriterGood(w)
SharesTyped == \A w \in Writers : Cover(w) \in Nat /\ Filled(w) \in Nat
LEMMA SharesAlways == WritersGood => SharesTyped
BY HoldsBoth DEF WritersGood, SharesTyped

\* The sums are of numbers.
LEMMA SumsTyped ==
    ASSUME DiskSpaceTypeOK, \A w \in Writers : WriterGood(w)
    PROVE /\ covers \in [Writers -> Nat] /\ filled \in [Writers -> Nat] /\ holds \in [Writers -> Nat]
          /\ \A w \in Writers : covers[w] + filled[w] <= holds[w]
          /\ \A S \in SUBSET Writers : /\ Total(covers, S) \in Nat /\ Total(filled, S) \in Nat
                                       /\ Total(holds, S) \in Nat
          /\ \A w \in Writers : /\ Total(covers, Writers) = covers[w] + Total(covers, Others(w))
                                /\ Total(holds, Writers) = holds[w] + Total(holds, Others(w))
<1>1. \A w \in Writers : Cover(w) \in Nat /\ Filled(w) \in Nat /\ Cover(w) + Filled(w) <= holds[w]
  BY HoldsBoth
<1>2. /\ covers \in [Writers -> Nat] /\ filled \in [Writers -> Nat] /\ holds \in [Writers -> Nat]
      /\ \A w \in Writers : covers[w] + filled[w] <= holds[w]
  BY <1>1 DEF covers, filled, DiskSpaceTypeOK
<1>3. Writers \in SUBSET Writers
  OBVIOUS
<1> QED BY <1>2, <1>3, TotalSplit, SpaceNumbers DEF Others

LEMMA SpaceFirst == ASSUME Volume >= FloorSpace, DiskSpaceInit PROVE SpaceInv
<1>1. AtRest \in WriterRecord /\ AtRest.pc = "idle" /\ AtRest.size = 0
  BY DEF AtRest, WriterRecord
<1>2. DiskSpaceTypeOK
  <2>1. writer \in [Writers -> WriterRecord] /\ holds \in [Writers -> Nat]
    BY <1>1 DEF DiskSpaceInit
  <2>2. free \in Int
    BY SpaceNumbers DEF DiskSpaceInit
  <2>3. gambled \in BOOLEAN
    BY DEF DiskSpaceInit
  <2> QED BY <2>1, <2>2, <2>3 DEF DiskSpaceTypeOK, WriterRecord
<1>3. \A w \in Writers : WriterGood(w) /\ SeenGood(w)
  BY <1>1 DEF DiskSpaceInit, WriterGood, RunGood, StreamGood, SeenGood, Measured
<1>4. \A w \in Writers : covers[w] = 0
  BY <1>1 DEF covers, Cover, DiskSpaceInit
<1>5. Total(covers, Writers) = 0
  <2> DEFINE zero == [w \in Writers |-> 0]
  <2>1. covers \in [Writers -> Nat] /\ zero \in [Writers -> Nat] /\ Writers \in SUBSET Writers
    BY <1>2, <1>3, SumsTyped
  <2>2. \A w \in Writers : covers[w] + covers[w] <= covers[w]
    BY <1>4
  <2>3. Total(covers, Writers) + Total(covers, Writers) <= Total(covers, Writers)
    BY <2>1, <2>2, TotalHolds, SpaceNumbers
  <2>4. Total(covers, Writers) \in Nat
    BY <1>2, <1>3, <2>1, SumsTyped
  <2> QED BY <2>3, <2>4
<1>6. MarginLeft
  BY <1>5, SpaceNumbers DEF MarginLeft, DiskSpaceInit
<1> QED BY <1>2, <1>3, <1>6 DEF SpaceInv
-----------------------------------------------------------------------------
(* The free space: every step. *)

\* A grant within the measurement leaves what the others may still write.
LEMMA GrantGood ==
    ASSUME SpaceInv, NEW w \in Writers, writer[w].pc \in Measured, ~writer[w].stale
    PROVE writer[w].seen - Total(holds, Others(w)) <= free - Total(covers, Others(w))
<1>1. /\ covers \in [Writers -> Nat] /\ filled \in [Writers -> Nat] /\ holds \in [Writers -> Nat]
      /\ \A v \in Writers : covers[v] + filled[v] <= holds[v]
      /\ \A S \in SUBSET Writers : /\ Total(covers, S) \in Nat /\ Total(filled, S) \in Nat
                                   /\ Total(holds, S) \in Nat
  BY SumsTyped DEF SpaceInv
<1>2. Others(w) \in SUBSET Writers
  BY DEF Others
<1>3. Total(covers, Others(w)) + Total(filled, Others(w)) <= Total(holds, Others(w))
  BY <1>1, <1>2, TotalHolds, SpaceNumbers
<1>4. writer[w].seen <= free + Total(filled, Others(w))
  BY DEF SpaceInv, SeenGood
<1>5. writer[w].seen \in Int /\ free \in Int
  BY WriterFields DEF SpaceInv, DiskSpaceTypeOK
<1> QED BY <1>1, <1>2, <1>3, <1>4, <1>5

\* What one writer does: the others keep what they hold, have written and may still
\* write.
Apart(w) ==
    \A v \in Others(w) :
        /\ writer'[v].pc = writer[v].pc /\ writer'[v].size = writer[v].size
        /\ writer'[v].seen = writer[v].seen /\ holds'[v] = holds[v]

LEMMA ApartSums ==
    ASSUME SpaceInv, DiskSpaceTypeOK', NEW w \in Writers, WriterGood(w)', Apart(w)
    PROVE /\ \A v \in Writers : WriterGood(v)'
          /\ Total(covers, Others(w))' = Total(covers, Others(w))
          /\ Total(filled, Others(w))' = Total(filled, Others(w))
          /\ Total(covers, Writers)' = Cover(w)' + Total(covers, Others(w))
          /\ \A v \in Others(w) :
                /\ Total(filled, Others(v))
                      = Filled(w) + Total(filled, Others(v) \ {w})
                /\ Total(filled, Others(v))'
                      = Filled(w)' + Total(filled, Others(v) \ {w})
                /\ Total(filled, Others(v) \ {w}) \in Nat
<1>1. ASSUME NEW v \in Writers PROVE WriterGood(v)'
  <2>1. CASE v = w
    BY <2>1
  <2>2. CASE v # w
    <3>1. writer'[v].pc = writer[v].pc /\ writer'[v].size = writer[v].size /\ holds'[v] = holds[v]
      BY <2>2 DEF Apart, Others
    <3>2. WriterGood(v)
      BY DEF SpaceInv
    <3> QED BY <3>1, <3>2 DEF WriterGood, RunGood, StreamGood
  <2> QED BY <2>1, <2>2
<1>2. /\ covers \in [Writers -> Nat] /\ covers' \in [Writers -> Nat]
      /\ filled \in [Writers -> Nat] /\ filled' \in [Writers -> Nat]
  <2>1. \A v \in Writers : Cover(v) \in Nat /\ Filled(v) \in Nat
    BY HoldsBoth DEF SpaceInv
  <2>2. \A v \in Writers : Cover(v)' \in Nat /\ Filled(v)' \in Nat
    <3>1. WritersGood' => SharesTyped'
      BY SharesAlways, PTL
    <3>2. WritersGood'
      BY <1>1 DEF WritersGood
    <3> QED BY <3>1, <3>2 DEF SharesTyped
  <2> QED BY <2>1, <2>2 DEF covers, filled
<1>3. /\ covers[w] = Cover(w) /\ covers'[w] = Cover(w)'
      /\ filled[w] = Filled(w) /\ filled'[w] = Filled(w)'
  BY DEF covers, filled
<1>4. \A v \in Others(w) : covers'[v] = covers[v] /\ filled'[v] = filled[v]
  BY DEF covers, filled, Cover, Filled, Apart, Others
<1>5. Others(w) \in SUBSET Writers /\ Writers \in SUBSET Writers /\ Others(w) = Writers \ {w}
  BY DEF Others
<1>6. /\ Total(covers', Others(w)) = Total(covers, Others(w))
      /\ Total(filled', Others(w)) = Total(filled, Others(w))
  BY <1>2, <1>4, <1>5, TotalSame, SpaceNumbers
<1>7. Total(covers', Writers) = covers'[w] + Total(covers', Others(w))
  BY <1>2, <1>5, TotalSplit, SpaceNumbers
<1>8. ASSUME NEW v \in Others(w)
      PROVE /\ Total(filled, Others(v)) = filled[w] + Total(filled, Others(v) \ {w})
            /\ Total(filled', Others(v)) = filled'[w] + Total(filled, Others(v) \ {w})
            /\ Total(filled, Others(v) \ {w}) \in Nat
  <2>1. /\ Others(v) \in SUBSET Writers /\ w \in Others(v) /\ Others(v) \ {w} \in SUBSET Writers
        /\ Others(v) \ {w} \subseteq Others(w)
    BY DEF Others
  <2>2. /\ Total(filled, Others(v)) = filled[w] + Total(filled, Others(v) \ {w})
        /\ Total(filled', Others(v)) = filled'[w] + Total(filled', Others(v) \ {w})
        /\ Total(filled, Others(v) \ {w}) \in Nat
    BY <1>2, <2>1, TotalSplit, SpaceNumbers
  <2>3. Total(filled', Others(v) \ {w}) = Total(filled, Others(v) \ {w})
    <3>1. \A u \in Others(v) \ {w} : filled'[u] = filled[u]
      BY <1>4, <2>1
    <3> QED BY <1>2, <2>1, <3>1, TotalSame, SpaceNumbers
  <2> QED BY <2>2, <2>3
<1>9. /\ Total(covers, Others(w))' = Total(covers', Others(w))
      /\ Total(filled, Others(w))' = Total(filled', Others(w))
      /\ Total(covers, Writers)' = Total(covers', Writers)
      /\ \A v \in Others(w) : Total(filled, Others(v))' = Total(filled', Others(v))
  BY DEF Total
<1> QED BY <1>1, <1>3, <1>6, <1>7, <1>8, <1>9

\* What one writer must see to.
LEMMA SpaceMoves ==
    ASSUME SpaceInv, DiskSpaceTypeOK', NEW w \in Writers, WriterGood(w)', Apart(w),
           SeenGood(w)',
           ~gambled' => ~gambled /\ free' >= FloorSpace + (Cover(w)' + Total(covers, Others(w))),
           \/ \A v \in Others(w) : writer'[v].stale
           \/ /\ free' + Filled(w)' >= free + Filled(w)
              /\ \A v \in Others(w) : writer'[v].stale = writer[v].stale
    PROVE SpaceInv'
<1>1. MarginLeft'
  BY ApartSums DEF MarginLeft
<1>2. ASSUME NEW v \in Writers PROVE SeenGood(v)'
  <2>1. CASE v = w
    BY <2>1
  <2>2. CASE v # w
    <3>1. v \in Others(w)
      BY <2>2 DEF Others
    <3>2. CASE writer'[v].stale
      BY <3>2 DEF SeenGood
    <3>3. CASE ~writer'[v].stale
      <4>1. ~writer[v].stale /\ free' + Filled(w)' >= free + Filled(w)
            /\ writer'[v].pc = writer[v].pc /\ writer'[v].seen = writer[v].seen
        BY <3>1, <3>3 DEF Apart
      <4>2. writer[v].pc \in Measured => writer[v].seen <= free + Total(filled, Others(v))
        BY <4>1 DEF SpaceInv, SeenGood
      <4>3. free \in Int /\ free' \in Int /\ writer[v].seen \in Int
        BY WriterFields DEF SpaceInv, DiskSpaceTypeOK
      <4>4. Filled(w) \in Nat /\ Filled(w)' \in Nat
        <5>1. Filled(w) \in Nat
          BY HoldsBoth DEF SpaceInv
        <5>2. holds'[w] \in Nat /\ writer'[w].size \in Nat
          BY DEF DiskSpaceTypeOK
        <5> QED BY <5>1, <5>2 DEF Filled
      <4> DEFINE rest == Total(filled, Others(v) \ {w})
      <4>6. /\ Total(filled, Others(v)) = Filled(w) + rest
            /\ Total(filled, Others(v))' = Filled(w)' + rest /\ rest \in Nat
        BY <3>1, ApartSums
      <4> HIDE DEF rest
      <4>7. Filled(w) + rest + free <= Filled(w)' + rest + free'
        BY <4>1, <4>3, <4>4, <4>6
      <4>5. writer[v].pc \in Measured => writer[v].seen <= free' + Total(filled, Others(v))'
        BY <4>2, <4>3, <4>4, <4>6, <4>7
      <4> QED BY <4>1, <4>5 DEF SeenGood
    <3> QED BY <3>2, <3>3
  <2> QED BY <2>1, <2>2
<1> QED BY <1>1, <1>2, ApartSums DEF SpaceInv
LEMMA MarginAt ==
    ASSUME SpaceInv, NEW w \in Writers
    PROVE /\ ~gambled => free >= FloorSpace + (Cover(w) + Total(covers, Others(w)))
          /\ Total(covers, Others(w)) \in Nat /\ Total(filled, Others(w)) \in Nat
          /\ Total(holds, Others(w)) \in Nat
          /\ Cover(w) \in Nat /\ Filled(w) \in Nat /\ holds[w] \in Nat /\ free \in Int
          /\ gambled \in BOOLEAN
          /\ Total(holds, Writers) = holds[w] + Total(holds, Others(w))
<1>1. covers[w] = Cover(w)
  BY DEF covers
<1>2. Others(w) \in SUBSET Writers
  BY DEF Others
<1>3. /\ Total(covers, Writers) = covers[w] + Total(covers, Others(w))
      /\ Total(holds, Writers) = holds[w] + Total(holds, Others(w))
      /\ Total(covers, Others(w)) \in Nat /\ Total(filled, Others(w)) \in Nat
      /\ Total(holds, Others(w)) \in Nat
  BY <1>2, SumsTyped DEF SpaceInv
<1> QED BY <1>1, <1>3, HoldsBoth, WriterFields DEF SpaceInv, MarginLeft, DiskSpaceTypeOK

\* One writer moves; the others' records stay.
LEMMA WriterStep ==
    ASSUME SpaceInv, NEW w \in Writers, NEW r \in WriterRecord,
           writer' = [writer EXCEPT ![w] = r],
           holds' \in [Writers -> Nat], \A v \in Others(w) : holds'[v] = holds[v],
           free' \in Int, gambled' \in BOOLEAN, WriterGood(w)', SeenGood(w)',
           free' + Filled(w)' >= free + Filled(w),
           ~gambled' => ~gambled /\ free' >= FloorSpace + (Cover(w)' + Total(covers, Others(w)))
    PROVE SpaceInv'
<1>1. writer' \in [Writers -> WriterRecord] /\ \A v \in Others(w) : writer'[v] = writer[v]
  BY WriterFields DEF SpaceInv, Others
<1>2. DiskSpaceTypeOK'
  BY <1>1 DEF DiskSpaceTypeOK, WriterRecord
<1>3. Apart(w) /\ \A v \in Others(w) : writer'[v].stale = writer[v].stale
  BY <1>1 DEF Apart
<1> QED BY <1>2, <1>3, SpaceMoves

\* A writer that is done gives back its hold, and maybe its bytes.
LEMMA ReleaseStep ==
    ASSUME SpaceInv, NEW w \in Writers, Release(w), UNCHANGED gambled, free' \in Int, free' >= free
    PROVE SpaceInv'
<1>1. AtRest \in WriterRecord /\ AtRest.pc = "idle" /\ AtRest.size = 0
  BY DEF AtRest, WriterRecord
<1>2. writer'[w] = AtRest /\ holds'[w] = 0
  BY WriterFields DEF Release, SpaceInv, DiskSpaceTypeOK
<1>3. ASSUME NEW v \in Others(w)
      PROVE /\ writer'[v] = [writer[v] EXCEPT !.stale = TRUE]
            /\ writer'[v] \in WriterRecord /\ writer'[v].stale /\ holds'[v] = holds[v]
            /\ writer'[v].pc = writer[v].pc /\ writer'[v].size = writer[v].size
            /\ writer'[v].seen = writer[v].seen
  <2>1. writer'[v] = [writer[v] EXCEPT !.stale = TRUE] /\ holds'[v] = holds[v]
    BY <1>3 DEF Release, Others, SpaceInv, DiskSpaceTypeOK
  <2>2. writer[v] \in WriterRecord
    BY <1>3, WriterFields DEF SpaceInv, Others
  <2> QED BY <2>1, <2>2 DEF WriterRecord
<1>4. DiskSpaceTypeOK'
  <2>1. \A v \in Writers : writer'[v] \in WriterRecord
    BY <1>1, <1>2, <1>3 DEF Others
  <2>2. writer' = [v \in Writers |-> writer'[v]]
    BY DEF Release
  <2>3. writer' \in [Writers -> WriterRecord]
    BY <2>1, <2>2
  <2>4. holds' \in [Writers -> Nat]
    BY DEF Release, SpaceInv, DiskSpaceTypeOK
  <2> QED BY <2>3, <2>4 DEF SpaceInv, DiskSpaceTypeOK, WriterRecord
<1>5. Apart(w) /\ \A v \in Others(w) : writer'[v].stale
  BY <1>3 DEF Apart
<1>6. WriterGood(w)' /\ SeenGood(w)' /\ Cover(w)' = 0
  BY <1>1, <1>2 DEF WriterGood, RunGood, StreamGood, SeenGood, Measured, Cover
<1>7. ~gambled' => ~gambled /\ free' >= FloorSpace + (Cover(w)' + Total(covers, Others(w)))
  BY <1>6, MarginAt, SpaceNumbers
<1> QED BY <1>4, <1>5, <1>6, <1>7, SpaceMoves

\* A measurement is as fresh as what it saw.
LEMMA MeasureStep ==
    ASSUME SpaceInv, NEW w \in Writers, NEW from, NEW to, Measure(w, from, to),
           \/ w \in Runs /\ <<from, to>> \in {<<"idle", "preflight">>, <<"checked", "output">>}
           \/ w \in Streams /\ <<from, to>> = <<"idle", "reserve">>
    PROVE SpaceInv'
<1> DEFINE r == [writer[w] EXCEPT !.pc = to, !.seen = free, !.stale = FALSE]
<1>1. /\ writer[w] \in WriterRecord /\ free \in Int /\ writer[w].size \in Nat
      /\ writer[w].pc = from /\ UNCHANGED <<free, holds, gambled>>
  BY WriterFields DEF Measure, SpaceInv, DiskSpaceTypeOK
<1>2. r \in WriterRecord /\ r.pc = to /\ r.seen = free /\ r.size = writer[w].size
  BY <1>1 DEF WriterRecord
<1>3. writer' = [writer EXCEPT ![w] = r]
  BY DEF Measure
<1> HIDE DEF r
<1>4. /\ writer'[w].pc = to /\ writer'[w].seen = free /\ writer'[w].size = writer[w].size
      /\ \A v \in Others(w) : writer'[v] = writer[v]
  BY <1>2, <1>3, WriterFields DEF SpaceInv, Others
<1>5. WriterGood(w)'
  <2>1. WriterGood(w) /\ Runs \cap Streams = {}
    BY SpaceNumbers DEF SpaceInv
  <2>2. CASE w \in Runs
    BY <1>1, <1>4, <2>1, <2>2 DEF WriterGood, RunGood
  <2>3. CASE w \in Streams
    BY <1>1, <1>4, <2>1, <2>3 DEF WriterGood, StreamGood
  <2> QED BY <2>2, <2>3, SpaceNumbers
<1>6. Cover(w)' = 0 /\ Cover(w) = 0 /\ Filled(w)' = Filled(w)
  BY <1>1, <1>4 DEF Cover, Filled
<1>7. Total(filled, Others(w))' \in Nat
  <2>1. DiskSpaceTypeOK' /\ Apart(w)
    <3>1. writer' \in [Writers -> WriterRecord]
      BY <1>2, <1>3, WriterFields DEF SpaceInv
    <3> QED BY <1>1, <1>4, <3>1 DEF DiskSpaceTypeOK, WriterRecord, Apart, SpaceInv
  <2> QED BY <1>5, <2>1, ApartSums, MarginAt
<1>8. SeenGood(w)'
  <2>1. writer'[w].seen <= free' + Total(filled, Others(w))'
    BY <1>1, <1>4, <1>7
  <2> QED BY <2>1 DEF SeenGood
<1>9. holds' \in [Writers -> Nat] /\ \A v \in Others(w) : holds'[v] = holds[v]
  BY <1>1 DEF SpaceInv, DiskSpaceTypeOK
<1>10. gambled' \in BOOLEAN
  BY <1>1 DEF SpaceInv, DiskSpaceTypeOK
<1>11. ~gambled' => ~gambled /\ free' >= FloorSpace + (Cover(w)' + Total(covers, Others(w)))
  BY <1>1, <1>6, MarginAt
<1>12. free' \in Int /\ free' + Filled(w)' >= free + Filled(w)
  BY <1>1, <1>6, MarginAt
<1> QED BY <1>2, <1>3, <1>5, <1>8, <1>9, <1>10, <1>11, <1>12, WriterStep
\* A writer that neither measured nor needs a new measurement.
LEMMA QuietStep ==
    ASSUME SpaceInv, NEW w \in Writers, NEW r \in WriterRecord, writer' = [writer EXCEPT ![w] = r],
           r.pc \notin Measured,
           NEW h \in Nat, holds' = holds \/ holds' = [holds EXCEPT ![w] = h], holds'[w] = h,
           free' \in Int, gambled' \in BOOLEAN, WriterGood(w)',
           free' + Filled(w)' >= free + Filled(w),
           ~gambled' => ~gambled /\ free' >= FloorSpace + (Cover(w)' + Total(covers, Others(w)))
    PROVE SpaceInv'
<1>1. holds' \in [Writers -> Nat] /\ \A v \in Others(w) : holds'[v] = holds[v]
  BY DEF SpaceInv, DiskSpaceTypeOK, Others
<1>2. writer'[w].pc = r.pc
  BY WriterFields DEF SpaceInv
<1>3. SeenGood(w)'
  BY <1>2 DEF SeenGood
<1> QED BY <1>1, <1>3, WriterStep

LEMMA PreflightStep ==
    ASSUME SpaceInv, NEW w \in Runs, BackupPreflight(w) PROVE SpaceInv'
<1>0. w \in Writers /\ WriterGood(w) /\ RunGood(w) /\ w \notin Streams
  BY SpaceNumbers DEF SpaceInv, WriterGood
<1>1. /\ writer[w].pc = "preflight" /\ holds[w] = 0 /\ writer[w].size = 0 /\ UNCHANGED free
      /\ writer[w] \in WriterRecord /\ writer[w].seen \in Int
  BY <1>0, WriterFields DEF BackupPreflight, RunGood, SpaceInv
<1>2. Filled(w) = 0 /\ Cover(w) = 0
  BY <1>1 DEF Filled, Cover
<1>3. CASE writer[w].seen < DbSize + WalRoom + FloorSpace + ReservedOn({})
  <2>1. AtRest \in WriterRecord /\ AtRest.pc = "idle" /\ AtRest.size = 0
    BY DEF AtRest, WriterRecord
  <2>2. writer' = [writer EXCEPT ![w] = AtRest] /\ UNCHANGED <<holds, gambled>>
    BY <1>3 DEF BackupPreflight
  <2>3. writer'[w] = AtRest /\ holds'[w] = 0
    BY <1>0, <1>1, <2>2, WriterFields DEF SpaceInv
  <2>4. WriterGood(w)' /\ Filled(w)' = 0 /\ Cover(w)' = 0
    BY <1>0, <2>1, <2>3 DEF WriterGood, RunGood, Filled, Cover
  <2>5. ~gambled' => ~gambled /\ free' >= FloorSpace + (Cover(w)' + Total(covers, Others(w)))
    BY <1>0, <1>1, <1>2, <2>2, <2>4, MarginAt
  <2>6. free' \in Int /\ gambled' \in BOOLEAN /\ free' + Filled(w)' >= free + Filled(w)
    BY <1>0, <1>1, <1>2, <2>2, <2>4, MarginAt
  <2>7. AtRest.pc \notin Measured
    BY <2>1 DEF Measured
  <2> QED BY <1>0, <2>1, <2>2, <2>3, <2>4, <2>5, <2>6, <2>7, QuietStep
<1>4. CASE ~(writer[w].seen < DbSize + WalRoom + FloorSpace + ReservedOn({}))
  <2> DEFINE r == [writer[w] EXCEPT !.pc = "snapshot"]
  <2>1. /\ r \in WriterRecord /\ r.pc = "snapshot" /\ r.size = 0
    BY <1>1 DEF WriterRecord
  <2>2. /\ writer' = [writer EXCEPT ![w] = r] /\ holds' = [holds EXCEPT ![w] = WholeHold]
        /\ gambled' = (gambled \/ writer[w].stale)
    BY <1>4 DEF BackupPreflight, WholeHold, Granted
  <2> HIDE DEF r
  <2>3. writer'[w] = r /\ holds'[w] = WholeHold /\ WholeHold \in Nat /\ writer[w].stale \in BOOLEAN
    BY <1>0, <2>2, WriterFields, SpaceNumbers DEF SpaceInv, DiskSpaceTypeOK
  <2>4. WriterGood(w)' /\ Filled(w)' = 0 /\ Cover(w)' = DbSize
    BY <1>0, <2>1, <2>3 DEF WriterGood, RunGood, Filled, Cover
  <2>5. gambled' \in BOOLEAN /\ (~gambled' => ~gambled /\ ~writer[w].stale)
    BY <1>0, <2>2, <2>3, MarginAt
  <2>6. ~gambled' => free' >= FloorSpace + (Cover(w)' + Total(covers, Others(w)))
    <3>1. ReservedOn({}) = Total(holds, Writers)
      BY DEF ReservedOn, Total
    <3>2. SUFFICES ASSUME ~gambled' PROVE free >= FloorSpace + (DbSize + Total(covers, Others(w)))
      BY <1>1, <2>4
    <3>3. writer[w].seen - Total(holds, Others(w)) <= free - Total(covers, Others(w))
      BY <1>0, <1>1, <2>5, <3>2, GrantGood DEF Measured
    <3>4. Total(holds, Writers) = 0 + Total(holds, Others(w)) /\ Total(holds, Others(w)) \in Nat
          /\ Total(covers, Others(w)) \in Nat /\ free \in Int
      BY <1>0, <1>1, MarginAt
    <3> QED BY <1>1, <1>4, <3>1, <3>3, <3>4, SpaceNumbers
  <2>7. free' \in Int /\ free' + Filled(w)' >= free + Filled(w)
    BY <1>0, <1>1, <1>2, <2>4, MarginAt
  <2>8. r.pc \notin Measured
    BY <2>1 DEF Measured
  <2> QED BY <1>0, <2>1, <2>2, <2>3, <2>4, <2>5, <2>6, <2>7, <2>8, QuietStep
<1> QED BY <1>3, <1>4
LEMMA SnapshotStep ==
    ASSUME SpaceInv, NEW w \in Runs, TakeSnapshot(w) PROVE SpaceInv'
<1>0. w \in Writers /\ RunGood(w) /\ w \notin Streams
      /\ DbSize \in Nat /\ WalRoom \in Nat /\ WholeHold \in Nat
  BY SpaceNumbers DEF SpaceInv, WriterGood
<1>1. /\ writer[w].pc = "snapshot" /\ holds[w] = WholeHold /\ writer[w].size = 0
      /\ free' = free - DbSize /\ UNCHANGED <<holds, gambled>> /\ writer[w] \in WriterRecord
  BY <1>0, WriterFields DEF TakeSnapshot, RunGood, SpaceInv
<1> DEFINE r == [writer[w] EXCEPT !.pc = "checked", !.size = DbSize]
<1>2. r \in WriterRecord /\ r.pc = "checked" /\ r.size = DbSize
  BY <1>0, <1>1 DEF WriterRecord
<1>3. writer' = [writer EXCEPT ![w] = r]
  BY DEF TakeSnapshot
<1> HIDE DEF r
<1>4. writer'[w] = r /\ holds'[w] = WholeHold
  BY <1>0, <1>1, <1>3, WriterFields DEF SpaceInv
<1>5. WriterGood(w)' /\ Cover(w)' = 0 /\ Cover(w) = DbSize
  BY <1>0, <1>1, <1>2, <1>4 DEF WriterGood, RunGood, Cover
<1>6. Filled(w) = 0 /\ Filled(w)' = DbSize
  <2>1. WholeHold = 0 => DbSize = 0
    BY <1>0 DEF WholeHold
  <2> QED BY <1>1, <1>2, <1>4, <2>1 DEF Filled
<1>7. ~gambled' => ~gambled /\ free' >= FloorSpace + (Cover(w)' + Total(covers, Others(w)))
  BY <1>0, <1>1, <1>5, MarginAt, SpaceNumbers
<1>8. free' \in Int /\ gambled' \in BOOLEAN /\ free' + Filled(w)' >= free + Filled(w)
  BY <1>0, <1>1, <1>6, MarginAt
<1>9. r.pc \notin Measured
  BY <1>2 DEF Measured
<1> QED BY <1>0, <1>1, <1>2, <1>3, <1>4, <1>5, <1>7, <1>8, <1>9, QuietStep

LEMMA OutputStep ==
    ASSUME SpaceInv, NEW w \in Runs, CheckOutputRoom(w) PROVE SpaceInv'
<1>0. w \in Writers /\ RunGood(w) /\ w \notin Streams
      /\ DbSize \in Nat /\ WalRoom \in Nat /\ WholeHold \in Nat
  BY SpaceNumbers DEF SpaceInv, WriterGood
<1>1. /\ writer[w].pc = "output" /\ holds[w] = WholeHold /\ writer[w].size = DbSize
      /\ writer[w] \in WriterRecord /\ writer[w].seen \in Int /\ writer[w].stale \in BOOLEAN
  BY <1>0, WriterFields DEF CheckOutputRoom, RunGood, SpaceInv
<1>2. CASE Usable(writer[w].seen, ReservedOn({w})) < DbSize
  BY <1>0, <1>2, MarginAt, ReleaseStep DEF CheckOutputRoom
<1>3. CASE ~(Usable(writer[w].seen, ReservedOn({w})) < DbSize)
  <2> DEFINE r == [writer[w] EXCEPT !.pc = "archive"]
  <2>1. r \in WriterRecord /\ r.pc = "archive" /\ r.size = DbSize
    BY <1>1 DEF WriterRecord
  <2>2. /\ writer' = [writer EXCEPT ![w] = r] /\ UNCHANGED <<free, holds>>
        /\ gambled' = (gambled \/ writer[w].stale)
    BY <1>3 DEF CheckOutputRoom, Granted
  <2> HIDE DEF r
  <2>3. writer'[w] = r /\ holds'[w] = WholeHold
    BY <1>0, <1>1, <2>2, WriterFields DEF SpaceInv
  <2>4. WriterGood(w)' /\ Cover(w)' = DbSize /\ Cover(w) = 0 /\ Filled(w)' = Filled(w)
    BY <1>0, <1>1, <2>1, <2>2, <2>3 DEF WriterGood, RunGood, Cover, Filled
  <2>5. gambled' \in BOOLEAN /\ (~gambled' => ~gambled /\ ~writer[w].stale)
    BY <1>0, <1>1, <2>2, MarginAt
  <2>6. ~gambled' => free' >= FloorSpace + (Cover(w)' + Total(covers, Others(w)))
    <3>1. ReservedOn({w}) = Total(holds, Others(w))
      BY DEF ReservedOn, Total, Others
    <3>2. SUFFICES ASSUME ~gambled' PROVE free >= FloorSpace + (DbSize + Total(covers, Others(w)))
      BY <2>2, <2>4
    <3>3. writer[w].seen - Total(holds, Others(w)) <= free - Total(covers, Others(w))
      BY <1>0, <1>1, <2>5, <3>2, GrantGood DEF Measured
    <3>4. free >= FloorSpace + (0 + Total(covers, Others(w)))
      BY <1>0, <2>4, <2>5, <3>2, MarginAt
    <3>5. Total(holds, Others(w)) \in Nat /\ Total(covers, Others(w)) \in Nat /\ free \in Int
      BY <1>0, MarginAt
    <3> QED BY <1>1, <1>3, <3>1, <3>3, <3>4, <3>5, SpaceNumbers DEF Usable
  <2>7. free' \in Int /\ free' + Filled(w)' >= free + Filled(w)
    BY <1>0, <2>2, <2>4, MarginAt
  <2>8. r.pc \notin Measured
    BY <2>1 DEF Measured
  <2> QED BY <1>0, <2>1, <2>2, <2>3, <2>4, <2>5, <2>6, <2>7, <2>8, QuietStep
<1> QED BY <1>2, <1>3

LEMMA ArchiveStep ==
    ASSUME SpaceInv, NEW w \in Runs, WriteArchive(w) PROVE SpaceInv'
<1>0. w \in Writers /\ RunGood(w) /\ w \notin Streams
      /\ DbSize \in Nat /\ WalRoom \in Nat /\ WholeHold \in Nat
  BY SpaceNumbers DEF SpaceInv, WriterGood
<1>1. /\ writer[w].pc = "archive" /\ holds[w] = WholeHold /\ UNCHANGED gambled
      /\ writer[w] \in WriterRecord /\ free \in Int
  BY <1>0, WriterFields, MarginAt DEF WriteArchive, RunGood, SpaceInv
<1>2. CASE writer[w].size # DbSize
  <2>1. Release(w) /\ \E saved \in BOOLEAN :
            free' = free + (IF saved THEN DbSize ELSE DbSize + DbSize)
    BY <1>2 DEF WriteArchive
  <2>2. free' \in Int /\ free' >= free
    BY <1>0, <1>1, <2>1
  <2> QED BY <1>0, <1>1, <2>1, <2>2, ReleaseStep
<1>3. CASE writer[w].size = DbSize
  <2> DEFINE r == [writer[w] EXCEPT !.size = DbSize + DbSize]
  <2>1. r \in WriterRecord /\ r.pc = "archive" /\ r.size = DbSize + DbSize
    BY <1>0, <1>1 DEF WriterRecord
  <2>2. writer' = [writer EXCEPT ![w] = r] /\ free' = free - DbSize /\ UNCHANGED holds
    BY <1>3 DEF WriteArchive
  <2> HIDE DEF r
  <2>3. writer'[w] = r /\ holds'[w] = WholeHold
    BY <1>0, <1>1, <2>2, WriterFields DEF SpaceInv
  <2>4. WriterGood(w)' /\ Cover(w)' = 0 /\ Cover(w) = DbSize
    BY <1>0, <1>1, <1>3, <2>1, <2>3 DEF WriterGood, RunGood, Cover
  <2>5. Filled(w)' = Filled(w) + DbSize
    <3>1. WholeHold = 0 => DbSize = 0
      BY <1>0 DEF WholeHold
    <3> QED BY <1>0, <1>1, <1>3, <2>1, <2>3, <3>1 DEF Filled
  <2>6. ~gambled' => ~gambled /\ free' >= FloorSpace + (Cover(w)' + Total(covers, Others(w)))
    BY <1>0, <1>1, <2>2, <2>4, MarginAt, SpaceNumbers
  <2>7. free' \in Int /\ gambled' \in BOOLEAN /\ free' + Filled(w)' >= free + Filled(w)
    BY <1>0, <1>1, <2>2, <2>5, MarginAt
  <2>8. r.pc \notin Measured
    BY <2>1 DEF Measured
  <2> QED BY <1>0, <2>1, <2>2, <2>3, <2>4, <2>6, <2>7, <2>8, QuietStep
<1> QED BY <1>2, <1>3

LEMMA ReserveStep ==
    ASSUME SpaceInv, NEW w \in Streams, ReserveRoom(w) PROVE SpaceInv'
<1>0. w \in Writers /\ StreamGood(w) /\ w \notin Runs /\ FirstGuess \in Nat
  BY SpaceNumbers DEF SpaceInv, WriterGood
<1>1. /\ writer[w].pc = "reserve" /\ holds[w] = 0 /\ writer[w].size = 0 /\ UNCHANGED free
      /\ writer[w] \in WriterRecord /\ writer[w].seen \in Int /\ writer[w].stale \in BOOLEAN
  BY <1>0, WriterFields DEF ReserveRoom, StreamGood, SpaceInv
<1>2. Filled(w) = 0 /\ Cover(w) = 0
  BY <1>1 DEF Filled, Cover
<1>3. CASE Usable(writer[w].seen, ReservedOn({})) < FirstGuess
  <2>1. AtRest \in WriterRecord /\ AtRest.pc = "idle" /\ AtRest.size = 0
    BY DEF AtRest, WriterRecord
  <2>2. writer' = [writer EXCEPT ![w] = AtRest] /\ UNCHANGED <<holds, gambled>>
    BY <1>3 DEF ReserveRoom
  <2>3. writer'[w] = AtRest /\ holds'[w] = 0
    BY <1>0, <1>1, <2>2, WriterFields DEF SpaceInv
  <2>4. WriterGood(w)' /\ Filled(w)' = 0 /\ Cover(w)' = 0
    BY <1>0, <2>1, <2>3 DEF WriterGood, StreamGood, Filled, Cover
  <2>5. ~gambled' => ~gambled /\ free' >= FloorSpace + (Cover(w)' + Total(covers, Others(w)))
    BY <1>0, <1>1, <1>2, <2>2, <2>4, MarginAt
  <2>6. free' \in Int /\ gambled' \in BOOLEAN /\ free' + Filled(w)' >= free + Filled(w)
    BY <1>0, <1>1, <1>2, <2>2, <2>4, MarginAt
  <2>7. AtRest.pc \notin Measured
    BY <2>1 DEF Measured
  <2> QED BY <1>0, <2>1, <2>2, <2>3, <2>4, <2>5, <2>6, <2>7, QuietStep
<1>4. CASE ~(Usable(writer[w].seen, ReservedOn({})) < FirstGuess)
  <2> DEFINE r == [writer[w] EXCEPT !.pc = "stream"]
  <2>1. r \in WriterRecord /\ r.pc = "stream" /\ r.size = 0
    BY <1>1 DEF WriterRecord
  <2>2. /\ writer' = [writer EXCEPT ![w] = r] /\ holds' = [holds EXCEPT ![w] = FirstGuess]
        /\ gambled' = (gambled \/ writer[w].stale)
    BY <1>4 DEF ReserveRoom, Granted
  <2> HIDE DEF r
  <2>3. writer'[w] = r /\ holds'[w] = FirstGuess
    BY <1>0, <2>2, WriterFields DEF SpaceInv, DiskSpaceTypeOK
  <2>4. WriterGood(w)' /\ Filled(w)' = 0 /\ Cover(w)' = FirstGuess
    BY <1>0, <2>1, <2>3 DEF WriterGood, StreamGood, Filled, Cover
  <2>5. gambled' \in BOOLEAN /\ (~gambled' => ~gambled /\ ~writer[w].stale)
    BY <1>0, <1>1, <2>2, MarginAt
  <2>6. ~gambled' => free' >= FloorSpace + (Cover(w)' + Total(covers, Others(w)))
    <3>1. ReservedOn({}) = Total(holds, Writers)
      BY DEF ReservedOn, Total
    <3>2. SUFFICES ASSUME ~gambled' PROVE free >= FloorSpace + (FirstGuess + Total(covers, Others(w)))
      BY <1>1, <2>4
    <3>3. writer[w].seen - Total(holds, Others(w)) <= free - Total(covers, Others(w))
      BY <1>0, <1>1, <2>5, <3>2, GrantGood DEF Measured
    <3>4. free >= FloorSpace + (0 + Total(covers, Others(w)))
      BY <1>0, <1>2, <2>5, <3>2, MarginAt
    <3>5. Total(holds, Writers) = 0 + Total(holds, Others(w)) /\ Total(holds, Others(w)) \in Nat
          /\ Total(covers, Others(w)) \in Nat /\ free \in Int
      BY <1>0, <1>1, MarginAt
    <3> QED BY <1>1, <1>4, <3>1, <3>3, <3>4, <3>5, SpaceNumbers DEF Usable
  <2>7. free' \in Int /\ free' + Filled(w)' >= free + Filled(w)
    BY <1>0, <1>1, <1>2, <2>4, MarginAt
  <2>8. r.pc \notin Measured
    BY <2>1 DEF Measured
  <2> QED BY <1>0, <2>1, <2>2, <2>3, <2>4, <2>5, <2>6, <2>7, <2>8, QuietStep
<1> QED BY <1>3, <1>4
LEMMA EnsureStep ==
    ASSUME SpaceInv, NEW w \in Streams, EnsureHeld(w) PROVE SpaceInv'
<1>0. w \in Writers /\ StreamGood(w) /\ w \notin Runs
  BY SpaceNumbers DEF SpaceInv, WriterGood
<1>1. /\ writer[w].pc = "stream" /\ writer[w].size <= holds[w] /\ writer[w].size < StreamLimit
      /\ writer[w].size \in Nat /\ holds[w] \in Nat /\ free \in Int
      /\ UNCHANGED <<holds, gambled>> /\ writer[w] \in WriterRecord
  BY <1>0, WriterFields, MarginAt DEF EnsureHeld, StreamGood, SpaceInv
<1>2. CASE writer[w].size + 1 <= holds[w]
  <2> DEFINE r == [writer[w] EXCEPT !.size = writer[w].size + 1]
  <2>1. r \in WriterRecord /\ r.pc = "stream" /\ r.size = writer[w].size + 1
    BY <1>1 DEF WriterRecord
  <2>2. writer' = [writer EXCEPT ![w] = r] /\ free' = free - 1
    BY <1>2 DEF EnsureHeld
  <2> HIDE DEF r
  <2>3. writer'[w] = r /\ holds'[w] = holds[w]
    BY <1>0, <1>1, <2>2, WriterFields DEF SpaceInv
  <2>4. WriterGood(w)'
    BY <1>0, <1>2, <2>1, <2>3 DEF WriterGood, StreamGood
  <2>5. Cover(w)' = Cover(w) - 1 /\ Filled(w)' = Filled(w) + 1
    BY <1>1, <1>2, <2>1, <2>3 DEF Cover, Filled
  <2>6. ~gambled' => ~gambled /\ free' >= FloorSpace + (Cover(w)' + Total(covers, Others(w)))
    BY <1>0, <1>1, <2>2, <2>5, MarginAt, SpaceNumbers
  <2>7. free' \in Int /\ gambled' \in BOOLEAN /\ free' + Filled(w)' >= free + Filled(w)
    BY <1>0, <1>1, <2>2, <2>5, MarginAt
  <2>8. r.pc \notin Measured
    BY <2>1 DEF Measured
  <2> QED BY <1>0, <1>1, <2>1, <2>2, <2>3, <2>4, <2>6, <2>7, <2>8, QuietStep
<1>3. CASE ~(writer[w].size + 1 <= holds[w])
  <2> DEFINE r == [writer[w] EXCEPT !.pc = "grow", !.seen = free, !.stale = FALSE]
  <2>1. r \in WriterRecord /\ r.pc = "grow" /\ r.seen = free /\ r.size = writer[w].size
    BY <1>1 DEF WriterRecord
  <2>2. writer' = [writer EXCEPT ![w] = r] /\ UNCHANGED free
    BY <1>3 DEF EnsureHeld
  <2> HIDE DEF r
  <2>3. writer'[w] = r /\ holds'[w] = holds[w] /\ \A v \in Others(w) : writer'[v] = writer[v]
    BY <1>0, <1>1, <2>2, WriterFields DEF SpaceInv, Others
  <2>4. writer[w].size = holds[w]
    BY <1>1, <1>3
  <2>5. WriterGood(w)' /\ Cover(w)' = 0 /\ Cover(w) = 0 /\ Filled(w)' = Filled(w)
    BY <1>0, <1>1, <2>1, <2>3, <2>4 DEF WriterGood, StreamGood, Cover, Filled
  <2>6. holds' \in [Writers -> Nat] /\ \A v \in Others(w) : holds'[v] = holds[v]
    BY <1>1 DEF SpaceInv, DiskSpaceTypeOK
  <2>7. Total(filled, Others(w))' \in Nat
    <3>1. writer' \in [Writers -> WriterRecord]
      BY <1>0, <2>1, <2>2, WriterFields DEF SpaceInv
    <3>2. DiskSpaceTypeOK' /\ Apart(w)
      BY <1>1, <2>2, <2>3, <2>6, <3>1 DEF DiskSpaceTypeOK, WriterRecord, Apart, SpaceInv
    <3> QED BY <1>0, <2>5, <3>2, ApartSums, MarginAt
  <2>8. SeenGood(w)'
    <3>1. writer'[w].seen <= free' + Total(filled, Others(w))'
      BY <1>1, <2>1, <2>2, <2>3, <2>7
    <3> QED BY <3>1 DEF SeenGood
  <2>9. ~gambled' => ~gambled /\ free' >= FloorSpace + (Cover(w)' + Total(covers, Others(w)))
    BY <1>0, <1>1, <2>2, <2>5, MarginAt
  <2>10. free' \in Int /\ gambled' \in BOOLEAN /\ free' + Filled(w)' >= free + Filled(w)
    BY <1>0, <1>1, <2>2, <2>5, MarginAt
  <2> QED BY <1>0, <2>1, <2>2, <2>5, <2>6, <2>8, <2>9, <2>10, WriterStep
<1> QED BY <1>2, <1>3

\* The lesser and the greater of two numbers.
LEMMA OfTwo ==
    ASSUME NEW a \in Nat, NEW b \in Nat
    PROVE /\ Min({a, b}) = (IF a <= b THEN a ELSE b)
          /\ Max({a, b}) = (IF a >= b THEN a ELSE b)
<1> DEFINE low == IF a <= b THEN a ELSE b
           top == IF a >= b THEN a ELSE b
<1>1. low \in {a, b} /\ top \in {a, b} /\ \A y \in {a, b} : low <= y /\ top >= y
  OBVIOUS
<1>2. /\ \A x \in {a, b} : (\A y \in {a, b} : x <= y) => x = low
      /\ \A x \in {a, b} : (\A y \in {a, b} : x >= y) => x = top
  OBVIOUS
<1> HIDE DEF low, top
<1>3. Min({a, b}) = low /\ Max({a, b}) = top
  BY <1>1, <1>2 DEF Min, Max
<1> QED BY <1>3 DEF low, top

LEMMA GrowStep ==
    ASSUME SpaceInv, NEW w \in Streams, GrowHold(w) PROVE SpaceInv'
<1> DEFINE need == writer[w].size + 1
           want == Min({StreamLimit, need + GrowBy})
           usable == Usable(writer[w].seen, ReservedOn({w}))
           more == IF usable < (want - need) + 1 THEN need ELSE want
<1>0. w \in Writers /\ StreamGood(w) /\ w \notin Runs /\ StreamLimit \in Nat /\ GrowBy \in Nat
  BY SpaceNumbers DEF SpaceInv, WriterGood
<1>1. /\ writer[w].pc = "grow" /\ writer[w].size = holds[w] /\ writer[w].size < StreamLimit
      /\ writer[w].size \in Nat /\ holds[w] \in Nat /\ free \in Int /\ writer[w] \in WriterRecord
      /\ writer[w].seen \in Int /\ writer[w].stale \in BOOLEAN
  BY <1>0, WriterFields, MarginAt DEF GrowHold, StreamGood, SpaceInv
<1>2. need \in Nat /\ want \in Nat /\ need <= want
  <2>1. need \in Nat /\ need + GrowBy \in Nat /\ need <= StreamLimit
    BY <1>0, <1>1
  <2>2. want = IF StreamLimit <= need + GrowBy THEN StreamLimit ELSE need + GrowBy
    BY <1>0, <2>1, OfTwo
  <2> HIDE DEF want
  <2> QED BY <1>0, <2>1, <2>2
<1>3. CASE usable < 1
  <2>1. Release(w) /\ free' = free + writer[w].size /\ UNCHANGED gambled
    BY <1>3 DEF GrowHold
  <2>2. free' \in Int /\ free' >= free
    BY <1>1, <2>1
  <2> QED BY <1>0, <2>1, <2>2, ReleaseStep
<1>4. CASE ~(usable < 1)
  <2> DEFINE r == [writer[w] EXCEPT !.pc = "stream", !.size = need]
  <2>1. /\ holds' = [holds EXCEPT ![w] = Max({holds[w], more})]
        /\ writer' = [writer EXCEPT ![w] = r]
        /\ free' = free - 1 /\ gambled' = (gambled \/ writer[w].stale)
    BY <1>4 DEF GrowHold, Granted
  <2>2. r \in WriterRecord /\ r.pc = "stream" /\ r.size = need
    BY <1>1, <1>2 DEF WriterRecord
  <2> HIDE DEF r
  <2>3. usable \in Nat /\ usable >= 1
        /\ writer[w].seen - FloorSpace - Total(holds, Others(w)) = usable
    <3>1. ReservedOn({w}) = Total(holds, Others(w))
      BY DEF ReservedOn, Total, Others
    <3>2. Total(holds, Others(w)) \in Nat /\ FloorSpace \in Nat
      BY <1>0, MarginAt, SpaceNumbers
    <3> QED BY <1>1, <1>4, <3>1, <3>2 DEF Usable
  <2> HIDE DEF usable, want
  <2>4. more \in Nat /\ more >= need /\ (more = need \/ usable >= (more - need) + 1)
    BY <1>2, <2>3
  <2> HIDE DEF more
  <2>5. Max({holds[w], more}) = more
    <3>1. ~(holds[w] >= more)
      BY <1>1, <1>2, <2>4
    <3> QED BY <1>1, <2>4, <3>1, OfTwo
  <2>6. writer'[w] = r /\ holds'[w] = more /\ holds' = [holds EXCEPT ![w] = more]
    BY <1>0, <2>1, <2>5, WriterFields DEF SpaceInv, DiskSpaceTypeOK
  <2>7. WriterGood(w)'
    BY <1>0, <1>2, <2>2, <2>4, <2>6 DEF WriterGood, StreamGood
  <2>8. Cover(w)' = more - need /\ Filled(w)' = need /\ Filled(w) = writer[w].size
    BY <1>1, <1>2, <2>2, <2>4, <2>6 DEF Cover, Filled
  <2>9. gambled' \in BOOLEAN /\ (~gambled' => ~gambled /\ ~writer[w].stale)
    BY <1>0, <1>1, <2>1, MarginAt
  <2>10. ~gambled' => free' >= FloorSpace + (Cover(w)' + Total(covers, Others(w)))
    <3>1. SUFFICES ASSUME ~gambled'
                   PROVE free - 1 >= FloorSpace + ((more - need) + Total(covers, Others(w)))
      BY <2>1, <2>8
    <3>2. writer[w].seen - Total(holds, Others(w)) <= free - Total(covers, Others(w))
      BY <1>0, <1>1, <2>9, <3>1, GrantGood DEF Measured
    <3>3. Total(holds, Others(w)) \in Nat /\ Total(covers, Others(w)) \in Nat /\ FloorSpace \in Nat
      BY <1>0, MarginAt, SpaceNumbers
    <3> HIDE DEF need
    <3> QED BY <1>1, <1>2, <2>3, <2>4, <3>2, <3>3
  <2>11. free' \in Int /\ free' + Filled(w)' >= free + Filled(w)
    BY <1>1, <2>1, <2>8
  <2>12. r.pc \notin Measured
    BY <2>2 DEF Measured
  <2> QED BY <1>0, <2>1, <2>2, <2>4, <2>6, <2>7, <2>9, <2>10, <2>11, <2>12, QuietStep
<1> QED BY <1>3, <1>4

LEMMA FinishStep ==
    ASSUME SpaceInv, NEW w \in Streams, FinishStream(w) PROVE SpaceInv'
<1>1. w \in Writers
  BY SpaceNumbers
<1>2. free \in Int /\ writer[w].size \in Nat
  BY <1>1, WriterFields DEF SpaceInv, DiskSpaceTypeOK
<1>3. Release(w) /\ UNCHANGED gambled /\ free' \in {free, free + writer[w].size}
  BY DEF FinishStream
<1>4. free' \in Int /\ free' >= free
  BY <1>2, <1>3
<1> QED BY <1>1, <1>3, <1>4, ReleaseStep

LEMMA HangStep ==
    ASSUME SpaceInv, NEW w \in Writers, Hang(w) PROVE SpaceInv'
<1>0. WriterGood(w) /\ Runs \cap Streams = {} /\ Writers = Runs \cup Streams
      /\ DbSize \in Nat /\ WalRoom \in Nat
  BY SpaceNumbers DEF SpaceInv
<1>1. /\ writer[w].pc \in {"archive", "stream"} /\ UNCHANGED <<free, holds, gambled>>
      /\ writer[w].size \in Nat /\ holds[w] \in Nat /\ writer[w] \in WriterRecord
  BY WriterFields DEF Hang, SpaceInv
<1>2. writer[w].size <= holds[w]
  BY <1>0, <1>1 DEF WriterGood, RunGood, StreamGood, WholeHold
<1> DEFINE r == [writer[w] EXCEPT !.pc = "hung"]
<1>3. r \in WriterRecord /\ r.pc = "hung" /\ r.size = writer[w].size
  BY <1>1 DEF WriterRecord
<1>4. writer' = [writer EXCEPT ![w] = r]
  BY DEF Hang
<1> HIDE DEF r
<1>5. writer'[w] = r /\ holds'[w] = holds[w]
  BY <1>1, <1>4, WriterFields DEF SpaceInv
<1>6. WriterGood(w)' /\ Cover(w)' = 0 /\ Filled(w)' = Filled(w)
  BY <1>2, <1>3, <1>5 DEF WriterGood, RunGood, StreamGood, Cover, Filled
<1>7. ~gambled' => ~gambled /\ free' >= FloorSpace + (Cover(w)' + Total(covers, Others(w)))
  BY <1>1, <1>6, MarginAt, SpaceNumbers
<1>8. free' \in Int /\ gambled' \in BOOLEAN /\ free' + Filled(w)' >= free + Filled(w)
  BY <1>1, <1>6, MarginAt
<1>9. r.pc \notin Measured
  BY <1>3 DEF Measured
<1> QED BY <1>1, <1>3, <1>4, <1>5, <1>6, <1>7, <1>8, <1>9, QuietStep

LEMMA ExpireStep ==
    ASSUME SpaceInv, NEW w \in Writers, ExpireHold(w) PROVE SpaceInv'
<1>1. /\ writer[w].pc = "hung" /\ holds' = [holds EXCEPT ![w] = 0] /\ UNCHANGED <<free, gambled>>
      /\ writer' = [v \in Writers |-> [writer[v] EXCEPT !.stale = v # w]]
      /\ \A v \in Writers : writer[v] \in WriterRecord
      /\ holds \in [Writers -> Nat]
  BY WriterFields DEF ExpireHold, SpaceInv, DiskSpaceTypeOK
<1>2. \A v \in Writers : /\ writer'[v] \in WriterRecord /\ writer'[v].stale = (v # w)
                         /\ writer'[v].pc = writer[v].pc /\ writer'[v].size = writer[v].size
                         /\ writer'[v].seen = writer[v].seen
  <2>1. ASSUME NEW v \in Writers, NEW b \in BOOLEAN
        PROVE /\ [writer[v] EXCEPT !.stale = b] \in WriterRecord
              /\ [writer[v] EXCEPT !.stale = b].stale = b
              /\ [writer[v] EXCEPT !.stale = b].pc = writer[v].pc
              /\ [writer[v] EXCEPT !.stale = b].size = writer[v].size
              /\ [writer[v] EXCEPT !.stale = b].seen = writer[v].seen
    BY <1>1, <2>1 DEF WriterRecord
  <2> QED BY <1>1, <2>1
<1>3. holds' \in [Writers -> Nat] /\ holds'[w] = 0 /\ \A v \in Others(w) : holds'[v] = holds[v]
  BY <1>1 DEF Others
<1>4. DiskSpaceTypeOK'
  <2>1. writer' \in [Writers -> WriterRecord]
    BY <1>1, <1>2
  <2> QED BY <1>1, <1>3, <2>1 DEF SpaceInv, DiskSpaceTypeOK, WriterRecord
<1>5. Apart(w) /\ \A v \in Others(w) : writer'[v].stale
  BY <1>2, <1>3 DEF Apart, Others
<1>6. writer'[w].pc = "hung"
  BY <1>1, <1>2
<1>7. WriterGood(w)'
  <2>1. WriterGood(w)
    BY DEF SpaceInv
  <2> QED BY <1>1, <1>3, <1>6, <2>1 DEF WriterGood, RunGood, StreamGood
<1>8. SeenGood(w)' /\ Cover(w)' = 0
  BY <1>6 DEF SeenGood, Measured, Cover
<1>9. ~gambled' => ~gambled /\ free' >= FloorSpace + (Cover(w)' + Total(covers, Others(w)))
  BY <1>1, <1>8, MarginAt, SpaceNumbers
<1> QED BY <1>4, <1>5, <1>7, <1>8, <1>9, SpaceMoves

LEMMA SpaceKept == ASSUME SpaceInv, DiskSpaceNext PROVE SpaceInv'
<1>1. Writers = Runs \cup Streams
  BY SpaceNumbers
<1>2. ASSUME NEW w \in Runs,
             \/ Measure(w, "idle", "preflight") \/ BackupPreflight(w)
             \/ TakeSnapshot(w) \/ Measure(w, "checked", "output")
             \/ CheckOutputRoom(w) \/ WriteArchive(w)
      PROVE SpaceInv'
  BY <1>1, <1>2, MeasureStep, PreflightStep, SnapshotStep, OutputStep, ArchiveStep
<1>3. ASSUME NEW w \in Streams,
             \/ Measure(w, "idle", "reserve") \/ ReserveRoom(w)
             \/ EnsureHeld(w) \/ GrowHold(w) \/ FinishStream(w)
      PROVE SpaceInv'
  BY <1>1, <1>3, MeasureStep, ReserveStep, EnsureStep, GrowStep, FinishStep
<1>4. ASSUME NEW w \in Writers, Hang(w) \/ ExpireHold(w) PROVE SpaceInv'
  BY <1>4, HangStep, ExpireStep
<1> QED BY <1>2, <1>3, <1>4 DEF DiskSpaceNext

LEMMA SpaceRests == ASSUME SpaceInv, UNCHANGED dsVars PROVE SpaceInv'
BY DEF SpaceInv, dsVars, DiskSpaceTypeOK, MarginLeft, covers, filled, Cover, Filled, WriterGood,
   RunGood, StreamGood, SeenGood, Total

LEMMA SpaceShown == ASSUME SpaceInv PROVE DiskSpaceTypeOK /\ FloorKept
<1>1. DiskSpaceTypeOK /\ Total(covers, Writers) \in Nat
      /\ (~gambled => free >= FloorSpace + Total(covers, Writers))
  BY SumsTyped DEF SpaceInv, MarginLeft
<1>2. free \in Int
  BY <1>1 DEF DiskSpaceTypeOK
<1> QED BY <1>1, <1>2, SpaceNumbers DEF FloorKept

-----------------------------------------------------------------------------
(* The saved status: the invariant. *)

StatusFiles == (SUBSET Outcomes) \cup {NoStatus}
Recording == [pc : {"idle", "prepare", "install", "ready", "snapshot", "write"},
              dir : StatusDirs, gen : Nat, data : SUBSET Outcomes, read : StatusFiles]
StatusTyped ==
    /\ statusDir \in StatusDirs /\ target \in StatusDirs /\ noted \subseteq Outcomes
    /\ stateGen \in Nat /\ writtenGen \in Nat /\ writtenGen <= stateGen
    /\ statusFile \in [StatusDirs -> StatusFiles] /\ beside \in StatusFiles /\ gone \subseteq StatusDirs
    /\ recorder \in [Recorders -> Recording]
    /\ outcomes \in 0 .. MaxOutcomes /\ unsaved \subseteq StatusDirs /\ mixed \in BOOLEAN

\* Snapshots are numbered, each by its own.
Numbered ==
    \A r \in Recorders : recorder[r].pc = "write" =>
        /\ recorder[r].gen <= stateGen
        /\ \A q \in Recorders \ {r} : recorder[q].pc = "write" => recorder[q].gen # recorder[r].gen

\* As long as the directory did not change under a save, every save is of it.
Saving(r) == recorder[r].pc \in {"snapshot", "write"}
OneDir == \A r \in Recorders : Saving(r) => recorder[r].dir = statusDir

\* The newest snapshot is what the memory holds: it is still to be written, or it was
\* and the older ones will be dropped.
Freshest(r) == recorder[r].pc = "write" /\ recorder[r].gen = stateGen /\ recorder[r].data = noted
Shown == statusDir \in unsaved \/ Loaded(Saved(statusDir)) = noted
Written ==
    /\ \A r \in Recorders : recorder[r].pc = "write" => recorder[r].gen < writtenGen
    /\ Shown
Taken == \A r \in Recorders : recorder[r].pc # "snapshot"
StatusInv ==
    /\ StatusTyped /\ Numbered
    /\ ~mixed => OneDir /\ (Taken => Written \/ \E r \in Recorders : Freshest(r))

\* What is written is told from a missing file.
LEMMA NoStatusIsNone == NoStatus \notin SUBSET Outcomes /\ Loaded(NoStatus) = {}
                        /\ \A x \in SUBSET Outcomes : Loaded(x) = x
<1>1. 0 \notin Outcomes
  BY BackupStatusAssumption DEF Outcomes
<1> QED BY <1>1 DEF NoStatus, Loaded

LEMMA AtRestRecording == NotRecording \in Recording
<1>1. (CHOOSE d \in StatusDirs : TRUE) \in StatusDirs
  BY BackupStatusAssumption
<1> QED BY <1>1 DEF NotRecording, Recording, StatusFiles

LEMMA StatusFirst == ASSUME BackupStatusInit PROVE StatusInv
<1>2. StatusTyped
  <2>1. 0 \in 0 .. MaxOutcomes
    BY BackupStatusAssumption
  <2>2. recorder \in [Recorders -> Recording] /\ statusFile \in [StatusDirs -> StatusFiles]
        /\ beside \in StatusFiles /\ gone \subseteq StatusDirs
    BY AtRestRecording DEF BackupStatusInit, StatusFiles
  <2>3. stateGen \in Nat /\ writtenGen \in Nat /\ writtenGen <= stateGen
    BY DEF BackupStatusInit
  <2>4. /\ statusDir \in StatusDirs /\ target \in StatusDirs /\ noted \subseteq Outcomes
        /\ unsaved \subseteq StatusDirs /\ mixed \in BOOLEAN
    BY DEF BackupStatusInit
  <2> QED BY <2>1, <2>2, <2>3, <2>4 DEF BackupStatusInit, StatusTyped
<1>3. \A r \in Recorders : recorder[r].pc = "idle"
  BY DEF BackupStatusInit, NotRecording
<1>4. Loaded(Saved(statusDir)) = noted
  <2>1. Saved(statusDir) = NoStatus
    BY DEF BackupStatusInit, Saved
  <2> QED BY <2>1, NoStatusIsNone DEF BackupStatusInit
<1> QED BY <1>2, <1>3, <1>4 DEF BackupStatusInit, StatusInv, Numbered, OneDir, Saving, Written, Shown

\* What an operation reads, and what is installed.
LEMMA StatusRead ==
    ASSUME StatusTyped, NEW d \in StatusDirs
    PROVE Saved(d) \in StatusFiles /\ Reads(d) \subseteq StatusFiles
          /\ \A read \in StatusFiles : Installed(d, read) \subseteq Outcomes
<1>1. Saved(d) \in StatusFiles /\ NoStatus \in StatusFiles
  BY DEF StatusTyped, Saved, StatusFiles
<1> QED BY <1>1 DEF Reads, Installed, Loaded, StatusFiles, StatusTyped

LEMMA StatusTypedStep == ASSUME StatusTyped, Numbered, BackupStatusNext PROVE StatusTyped'
<1>0. \A r \in Recorders : recorder[r] \in Recording /\ recorder[r].dir \in StatusDirs
  BY DEF StatusTyped, Recording
<1>1. ASSUME NEW r \in Recorders, BeginOutcome(r) PROVE StatusTyped'
  <2>1. [recorder[r] EXCEPT !.pc = "prepare", !.dir = target] \in Recording
    BY <1>0 DEF StatusTyped, Recording
  <2>2. recorder' = [recorder EXCEPT ![r] = [recorder[r] EXCEPT !.pc = "prepare", !.dir = target]]
    BY <1>1 DEF BeginOutcome
  <2>3. recorder' \in [Recorders -> Recording]
    BY <2>1, <2>2 DEF StatusTyped
  <2> QED BY <1>1, <2>3 DEF BeginOutcome, memoryVars, genVars, savedVars, StatusTyped
<1>2. ASSUME NEW r \in Recorders, PrepareBackupStatus(r) PROVE StatusTyped'
  <2>1. CASE recorder' = [recorder EXCEPT ![r].pc = "ready"]
    <3>1. [recorder[r] EXCEPT !.pc = "ready"] \in Recording
      BY <1>0 DEF Recording
    <3>2. recorder' \in [Recorders -> Recording]
      BY <2>1, <3>1 DEF StatusTyped
    <3> QED BY <1>2, <3>2 DEF PrepareBackupStatus, memoryVars, genVars, savedVars, StatusTyped
  <2>2. ASSUME NEW read \in Reads(recorder[r].dir),
               recorder' = [recorder EXCEPT ![r] = [@ EXCEPT !.pc = "install", !.read = read]]
        PROVE StatusTyped'
    <3>1. read \in StatusFiles
      BY <1>0, <2>2, StatusRead
    <3>2. [recorder[r] EXCEPT !.pc = "install", !.read = read] \in Recording
      BY <1>0, <3>1 DEF Recording
    <3>3. recorder' = [recorder EXCEPT ![r] = [recorder[r] EXCEPT !.pc = "install", !.read = read]]
      BY <2>2
    <3>4. recorder' \in [Recorders -> Recording]
      BY <3>2, <3>3 DEF StatusTyped
    <3> QED BY <1>2, <3>4 DEF PrepareBackupStatus, memoryVars, genVars, savedVars, StatusTyped
  <2> QED BY <1>2, <2>1, <2>2 DEF PrepareBackupStatus
<1>3. ASSUME NEW r \in Recorders, InstallBackupStatus(r) PROVE StatusTyped'
  <2>1. [recorder[r] EXCEPT !.pc = "ready", !.read = NoStatus] \in Recording
    BY <1>0 DEF Recording, StatusFiles
  <2>2. recorder' = [recorder EXCEPT ![r] = [recorder[r] EXCEPT !.pc = "ready", !.read = NoStatus]]
    BY <1>3 DEF InstallBackupStatus
  <2>3. recorder' \in [Recorders -> Recording]
    BY <2>1, <2>2 DEF StatusTyped
  <2>4. noted' \subseteq Outcomes /\ statusDir' \in StatusDirs /\ mixed' \in BOOLEAN
    <3>1. recorder[r].read \in StatusFiles
      BY <1>0 DEF Recording
    <3> QED BY <1>0, <1>3, <3>1, StatusRead DEF InstallBackupStatus, Install
  <2> QED BY <1>3, <2>3, <2>4 DEF InstallBackupStatus, genVars, savedVars, StatusTyped
<1>4. ASSUME NEW r \in Recorders, RecordOutcome(r) PROVE StatusTyped'
  <2>1. outcomes + 1 \in Outcomes /\ outcomes + 1 \in 0 .. MaxOutcomes
    BY <1>4, BackupStatusAssumption DEF RecordOutcome, StatusTyped, Outcomes
  <2>2. PICK read \in Reads(recorder[r].dir) :
          /\ Install(recorder[r].dir, read)
          /\ noted' = Installed(recorder[r].dir, read) \cup {outcomes + 1}
    BY <1>4 DEF RecordOutcome
  <2>3. noted' \subseteq Outcomes /\ statusDir' \in StatusDirs /\ mixed' \in BOOLEAN
    BY <1>0, <2>1, <2>2, StatusRead DEF Install
  <2>4. [recorder[r] EXCEPT !.pc = "snapshot"] \in Recording
    BY <1>0 DEF Recording
  <2>5. recorder' \in [Recorders -> Recording]
    BY <1>4, <2>4 DEF RecordOutcome, StatusTyped
  <2> QED BY <1>4, <2>1, <2>3, <2>5 DEF RecordOutcome, genVars, savedVars, StatusTyped
<1>5. ASSUME NEW r \in Recorders, BackupStatusSnapshot(r) PROVE StatusTyped'
  <2>1. PICK read \in Reads(recorder[r].dir) :
          Install(recorder[r].dir, read) /\ noted' = Installed(recorder[r].dir, read)
    BY <1>5 DEF BackupStatusSnapshot
  <2>2. noted' \subseteq Outcomes /\ statusDir' \in StatusDirs /\ mixed' \in BOOLEAN
    BY <1>0, <2>1, StatusRead DEF Install
  <2>3. recorder' \in [Recorders -> Recording]
    BY <1>5, AtRestRecording DEF BackupStatusSnapshot, StatusTyped
  <2> QED BY <1>5, <2>2, <2>3 DEF BackupStatusSnapshot, genVars, savedVars, StatusTyped
<1>6. ASSUME NEW r \in Recorders, SnapshotStatus(r) PROVE StatusTyped'
  <2>0. stateGen + 1 \in Nat /\ noted \in SUBSET Outcomes /\ writtenGen <= stateGen + 1
    BY DEF StatusTyped
  <2>1. [recorder[r] EXCEPT !.pc = "write", !.gen = stateGen + 1, !.data = noted] \in Recording
    BY <1>0, <2>0 DEF Recording
  <2>2. recorder' = [recorder EXCEPT ![r] = [recorder[r] EXCEPT !.pc = "write",
                                                !.gen = stateGen + 1, !.data = noted]]
    BY <1>6 DEF SnapshotStatus
  <2>3. recorder' \in [Recorders -> Recording]
    BY <2>1, <2>2 DEF StatusTyped
  <2> QED BY <1>6, <2>0, <2>3 DEF SnapshotStatus, memoryVars, savedVars, StatusTyped
<1>7. ASSUME NEW r \in Recorders, PersistBackupStatus(r) PROVE StatusTyped'
  <2>1. recorder' \in [Recorders -> Recording]
    BY <1>7, AtRestRecording DEF PersistBackupStatus, StatusTyped
  <2>2. writtenGen' \in Nat /\ writtenGen' <= stateGen'
    <3>1. recorder[r].gen \in Nat /\ recorder[r].gen <= stateGen
      BY <1>0, <1>7 DEF PersistBackupStatus, Recording, Numbered
    <3> QED BY <1>7, <3>1 DEF PersistBackupStatus, StatusTyped
  <2>3. statusFile' \in [StatusDirs -> StatusFiles] /\ beside' \in StatusFiles
        /\ unsaved' \subseteq StatusDirs
    <3>1. recorder[r].data \in StatusFiles /\ recorder[r].dir \in StatusDirs /\ NoStatus \in StatusFiles
      BY <1>0 DEF Recording, StatusFiles
    <3> QED BY <1>7, <3>1 DEF PersistBackupStatus, WriteStatusFile, StatusTyped
  <2> QED BY <1>7, <2>1, <2>2, <2>3 DEF PersistBackupStatus, memoryVars, StatusTyped
<1>8. CASE ChangeTargetDir
  BY <1>8 DEF ChangeTargetDir, memoryVars, genVars, StatusTyped
<1> QED BY <1>1, <1>2, <1>3, <1>4, <1>5, <1>6, <1>7, <1>8 DEF BackupStatusNext

\* A recorder that starts or prepares saves nothing.
LEMMA SavesStay ==
    ASSUME StatusInv, NEW r \in Recorders, ~Saving(r), ~Saving(r)',
           \A q \in Recorders \ {r} : recorder'[q] = recorder[q],
           UNCHANGED <<statusDir, noted, mixed, stateGen, writtenGen, statusFile, beside, gone, unsaved>>
    PROVE Numbered' /\ (~mixed' => OneDir' /\ (Taken' => Written' \/ \E q \in Recorders : Freshest(q)'))
<1>1. Numbered'
  BY DEF StatusInv, Numbered, Saving
<1>2. OneDir => OneDir'
  BY DEF OneDir, Saving
<1>3. Shown' <=> Shown
  BY DEF Shown, Saved, Loaded
<1>4. Taken' => Taken
  BY DEF Taken, Saving
<1>5. Written => Written'
  BY <1>3 DEF Written, Saving
<1>6. \A q \in Recorders : Freshest(q) => Freshest(q)'
  BY DEF Freshest, Saving
<1> QED BY <1>1, <1>2, <1>4, <1>5, <1>6 DEF StatusInv

\* Nor does one that installs what was read: with no save under way, and the reading
\* not overtaken, the memory is then what is saved.
LEMMA InstallsSaved ==
    ASSUME StatusInv, NEW r \in Recorders, ~Saving(r), ~Saving(r)', NEW d, NEW read,
           \A q \in Recorders \ {r} : recorder'[q] = recorder[q],
           Install(d, read), noted' = Installed(d, read),
           UNCHANGED <<stateGen, writtenGen, statusFile, beside, gone, unsaved>>
    PROVE Numbered' /\ (~mixed' => OneDir' /\ (Taken' => Written' \/ \E q \in Recorders : Freshest(q)'))
<1>1. CASE d = statusDir
  <2>1. statusDir' = statusDir /\ noted' = noted /\ mixed' = mixed
    BY <1>1 DEF Install, Installed, StatusInv, StatusTyped
  <2> QED BY <2>1, SavesStay
<1>2. CASE d # statusDir
  <2>1. Numbered'
    BY DEF StatusInv, Numbered, Saving
  <2>2. ASSUME ~mixed' PROVE OneDir' /\ Written'
    <3>1. read = Saved(d) /\ statusDir' = d /\ \A q \in Recorders : ~Saving(q)
      BY <1>2, <2>2 DEF Install, Saving
    <3>2. \A q \in Recorders : ~Saving(q)'
      BY <3>1 DEF Saving
    <3>3. noted' = Loaded(Saved(d)) /\ Saved(d)' = Saved(d)
      BY <1>2, <3>1 DEF Installed, Saved
    <3>4. Shown'
      BY <3>1, <3>3 DEF Shown, Saved, Loaded
    <3> QED BY <3>2, <3>4 DEF OneDir, Written, Saving
  <2> QED BY <2>1, <2>2
<1> QED BY <1>1, <1>2

LEMMA StatusKept == ASSUME StatusInv, [BackupStatusNext]_bsVars PROVE StatusInv'
<1>0. StatusTyped /\ Numbered
  BY DEF StatusInv
<1>1. ASSUME NEW r \in Recorders, BeginOutcome(r) \/ PrepareBackupStatus(r) PROVE StatusInv'
  <2>1. StatusTyped'
    BY <1>0, <1>1, StatusTypedStep DEF BackupStatusNext
  <2>2. /\ recorder'[r].pc \in {"prepare", "ready", "install"} /\ recorder[r].pc \in {"idle", "prepare"}
        /\ \A q \in Recorders \ {r} : recorder'[q] = recorder[q]
    BY <1>0, <1>1 DEF BeginOutcome, PrepareBackupStatus, StatusTyped, Recording
  <2>3. UNCHANGED <<statusDir, noted, mixed, stateGen, writtenGen, statusFile, beside, gone, unsaved>>
    BY <1>1 DEF BeginOutcome, PrepareBackupStatus, memoryVars, genVars, savedVars
  <2>4. ~Saving(r) /\ ~Saving(r)'
    BY <2>2 DEF Saving
  <2> QED BY <2>1, <2>2, <2>3, <2>4, SavesStay DEF StatusInv
<1>2. ASSUME NEW r \in Recorders, InstallBackupStatus(r) PROVE StatusInv'
  <2>1. StatusTyped'
    BY <1>0, <1>2, StatusTypedStep DEF BackupStatusNext
  <2>2. /\ recorder'[r].pc = "ready" /\ recorder[r].pc = "install"
        /\ \A q \in Recorders \ {r} : recorder'[q] = recorder[q]
    BY <1>0, <1>2 DEF InstallBackupStatus, StatusTyped, Recording
  <2>3. UNCHANGED <<stateGen, writtenGen, statusFile, beside, gone, unsaved>>
        /\ Install(recorder[r].dir, recorder[r].read)
        /\ noted' = Installed(recorder[r].dir, recorder[r].read)
    BY <1>2 DEF InstallBackupStatus, genVars, savedVars
  <2>4. ~Saving(r) /\ ~Saving(r)'
    BY <2>2 DEF Saving
  <2> QED BY <2>1, <2>2, <2>3, <2>4, InstallsSaved DEF StatusInv
<1>3. ASSUME NEW r \in Recorders, BackupStatusSnapshot(r) PROVE StatusInv'
  <2>1. StatusTyped'
    BY <1>0, <1>3, StatusTypedStep DEF BackupStatusNext
  <2>2. /\ recorder'[r].pc = "idle" /\ recorder[r].pc = "ready"
        /\ \A q \in Recorders \ {r} : recorder'[q] = recorder[q]
    BY <1>0, <1>3 DEF BackupStatusSnapshot, StatusTyped, NotRecording
  <2>3. PICK read : Install(recorder[r].dir, read) /\ noted' = Installed(recorder[r].dir, read)
    BY <1>3 DEF BackupStatusSnapshot
  <2>4. UNCHANGED <<stateGen, writtenGen, statusFile, beside, gone, unsaved>>
    BY <1>3 DEF BackupStatusSnapshot, genVars, savedVars
  <2>5. ~Saving(r) /\ ~Saving(r)'
    BY <2>2 DEF Saving
  <2> QED BY <2>1, <2>2, <2>3, <2>4, <2>5, InstallsSaved DEF StatusInv
<1>4. ASSUME NEW r \in Recorders, RecordOutcome(r) PROVE StatusInv'
  <2>1. StatusTyped'
    BY <1>0, <1>4, StatusTypedStep DEF BackupStatusNext
  <2>2. /\ recorder'[r].pc = "snapshot" /\ recorder'[r].dir = recorder[r].dir
        /\ recorder[r].pc = "ready"
        /\ \A q \in Recorders \ {r} : recorder'[q] = recorder[q]
    BY <1>0, <1>4 DEF RecordOutcome, StatusTyped, Recording
  <2>3. /\ UNCHANGED <<stateGen, writtenGen>> /\ statusDir' = recorder[r].dir
        /\ ~mixed' => ~mixed
        /\ ~mixed' /\ statusDir' # statusDir => \A q \in Recorders : ~Saving(q)
    BY <1>4 DEF RecordOutcome, Install, genVars, Saving
  <2>4. Numbered'
    BY <1>0, <2>2, <2>3 DEF Numbered
  <2>5. ~mixed' => OneDir'
    BY <2>2, <2>3 DEF OneDir, Saving, StatusInv
  <2>6. ~Taken'
    BY <2>2 DEF Taken
  <2> QED BY <2>1, <2>4, <2>5, <2>6 DEF StatusInv
<1>5. ASSUME NEW r \in Recorders, SnapshotStatus(r) PROVE StatusInv'
  <2>1. StatusTyped'
    BY <1>0, <1>5, StatusTypedStep DEF BackupStatusNext
  <2>2. /\ recorder[r].pc = "snapshot" /\ recorder'[r].pc = "write"
        /\ recorder'[r].dir = recorder[r].dir /\ recorder'[r].data = noted
        /\ recorder'[r].gen = stateGen + 1 /\ stateGen' = stateGen + 1
        /\ \A q \in Recorders \ {r} : recorder'[q] = recorder[q]
    BY <1>0, <1>5 DEF SnapshotStatus, StatusTyped, Recording
  <2>3. UNCHANGED <<statusDir, noted, mixed>>
    BY <1>5 DEF SnapshotStatus, memoryVars
  <2>4. Numbered'
    <3>1. \A q \in Recorders : recorder[q].gen \in Nat
      BY <1>0 DEF StatusTyped, Recording
    <3>2. stateGen \in Nat
      BY <1>0 DEF StatusTyped
    <3> QED BY <1>0, <2>2, <3>1, <3>2 DEF Numbered
  <2>5. OneDir => OneDir'
    BY <2>2, <2>3 DEF OneDir, Saving
  <2>6. Freshest(r)'
    BY <2>2, <2>3 DEF Freshest
  <2> QED BY <2>1, <2>3, <2>4, <2>5, <2>6 DEF StatusInv
<1>6. ASSUME NEW r \in Recorders, PersistBackupStatus(r) PROVE StatusInv'
  <2>1. StatusTyped'
    BY <1>0, <1>6, StatusTypedStep DEF BackupStatusNext
  <2>2. /\ recorder[r].pc = "write" /\ recorder'[r].pc = "idle"
        /\ \A q \in Recorders \ {r} : recorder'[q] = recorder[q]
    BY <1>0, <1>6 DEF PersistBackupStatus, StatusTyped, NotRecording
  <2>3. UNCHANGED <<statusDir, noted, stateGen, mixed, gone>>
    BY <1>6 DEF PersistBackupStatus, memoryVars
  <2>4. Numbered'
    BY <1>0, <2>2, <2>3 DEF Numbered
  <2>5. OneDir => OneDir'
    BY <2>2, <2>3 DEF OneDir, Saving
  <2>6. ASSUME ~mixed, Taken' PROVE Written' \/ \E q \in Recorders : Freshest(q)'
    <3>1. Taken /\ OneDir /\ recorder[r].dir = statusDir
      BY <2>2, <2>6 DEF Taken, StatusInv, OneDir, Saving
    <3>2. CASE Written
      <4>1. UNCHANGED <<writtenGen, statusFile, beside, unsaved>>
        <5>1. recorder[r].gen < writtenGen /\ recorder[r].gen \in Nat /\ writtenGen \in Nat
          BY <1>0, <2>2, <3>2 DEF Written, StatusTyped, Recording
        <5> QED BY <1>6, <5>1 DEF PersistBackupStatus
      <4>2. Shown'
        BY <2>3, <3>2, <4>1 DEF Written, Shown, Saved, Loaded
      <4> QED BY <2>2, <2>3, <3>2, <4>1, <4>2 DEF Written
    <3>3. ASSUME NEW q \in Recorders, Freshest(q), q # r PROVE Freshest(q)'
      BY <2>2, <2>3, <3>3 DEF Freshest
    <3>4. CASE Freshest(r)
      <4>1. ~(recorder[r].gen < writtenGen) /\ writtenGen' = stateGen
        <5>1. recorder[r].gen = stateGen /\ stateGen \in Nat /\ writtenGen \in Nat
              /\ writtenGen <= stateGen
          BY <1>0, <3>4 DEF Freshest, StatusTyped
        <5> QED BY <1>6, <5>1 DEF PersistBackupStatus
      <4>2. Shown'
        <5>1. CASE statusDir \in unsaved'
          BY <2>3, <5>1 DEF Shown
        <5>2. CASE WriteStatusFile(statusDir, noted)
          <6>1. Saved(statusDir)' = noted
            BY <1>0, <2>3, <5>2, NoStatusIsNone DEF WriteStatusFile, Saved, StatusTyped
          <6>2. Loaded(Saved(statusDir)') = noted
            BY <1>0, <6>1, NoStatusIsNone DEF StatusTyped
          <6> QED BY <2>3, <6>2 DEF Shown, Saved, Loaded
        <5> QED BY <1>6, <3>1, <3>4, <4>1, <5>1, <5>2 DEF PersistBackupStatus, Freshest
      <4>3. ASSUME NEW q \in Recorders \ {r}, recorder[q].pc = "write"
            PROVE recorder[q].gen < stateGen
        <5>1. recorder[q].gen <= stateGen /\ recorder[q].gen # recorder[r].gen
          BY <1>0, <2>2, <4>3 DEF Numbered
        <5>2. recorder[q].gen \in Nat /\ stateGen \in Nat
          BY <1>0 DEF StatusTyped, Recording
        <5> QED BY <3>4, <5>1, <5>2 DEF Freshest
      <4> QED BY <2>2, <2>3, <4>1, <4>2, <4>3 DEF Written
    <3> QED BY <2>6, <3>1, <3>2, <3>3, <3>4 DEF StatusInv
  <2> QED BY <2>1, <2>3, <2>4, <2>5, <2>6 DEF StatusInv
<1>7. CASE ChangeTargetDir
  <2>1. StatusTyped'
    BY <1>0, <1>7, StatusTypedStep DEF BackupStatusNext
  <2>2. UNCHANGED <<statusDir, noted, mixed, stateGen, writtenGen, statusFile, beside, recorder>>
    BY <1>7 DEF ChangeTargetDir, memoryVars, genVars
  <2>3. unsaved \subseteq unsaved' /\ (gone' = gone \/ \E d : /\ unsaved' = unsaved \cup {d}
          /\ \A x : x # d => (x \in gone' <=> x \in gone))
    BY <1>7 DEF ChangeTargetDir
  <2>4. Shown => Shown'
    <3>1. CASE statusDir \in unsaved'
      BY <2>2, <3>1 DEF Shown
    <3>2. CASE statusDir \notin unsaved'
      <4>1. statusDir \in gone' <=> statusDir \in gone
        BY <2>3, <3>2
      <4>2. Saved(statusDir)' = Saved(statusDir)
        BY <2>2, <4>1 DEF Saved
      <4> QED BY <2>2, <2>3, <3>2, <4>2 DEF Shown, Loaded
    <3> QED BY <3>1, <3>2
  <2>5. Written => Written'
    BY <2>2, <2>4 DEF Written
  <2> QED BY <2>1, <2>2, <2>5 DEF StatusInv, Numbered, OneDir, Saving, Taken, Freshest
<1>8. CASE UNCHANGED bsVars
  <2>1. Shown' <=> Shown
    BY <1>8 DEF bsVars, Shown, Saved, Loaded
  <2> QED BY <1>8, <2>1 DEF bsVars, StatusInv, StatusTyped, Numbered, OneDir, Saving, Taken, Written,
        Freshest
<1> QED BY <1>1, <1>2, <1>3, <1>4, <1>5, <1>6, <1>7, <1>8 DEF BackupStatusNext

LEMMA StatusShown == ASSUME StatusInv PROVE BackupStatusTypeOK /\ StatusSaved
<1>1. StatusTyped
  BY DEF StatusInv
<1>2. BackupStatusTypeOK
  BY <1>1 DEF StatusTyped, BackupStatusTypeOK, Recording, StatusFiles
<1>3. ASSUME \A r \in Recorders : recorder[r].pc \notin {"snapshot", "write"},
             statusDir \notin unsaved, ~mixed
      PROVE Loaded(Saved(statusDir)) = noted
  BY <1>3 DEF StatusInv, Taken, Written, Shown, Freshest
<1> QED BY <1>2, <1>3 DEF StatusSaved

-----------------------------------------------------------------------------
(* The command line: the invariant. *)

WholeCopy == copy.got = Chunks /\ copy.magic /\ copy.synced

\* A download that still runs: what it has, by where it is.
Underway ==
    /\ at \in {"start", "asked", "answered", "copy", "flush", "judge", "place", "linked", "swap",
               "unhold", "undo", "placed"}
    /\ at \in {"start", "asked", "answered"} => ~temp
    /\ at \in {"flush", "judge"} /\ flags = {} => copy.got = Chunks
    /\ at = "judge" /\ flags = {} => copy.synced
    /\ at \in {"place", "linked", "swap", "placed"} => WholeCopy
    /\ at \in {"place", "swap"} => flags = {}
    /\ at \notin {"linked", "placed", "swap", "unhold", "undo"} => out \in {"none", "theirs"}
    /\ at \in {"linked", "placed"} => out = "ours"
    /\ at \in {"swap", "unhold"} => out \in {"hold", "theirs"} /\ (out = "theirs" => OthersReplace)
    /\ at = "unhold" => flags \in {{}, {"unclosed"}}
    /\ at = "undo" => out # "ours" /\ (out = "hold" => warned \/ flags = {"unclosed"})
    /\ at = "placed" /\ temp => warned

DownloadInv ==
    cmd.kind = "download" =>
        /\ told \in {"", "saved", "failed", "killed"}
        /\ told = "" => Underway
        /\ out = "ours" => WholeCopy
        /\ lost => OthersReplace
        /\ told = "saved" => out = "ours"
        /\ told \in {"saved", "failed"} =>
             (temp => warned) /\ (out = "hold" => warned \/ flags = {"unclosed"})

UploadInv ==
    /\ upload.answer = "ok" => upload.saved
    /\ told = "uploaded" => upload.saved \/ upload.answer = "page"

\* Result 1 says what became of this restore, which is requested once.
RequestInv ==
    cmd.kind = "restore" =>
        /\ at \in {"start", "wait"}
        /\ at = "start" => ~server.pending /\ told = ""
        /\ at = "start" \/ server.pending => server.result.ref # 1 /\ 1 \notin server.applied
        /\ server.result.ref = 1 => (server.result.ok <=> 1 \in server.applied)
        /\ wait.ref = 1 => /\ told = "success" => 1 \in server.applied
                           /\ told = "failed" => 1 \notin server.applied

ClientInv == ClientTypeOK /\ DownloadInv /\ UploadInv /\ RequestInv

CopyRecords == [got : 0..Chunks, magic : BOOLEAN, synced : BOOLEAN]
UploadRecords == [sent : 0..Chunks, eof : BOOLEAN, saved : BOOLEAN,
            answer : {"none", "ok", "refused", "redirect", "page"},
            fired : {"none", "stalled", "noResponse"}, unread : BOOLEAN]
ResultRecords == [ref : 0..3, ok : BOOLEAN]
ServerRecords == [boot : Nat, up : BOOLEAN, result : ResultRecords, applied : SUBSET {1, 2},
                  pending : BOOLEAN, session : BOOLEAN]
WaitRecords == [before : {0} \cup Nat, ref : {0, 1}, down : BOOLEAN, polls : 0..MaxPolls,
          shown : ResultRecords]
Verdicts == {"", "saved", "failed", "killed", "uploaded", "nothing", "unsure", "success",
             "session", "unknown", "timeout", "cleared"}
Events == {"interrupted", "full", "stalled", "cut", "short", "unsynced", "unclosed"}

\* The type invariant by the parts of the state.
LocalTyped ==
    /\ cmd \in Commands /\ told \in Verdicts
    /\ out \in {"none", "theirs", "hold", "ours"}
    /\ temp \in BOOLEAN /\ lost \in BOOLEAN /\ warned \in BOOLEAN
    /\ reply \in {"none", "backup", "error", "page", "masked"}
    /\ flags \subseteq Events
Parted ==
    /\ LocalTyped /\ copy \in CopyRecords /\ upload \in UploadRecords /\ server \in ServerRecords
    /\ wait \in WaitRecords /\ fsLeft \in 0..MaxClientFaults /\ eventsLeft \in 0..MaxServerEvents

LEMMA PartsTyped == ClientTypeOK <=> Parted
  BY DEF ClientTypeOK, Parted, LocalTyped, Verdicts, Events, CopyRecords, UploadRecords,
     ServerRecords, WaitRecords,
     ResultRecords

LEMMA ClientFirst == ASSUME ClientInit PROVE ClientInv
<1>0. 0 \in 0..Chunks /\ 0 \in 0..MaxPolls /\ NoRestoreResult \in ResultRecords /\ Earlier \in ResultRecords
      /\ MaxClientFaults \in 0..MaxClientFaults /\ MaxServerEvents \in 0..MaxServerEvents
  BY ClientAssumption DEF NoRestoreResult, Earlier, ResultRecords
<1>1. server \in ServerRecords
  <2>1. PICK r \in {NoRestoreResult, Earlier} :
          server = [boot |-> 1, up |-> TRUE, result |-> r, applied |-> {}, pending |-> FALSE,
                    session |-> TRUE]
    BY DEF ClientInit
  <2> QED BY <1>0, <2>1 DEF ServerRecords
<1>2. copy \in CopyRecords /\ wait \in WaitRecords
  BY <1>0 DEF ClientInit, CopyRecords, WaitRecords
<1>3. upload \in UploadRecords
  BY <1>0 DEF ClientInit, UploadRecords
<1>4. LocalTyped
  BY <1>0 DEF ClientInit, LocalTyped, Verdicts, Events
<1>5. ClientTypeOK
  BY <1>0, <1>1, <1>2, <1>3, <1>4, PartsTyped DEF Parted, ClientInit
<1>6. DownloadInv
  BY DEF ClientInit, DownloadInv, Underway
<1>7. UploadInv /\ RequestInv
  <2>1. server.pending = FALSE /\ server.applied = {} /\ server.result.ref \in {0, 3}
    <3>1. PICK r \in {NoRestoreResult, Earlier} :
          server = [boot |-> 1, up |-> TRUE, result |-> r, applied |-> {}, pending |-> FALSE,
                    session |-> TRUE]
      BY DEF ClientInit
    <3> QED BY <3>1 DEF NoRestoreResult, Earlier
  <2>2. UploadInv /\ at = "start" /\ told = ""
    BY DEF ClientInit, UploadInv
  <2>3. server.result.ref # 1 /\ 1 \notin server.applied
    BY <2>1
  <2> QED BY <2>1, <2>2, <2>3 DEF RequestInv
<1> QED BY <1>5, <1>6, <1>7 DEF ClientInv

\* The types survive every step of the transfer ...
LEMMA DownloadTyped == ASSUME ClientTypeOK, Downloading PROVE ClientTypeOK'
<1>0. Parted /\ copy \in CopyRecords
  BY PartsTyped DEF Parted
<1>1. copy' \in CopyRecords
  <2>1. CASE Receive
    <3>1. (reply = "backup") \in BOOLEAN /\ copy.got + 1 \in 0..Chunks
      BY <1>0, <2>1, ClientAssumption DEF Receive, CopyRecords
    <3>2. copy' = [copy EXCEPT !.got = copy.got + 1, !.magic = (reply = "backup")]
      BY <2>1 DEF Receive
    <3> QED BY <1>0, <3>1, <3>2 DEF CopyRecords
  <2>2. CASE Flush
    BY <1>0, <2>2 DEF Flush, CopyRecords
  <2>3. CASE Kill
    <3>1. 0 \in 0..Chunks
      BY ClientAssumption
    <3>2. copy' = copy \/ copy' = [copy EXCEPT !.got = 0]
      BY <2>3 DEF Kill
    <3> QED BY <1>0, <3>1, <3>2 DEF CopyRecords
  <2>4. CASE UNCHANGED copy
    BY <1>0, <2>4
  <2> QED BY <2>1, <2>2, <2>3, <2>4 DEF Downloading, StartDownload, Answer, CreateTemp, EndCopy,
     Interrupt, JudgeTransfer, PlaceForced, PlaceLinked, RemoveLinkedTemp, PlaceHolder, SwapHolder,
     RemoveHolder, UndoPlace, SyncParentDir, OtherProcess, Local
<1>2. LocalTyped'
  <2> USE DEF Tell, Goto, RemoveTemp, Fail, Local
  <2>0. LocalTyped
    BY <1>0 DEF Parted
  <2>1. CASE StartDownload \/ Answer
    BY <2>0, <2>1 DEF StartDownload, Answer, LocalTyped, Verdicts
  <2>2. CASE CreateTemp
    BY <2>0, <2>2 DEF CreateTemp, LocalTyped, Verdicts
  <2>3. CASE Receive \/ Interrupt
    BY <2>0, <2>3 DEF Receive, Interrupt, LocalTyped, Events
  <2>4. CASE EndCopy
    BY <2>0, <2>4 DEF EndCopy, LocalTyped, Events
  <2>5. CASE Flush
    BY <2>0, <2>5 DEF Flush, LocalTyped, Events
  <2>6. CASE JudgeTransfer \/ RemoveLinkedTemp
    BY <2>0, <2>6 DEF JudgeTransfer, RemoveLinkedTemp, LocalTyped, Verdicts
  <2>7. CASE PlaceForced \/ PlaceLinked
    BY <2>0, <2>7 DEF PlaceForced, PlaceLinked, LocalTyped, Verdicts
  <2>8. CASE PlaceHolder
    <3>1. flags' \subseteq Events
      BY <2>0, <2>8 DEF PlaceHolder, LocalTyped, Events
    <3> QED BY <2>0, <2>8, <3>1 DEF PlaceHolder, LocalTyped, Verdicts
  <2>9. CASE SwapHolder
    <3>1. lost' \in BOOLEAN /\ temp' \in BOOLEAN /\ out' \in {out, "ours"}
      BY <2>0, <2>9 DEF SwapHolder, LocalTyped
    <3> QED BY <2>0, <2>9, <3>1 DEF SwapHolder, LocalTyped, Verdicts
  <2>12. CASE RemoveHolder
    <3>1. lost' \in BOOLEAN /\ warned' \in BOOLEAN /\ out' \in {out, "none"}
      BY <2>0, <2>12 DEF RemoveHolder, LocalTyped
    <3> QED BY <2>0, <2>12, <3>1 DEF RemoveHolder, LocalTyped, Verdicts
  <2>13. CASE UndoPlace
    BY <2>0, <2>13 DEF UndoPlace, LocalTyped, Verdicts
  <2>10. CASE SyncParentDir \/ Kill
    BY <2>0, <2>10 DEF SyncParentDir, Kill, LocalTyped, Verdicts
  <2>11. CASE OtherProcess
    BY <2>0, <2>11 DEF OtherProcess, LocalTyped
  <2> QED BY <2>1, <2>2, <2>3, <2>4, <2>5, <2>6, <2>7, <2>8, <2>9, <2>10, <2>11,
     <2>12, <2>13 DEF Downloading
<1>3. UNCHANGED <<upload, server, wait, eventsLeft>>
  BY DEF Downloading, StartDownload, Answer, CreateTemp, Receive, EndCopy, Interrupt, Flush,
     JudgeTransfer, PlaceForced, PlaceLinked, RemoveLinkedTemp, PlaceHolder, SwapHolder,
     RemoveHolder, UndoPlace, SyncParentDir, Kill,
     OtherProcess, Remote
<1>4. fsLeft' \in 0..MaxClientFaults
  <2>1. FsFails \/ UNCHANGED fsLeft
    BY DEF Downloading, StartDownload, Answer, CreateTemp, Receive, EndCopy, Interrupt, Flush,
       JudgeTransfer, PlaceForced, PlaceLinked, RemoveLinkedTemp, PlaceHolder, SwapHolder,
       RemoveHolder, UndoPlace, SyncParentDir,
       Kill, OtherProcess, FsWorks, RemoveTemp, Fail, Local
  <2> QED BY <1>0, <2>1, ClientAssumption DEF Parted, FsFails
<1>5. Parted'
  BY <1>0, <1>1, <1>2, <1>3, <1>4 DEF Parted
<1> QED BY <1>5, PartsTyped, PTL

Uploading == SendChunk \/ SendEOF \/ ServeUpload \/ LoseAnswer \/ TimerFires \/ UploadAnswered \/ UploadFailed
Restoring == RequestRestore \/ Restart \/ Meanwhile \/ PollRestore \/ ShowResult \/ Acknowledge

\* ... of an upload ...
LEMMA UploadTyped == ASSUME ClientTypeOK, Uploading PROVE ClientTypeOK'
<1>0. Parted /\ upload \in UploadRecords /\ told \in Verdicts /\ Chunks \in Nat /\ MaxServerEvents \in Nat
      /\ eventsLeft \in 0..MaxServerEvents
  BY PartsTyped, ClientAssumption DEF Parted, LocalTyped
<1>1. UNCHANGED <<cmd, Local, server, wait>>
  BY DEF Uploading, SendChunk, SendEOF, ServeUpload, LoseAnswer, TimerFires, UploadAnswered,
     UploadFailed, UploadOnly
<1>2. upload' \in UploadRecords
  <2>1. CASE SendChunk
    <3>1. PICK bad \in BOOLEAN :
            upload' = [upload EXCEPT !.sent = IF bad THEN @ ELSE @ + 1, !.unread = bad]
      BY <2>1 DEF SendChunk
    <3>2. upload.sent + 1 \in 0..Chunks /\ upload.sent \in 0..Chunks
      BY <1>0, <2>1 DEF SendChunk, UploadRecords
    <3> QED BY <1>0, <3>1, <3>2 DEF UploadRecords
  <2>2. CASE SendEOF \/ TimerFires
    BY <1>0, <2>2 DEF SendEOF, TimerFires, UploadRecords
  <2>3. CASE ServeUpload \/ LoseAnswer
    BY <1>0, <2>3 DEF ServeUpload, LoseAnswer, UploadRecords
  <2>4. CASE UploadAnswered \/ UploadFailed
    BY <1>0, <2>4 DEF UploadAnswered, UploadFailed, Redirected
  <2> QED BY <2>1, <2>2, <2>3, <2>4 DEF Uploading
<1>3. told' \in Verdicts /\ eventsLeft' \in 0..MaxServerEvents
  <2>1. CASE UploadAnswered
    <3>1. told' \in {"uploaded", "nothing", "failed"}
      BY <2>1 DEF UploadAnswered
    <3> QED BY <1>0, <2>1, <3>1 DEF UploadAnswered, Verdicts
  <2>2. CASE UploadFailed
    BY <1>0, <2>2 DEF UploadFailed, Tell, Verdicts
  <2>3. CASE LoseAnswer
    BY <1>0, <2>3 DEF LoseAnswer
  <2>4. CASE SendChunk \/ SendEOF \/ ServeUpload \/ TimerFires
    BY <1>0, <2>4 DEF SendChunk, SendEOF, ServeUpload, TimerFires
  <2> QED BY <2>1, <2>2, <2>3, <2>4 DEF Uploading
<1>4. Parted'
  BY <1>0, <1>1, <1>2, <1>3 DEF Parted, LocalTyped, Local
<1> QED BY <1>4, PartsTyped, PTL

\* ... and of a restore.
LEMMA RequestTyped == ASSUME ClientTypeOK, Restoring PROVE ClientTypeOK'
<1>0. /\ Parted /\ server \in ServerRecords /\ wait \in WaitRecords /\ told \in Verdicts
      /\ MaxPolls \in Nat /\ MaxServerEvents \in Nat /\ eventsLeft \in 0..MaxServerEvents
      /\ NoRestoreResult \in ResultRecords
  BY PartsTyped, ClientAssumption DEF Parted, LocalTyped, NoRestoreResult, ResultRecords
<1>1. UNCHANGED <<cmd, Local, upload>>
  BY DEF Restoring, RequestRestore, Restart, Meanwhile, PollRestore, ShowResult,
     Acknowledge, WaitOnly
<1>2. server' \in ServerRecords
  <2>1. CASE RequestRestore
    BY <1>0, <2>1 DEF RequestRestore, ServerRecords
  <2>2. CASE Restart
    <3>1. PICK swapped, kept \in BOOLEAN :
         server' = [server EXCEPT
            !.boot = @ + 1, !.up = TRUE, !.pending = FALSE,
            !.result = IF server.pending THEN [ref |-> 1, ok |-> swapped] ELSE @,
            !.applied = IF server.pending /\ swapped THEN @ \cup {1} ELSE @,
            !.session = IF server.pending /\ swapped THEN kept ELSE @]
      BY <2>2 DEF Restart
    <3>2. [ref |-> 1, ok |-> swapped] \in ResultRecords
      BY DEF ResultRecords
    <3>3. server.boot + 1 \in Nat /\ TRUE \in BOOLEAN /\ FALSE \in BOOLEAN
      BY <1>0 DEF ServerRecords
    <3>4. /\ (IF server.pending THEN [ref |-> 1, ok |-> swapped] ELSE server.result) \in ResultRecords
          /\ (IF server.pending /\ swapped THEN server.applied \cup {1} ELSE server.applied)
               \in SUBSET {1, 2}
          /\ (IF server.pending /\ swapped THEN kept ELSE server.session) \in BOOLEAN
      BY <1>0, <3>2 DEF ServerRecords
    <3> QED BY <1>0, <3>1, <3>3, <3>4 DEF ServerRecords
  <2>3. CASE Meanwhile
    <3>1. CASE \E ok \in BOOLEAN :
            server' = [server EXCEPT !.result = [ref |-> 2, ok |-> ok], !.boot = @ + 1,
                                     !.applied = IF ok THEN @ \cup {2} ELSE @]
      <4>1. \A ok \in BOOLEAN : [ref |-> 2, ok |-> ok] \in ResultRecords
        BY DEF ResultRecords
      <4>2. PICK ok \in BOOLEAN :
            server' = [server EXCEPT !.result = [ref |-> 2, ok |-> ok], !.boot = @ + 1,
                                     !.applied = IF ok THEN @ \cup {2} ELSE @]
        BY <3>1
      <4>3. /\ server.boot + 1 \in Nat
            /\ (IF ok THEN server.applied \cup {2} ELSE server.applied) \in SUBSET {1, 2}
        BY <1>0 DEF ServerRecords
      <4> QED BY <1>0, <4>1, <4>2, <4>3 DEF ServerRecords
    <3>2. CASE \/ server' = [server EXCEPT !.up = ~@]
               \/ server' = [server EXCEPT !.result = NoRestoreResult]
               \/ server' = [server EXCEPT !.session = FALSE]
      BY <1>0, <3>2 DEF ServerRecords
    <3> QED BY <2>3, <3>1, <3>2 DEF Meanwhile
  <2>4. CASE PollRestore \/ ShowResult
    BY <1>0, <2>4 DEF PollRestore, ShowResult
  <2>5. CASE Acknowledge
    BY <1>0, <2>5 DEF Acknowledge, ServerRecords
  <2> QED BY <2>1, <2>2, <2>3, <2>4, <2>5 DEF Restoring
<1>3. wait' \in WaitRecords
  <2>1. CASE RequestRestore
    BY <1>0, <2>1 DEF RequestRestore, WaitRecords, ServerRecords
  <2>2. CASE PollRestore
    <3>1. CASE UNCHANGED wait
      BY <1>0, <3>1
    <3>2. CASE wait.polls < MaxPolls /\ wait' = [wait EXCEPT !.polls = @ + 1, !.down = @ \/ ~server.up]
      <4>1. wait.polls + 1 \in 0..MaxPolls
        BY <1>0, <3>2 DEF WaitRecords
      <4>2. (wait.down \/ ~server.up) \in BOOLEAN
        OBVIOUS
      <4> QED BY <1>0, <3>2, <4>1, <4>2 DEF WaitRecords
    <3> QED BY <2>2, <3>1, <3>2 DEF PollRestore
  <2>3. CASE ShowResult
    <3>1. server.result \in ResultRecords
      BY <1>0 DEF ServerRecords
    <3> QED BY <1>0, <2>3, <3>1 DEF ShowResult, WaitRecords
  <2>4. CASE Restart \/ Meanwhile \/ Acknowledge
    BY <1>0, <2>4 DEF Restart, Meanwhile, Acknowledge
  <2> QED BY <2>1, <2>2, <2>3, <2>4 DEF Restoring
<1>4. told' \in Verdicts /\ eventsLeft' \in 0..MaxServerEvents
  <2>1. CASE Restart \/ Meanwhile
    <3>1. ServerEvent /\ UNCHANGED told
      BY <2>1 DEF Restart, Meanwhile
    <3> QED BY <1>0, <3>1 DEF ServerEvent
  <2>2. CASE PollRestore
    <3>1. ReadResult(server.result, wait.ref) \in Verdicts
      BY DEF ReadResult, Verdicts
    <3> QED BY <1>0, <2>2, <3>1 DEF PollRestore, Tell, Goto, Verdicts
  <2>3. CASE RequestRestore \/ ShowResult \/ Acknowledge
    BY <1>0, <2>3 DEF RequestRestore, ShowResult, Acknowledge, Tell, Goto, Verdicts
  <2> QED BY <2>1, <2>2, <2>3 DEF Restoring
<1>5. Parted'
  BY <1>0, <1>1, <1>2, <1>3, <1>4 DEF Parted, LocalTyped, Local
<1> QED BY <1>5, PartsTyped, PTL

\* A step of another command leaves the transfer where it is.
LEMMA DownloadStep == ASSUME ClientTypeOK, DownloadInv, Downloading PROVE DownloadInv'
<1> USE DEF Client, Remote, Local, FsFails, FsWorks, Tell, Goto, RemoveTemp, Fail
<1>1. CASE StartDownload \/ Answer \/ CreateTemp
  BY <1>1 DEF StartDownload, Answer, CreateTemp, DownloadInv, Underway, WholeCopy
<1>2. CASE Receive \/ EndCopy \/ Interrupt
  BY <1>2, ClientAssumption DEF Receive, EndCopy, Interrupt, DownloadInv, Underway,
     WholeCopy, ClientTypeOK
<1>3. CASE Flush
  <2>1. copy \in CopyRecords
    BY PartsTyped DEF Parted
  <2>2. CASE UNCHANGED copy /\ (\/ flags \cap {"full", "stalled", "cut"} # {} /\ UNCHANGED flags
                                \/ flags' = flags \cup {"unsynced"})
    <3>1. flags' # {} /\ cmd' = cmd /\ at = "flush" /\ at' = "judge" /\ told = "" /\ told' = ""
          /\ UNCHANGED <<out, temp, lost, warned>>
      BY <1>3, <2>2 DEF Flush
    <3> QED BY <2>2, <3>1 DEF DownloadInv, Underway, WholeCopy
  <2>3. CASE copy' = [copy EXCEPT !.synced = TRUE] /\ UNCHANGED flags /\ FsWorks
    <3>1. copy'.got = copy.got /\ copy'.magic = copy.magic /\ copy'.synced
      BY <2>1, <2>3 DEF CopyRecords
    <3> QED BY <1>3, <2>3, <3>1 DEF Flush, DownloadInv, Underway, WholeCopy
  <2> QED BY <1>3, <2>2, <2>3 DEF Flush
<1>4. CASE Kill
  BY <1>4 DEF Kill, DownloadInv, Underway, WholeCopy, ClientTypeOK
<1>5. CASE JudgeTransfer
  BY <1>5 DEF JudgeTransfer, TransferGood, DownloadInv, Underway, WholeCopy
<1>6. CASE PlaceForced \/ PlaceLinked
  BY <1>6 DEF PlaceForced, PlaceLinked, DownloadInv, Underway, WholeCopy, ClientTypeOK
<1>7. CASE RemoveLinkedTemp \/ SyncParentDir
  BY <1>7 DEF RemoveLinkedTemp, SyncParentDir, DownloadInv, Underway, WholeCopy
<1>8. CASE PlaceHolder
  BY <1>8 DEF PlaceHolder, DownloadInv, Underway, WholeCopy, ClientTypeOK
<1>9. CASE SwapHolder
  BY <1>9 DEF SwapHolder, DownloadInv, Underway, WholeCopy
<1>10. CASE OtherProcess /\ UNCHANGED eventsLeft
  BY <1>10 DEF OtherProcess, DownloadInv, Underway, WholeCopy
<1>11. CASE RemoveHolder
  BY <1>11 DEF RemoveHolder, DownloadInv, Underway, WholeCopy
<1>12. CASE UndoPlace
  BY <1>12 DEF UndoPlace, DownloadInv, Underway, WholeCopy
<1> QED BY <1>1, <1>2, <1>3, <1>4, <1>5, <1>6, <1>7, <1>8, <1>9, <1>10, <1>11,
   <1>12 DEF Downloading

\* An upload that the server calls accepted is on the server.
LEMMA UploadStep == ASSUME ClientTypeOK, UploadInv, Uploading PROVE UploadInv'
<1>0. upload \in UploadRecords
  BY PartsTyped DEF Parted
<1>1. CASE SendChunk \/ SendEOF
  BY <1>0, <1>1 DEF SendChunk, SendEOF, UploadInv, UploadRecords
<1>2. CASE ServeUpload
  BY <1>0, <1>2 DEF ServeUpload, UploadInv, UploadRecords
<1>3. CASE LoseAnswer \/ TimerFires
  BY <1>0, <1>3 DEF LoseAnswer, TimerFires, UploadInv, UploadRecords
<1>4. CASE UploadAnswered
  BY <1>4 DEF UploadAnswered, Redirected, UploadInv
<1>5. CASE UploadFailed
  BY <1>5 DEF UploadFailed, Tell, UploadInv
<1> QED BY <1>1, <1>2, <1>3, <1>4, <1>5 DEF Uploading

\* A result with this restore's reference says what became of it.
LEMMA RequestStep == ASSUME ClientTypeOK, RequestInv, Restoring PROVE RequestInv'
<1>0. server \in ServerRecords /\ wait \in WaitRecords
  BY PartsTyped DEF Parted
<1>00. SUFFICES ASSUME cmd'.kind = "restore" PROVE RequestInv'
  BY DEF RequestInv
<1>01. cmd.kind = "restore" /\ RequestInv
  BY <1>00 DEF Restoring, RequestRestore, Restart, Meanwhile, PollRestore, ShowResult,
     Acknowledge, WaitOnly
<1>1. CASE RequestRestore
  BY <1>0, <1>01, <1>1 DEF RequestRestore, Client, Goto, RequestInv, ServerRecords, WaitRecords
<1>2. CASE Restart
  <2>1. PICK swapped, kept \in BOOLEAN :
         server' = [server EXCEPT
            !.boot = @ + 1, !.up = TRUE, !.pending = FALSE,
            !.result = IF server.pending THEN [ref |-> 1, ok |-> swapped] ELSE @,
            !.applied = IF server.pending /\ swapped THEN @ \cup {1} ELSE @,
            !.session = IF server.pending /\ swapped THEN kept ELSE @]
    BY <1>2 DEF Restart
  <2>2. /\ server'.pending = FALSE
        /\ server'.result = IF server.pending THEN [ref |-> 1, ok |-> swapped] ELSE server.result
        /\ server'.applied = IF server.pending /\ swapped THEN server.applied \cup {1}
                             ELSE server.applied
    BY <1>0, <2>1 DEF ServerRecords
  <2>3. UNCHANGED <<at, told, wait>> /\ told = ""
    BY <1>2 DEF Restart
  <2>4. at' \in {"start", "wait"} /\ at' = at /\ told' = "" /\ server'.pending = FALSE
    BY <1>01, <2>2, <2>3 DEF RequestInv
  <2>5. at = "start" => server'.result = server.result /\ server'.applied = server.applied
    BY <1>01, <2>2 DEF RequestInv
  <2>6. server'.result.ref = 1 => (server'.result.ok <=> 1 \in server'.applied)
    <3>1. CASE server.pending
      <4>1. server'.result.ok = swapped /\ 1 \notin server.applied
        BY <1>01, <2>2, <3>1 DEF RequestInv
      <4>2. 1 \in server'.applied <=> swapped
        BY <2>2, <3>1, <4>1
      <4> QED BY <4>1, <4>2
    <3>2. CASE ~server.pending
      BY <1>01, <2>2, <3>2 DEF RequestInv
    <3> QED BY <3>1, <3>2
  <2>7. at = "start" => server.result.ref # 1 /\ 1 \notin server.applied
    BY <1>01 DEF RequestInv
  <2> QED BY <2>4, <2>5, <2>6, <2>7 DEF RequestInv
<1>3. CASE Meanwhile
  <2>1. UNCHANGED <<at, told, wait>> /\ told = ""
    BY <1>3 DEF Meanwhile
  <2>2. CASE ~server.pending /\ \E ok \in BOOLEAN :
            server' = [server EXCEPT !.result = [ref |-> 2, ok |-> ok], !.boot = @ + 1,
                                     !.applied = IF ok THEN @ \cup {2} ELSE @]
    <3>1. /\ server'.pending = server.pending /\ server'.result.ref = 2
          /\ 1 \in server'.applied <=> 1 \in server.applied
      BY <1>0, <2>2 DEF ServerRecords
    <3>2. at' \in {"start", "wait"} /\ told' = "" /\ (at' = "start" => ~server'.pending)
          /\ ~server'.pending
      BY <1>01, <2>1, <2>2, <3>1 DEF RequestInv
    <3>3. at' = "start" => 1 \notin server'.applied
      BY <1>01, <2>1, <3>1 DEF RequestInv
    <3>4. server'.result.ref # 1
      BY <3>1
    <3> QED BY <3>2, <3>3, <3>4 DEF RequestInv
  <2>3. CASE server' = [server EXCEPT !.result = NoRestoreResult]
    <3>1. server'.pending = server.pending /\ server'.result.ref = 3 /\ server'.applied = server.applied
      BY <1>0, <2>3 DEF ServerRecords, NoRestoreResult
    <3>2. at' \in {"start", "wait"} /\ told' = "" /\ (at' = "start" => ~server'.pending)
      BY <1>01, <2>1, <3>1 DEF RequestInv
    <3>3. at' = "start" \/ server'.pending => 1 \notin server'.applied
      BY <1>01, <2>1, <3>1 DEF RequestInv
    <3>4. server'.result.ref # 1
      BY <3>1
    <3> QED BY <3>2, <3>3, <3>4 DEF RequestInv
  <2>4. CASE server' = [server EXCEPT !.up = ~@] \/ server' = [server EXCEPT !.session = FALSE]
    <3>1. /\ server'.pending = server.pending /\ server'.result = server.result
          /\ server'.applied = server.applied
      BY <1>0, <2>4 DEF ServerRecords
    <3> QED BY <1>01, <2>1, <3>1 DEF RequestInv
  <2> QED BY <1>3, <2>2, <2>3, <2>4 DEF Meanwhile
<1>4. CASE PollRestore
  <2>1. UNCHANGED server /\ wait'.ref = wait.ref /\ told = "" /\ at = "wait" /\ at' = at
    BY <1>0, <1>4 DEF PollRestore, Client, Tell, Goto, WaitRecords
  <2>2. told' \in {"success", "failed"} => told' = ReadResult(server.result, wait.ref)
    BY <1>4 DEF PollRestore, Client, Tell, Goto
  <2>3. wait.ref = 1 /\ told' \in {"success", "failed"} =>
          server.result.ref = 1 /\ (server.result.ok <=> told' = "success")
    BY <2>2 DEF ReadResult
  <2> QED BY <1>01, <2>1, <2>3 DEF RequestInv
<1>5. CASE ShowResult \/ Acknowledge
  BY <1>01, <1>5 DEF ShowResult, Acknowledge, Client
<1> QED BY <1>1, <1>2, <1>3, <1>4, <1>5 DEF Restoring

\* A command concerns its own part of the state.
LEMMA OthersRest ==
    ASSUME ClientTypeOK
    PROVE /\ Downloading => cmd.kind = "download" /\ cmd' = cmd /\ UNCHANGED <<upload, server, wait>>
          /\ Uploading => cmd.kind = "upload" /\ cmd' = cmd
          /\ Restoring => cmd.kind \in {"restore", "ack"} /\ cmd' = cmd /\ UNCHANGED <<upload>>
<1>1. ASSUME Downloading PROVE cmd.kind = "download" /\ cmd' = cmd /\ UNCHANGED <<upload, server, wait>>
  BY <1>1 DEF Downloading, StartDownload, Answer, CreateTemp, Receive, EndCopy, Interrupt,
     Flush,
     JudgeTransfer, PlaceForced, PlaceLinked, RemoveLinkedTemp, PlaceHolder, SwapHolder,
     RemoveHolder, UndoPlace, SyncParentDir, Kill,
     OtherProcess, Client, Remote
<1>2. ASSUME Uploading PROVE cmd.kind = "upload" /\ cmd' = cmd
  BY <1>2 DEF Uploading, SendChunk, SendEOF, ServeUpload, LoseAnswer, TimerFires,
     UploadAnswered,
     UploadFailed, Client, UploadOnly
<1>3. ASSUME Restoring PROVE cmd.kind \in {"restore", "ack"} /\ cmd' = cmd /\ UNCHANGED upload
  BY <1>3 DEF Restoring, RequestRestore, Restart, Meanwhile, PollRestore, ShowResult,
     Acknowledge,
     Client, WaitOnly
<1> QED BY <1>1, <1>2, <1>3

\* A command that is not an upload never says "uploaded".
LEMMA NotUploaded ==
    ASSUME Downloading \/ Restoring, told' # told PROVE told' # "uploaded"
<1>1. CASE Downloading
  BY <1>1 DEF Downloading, StartDownload, Answer, CreateTemp, Receive, EndCopy, Interrupt,
     Flush,
     JudgeTransfer, PlaceForced, PlaceLinked, RemoveLinkedTemp, PlaceHolder, SwapHolder,
     RemoveHolder, UndoPlace, SyncParentDir, Kill,
     OtherProcess, Tell, Goto, Fail
<1>2. CASE Restoring
  BY <1>2 DEF Restoring, RequestRestore, Restart, Meanwhile, PollRestore, ShowResult,
     Acknowledge,
     Tell, Goto, ReadResult
<1> QED BY <1>1, <1>2

LEMMA ClientKept == ASSUME ClientInv, [ClientNext]_clientVars PROVE ClientInv'
<1> USE DEF ClientInv
<1>1. CASE Downloading
  <2>1. ClientTypeOK' /\ DownloadInv'
    BY <1>1, DownloadTyped, DownloadStep
  <2>2. UploadInv'
    BY <1>1, OthersRest, NotUploaded DEF UploadInv
  <2>3. RequestInv'
    BY <1>1, OthersRest DEF RequestInv
  <2> QED BY <2>1, <2>2, <2>3
<1>2. CASE Uploading
  <2>1. ClientTypeOK' /\ UploadInv'
    BY <1>2, UploadTyped, UploadStep
  <2>2. DownloadInv' /\ RequestInv'
    BY <1>2, OthersRest DEF DownloadInv, RequestInv
  <2> QED BY <2>1, <2>2
<1>3. CASE Restoring
  <2>1. ClientTypeOK' /\ RequestInv'
    BY <1>3, RequestTyped, RequestStep
  <2>2. DownloadInv' /\ UploadInv'
    BY <1>3, OthersRest, NotUploaded DEF DownloadInv, UploadInv
  <2> QED BY <2>1, <2>2
<1>4. CASE UNCHANGED clientVars
  <2>1. UNCHANGED <<cmd, at, told, out, temp, copy, reply, flags, lost, warned, upload, server,
                    wait, fsLeft, eventsLeft>>
    BY <1>4 DEF clientVars
  <2>2. ClientTypeOK'
    <3>1. Parted'
      BY <2>1, PartsTyped DEF Parted, LocalTyped
    <3> QED BY <3>1, PartsTyped, PTL
  <2>3. DownloadInv'
    BY <2>1 DEF DownloadInv, Underway, WholeCopy
  <2>4. UploadInv' /\ RequestInv'
    BY <2>1 DEF UploadInv, RequestInv
  <2> QED BY <2>2, <2>3, <2>4
<1> QED BY <1>1, <1>2, <1>3, <1>4 DEF ClientNext, Uploading, Restoring

LEMMA ClientShown ==
    ASSUME ClientInv PROVE ClientTypeOK /\ (~OthersReplace => DownloadSafe) /\ ClientTellsTruth
  BY DEF ClientInv, DownloadInv, WholeCopy, UploadInv, RequestInv, DownloadSafe,
     ClientTellsTruth

-----------------------------------------------------------------------------
(* Archives: sequences of sequences. *)

\* f[i] is the first i sequences of s, one after another.
Flattens(f, s, n) == f = [i \in 1 .. n |-> IF i = 1 THEN s[i] ELSE f[i-1] \o s[i]]

LEMMA FlattenExists ==
    ASSUME NEW s, NEW n \in Nat
    PROVE \E f : Flattens(f, s, n)
<1> DEFINE Bad == {k \in 0 .. n : ~\E f : Flattens(f, s, k)}
<1>1. SUFFICES ASSUME Bad # {} PROVE FALSE
  OBVIOUS
<1>2. PICK k \in Bad : \A m \in Bad : k <= m
  <2>1. Bad \subseteq 0 .. n /\ \A m \in Bad : m \in Nat
    OBVIOUS
  <2> HIDE DEF Bad
  <2>2. IsFiniteSet(Bad)
    <3>1. IsFiniteSet(0 .. n)
      BY <2>1, FS_Interval
    <3> QED BY <2>1, <3>1, FS_Subset
  <2> QED BY <1>1, <2>1, <2>2, Lowest
<1>3. k # 0
  <2>1. Flattens([i \in 1 .. 0 |-> 0], s, 0)
    BY DEF Flattens
  <2> QED BY <1>2, <2>1
<1>4. k - 1 \in 0 .. n /\ k \in 1 .. n
  BY <1>2, <1>3
<1>5. PICK f : Flattens(f, s, k - 1)
  BY <1>2, <1>4
<1> DEFINE g == [i \in 1 .. k |-> IF i < k THEN f[i] ELSE IF i = 1 THEN s[i] ELSE f[i-1] \o s[i]]
<1>6. \A i \in 1 .. k - 1 : f[i] = IF i = 1 THEN s[i] ELSE f[i-1] \o s[i]
  BY <1>4, <1>5 DEF Flattens
<1>7. \A i \in 1 .. k : g[i] = IF i = 1 THEN s[i] ELSE g[i-1] \o s[i]
  <2> SUFFICES ASSUME NEW i \in 1 .. k PROVE g[i] = IF i = 1 THEN s[i] ELSE g[i-1] \o s[i]
    OBVIOUS
  <2>1. CASE i < k
    <3>1. i \in 1 .. k - 1 /\ (i # 1 => i - 1 \in 1 .. k /\ i - 1 < k)
      BY <1>4, <2>1
    <3> QED BY <1>6, <2>1, <3>1
  <2>2. CASE ~(i < k)
    <3>1. i # 1 => i - 1 \in 1 .. k /\ i - 1 < k
      BY <1>4, <2>2
    <3> QED BY <2>2, <3>1
  <2> QED BY <2>1, <2>2
<1>8. Flattens(g, s, k)
  <2>1. g = [i \in 1 .. k |-> g[i]]
    OBVIOUS
  <2> HIDE DEF g
  <2> QED BY <1>7, <2>1 DEF Flattens
<1> QED BY <1>2, <1>8

\* The pieces FlattenSeq puts together.
Pieces(s) == CHOOSE f : Flattens(f, s, Len(s))

LEMMA FlattenKnown ==
    ASSUME NEW S, NEW s \in Seq(S), s # <<>>
    PROVE /\ FlattenSeq(s) = Pieces(s)[Len(s)]
          /\ \A i \in 1 .. Len(s) :
               Pieces(s)[i] = IF i = 1 THEN s[i] ELSE Pieces(s)[i-1] \o s[i]
<1>1. Len(s) \in Nat /\ Len(s) # 0
  OBVIOUS
<1>2. Flattens(Pieces(s), s, Len(s))
  BY <1>1, FlattenExists DEF Pieces
<1>3. FlattenSeq(s) = Pieces(s)[Len(s)]
  BY <1>1 DEF FlattenSeq, Pieces, Flattens
<1> HIDE DEF Pieces
<1>4. \A i \in 1 .. Len(s) : Pieces(s)[i] = IF i = 1 THEN s[i] ELSE Pieces(s)[i-1] \o s[i]
  BY <1>2 DEF Flattens
<1> QED BY <1>3, <1>4

LEMMA PiecesTyped ==
    ASSUME NEW S, NEW s \in Seq(Seq(S)), NEW j \in 1 .. Len(s)
    PROVE Pieces(s)[j] \in Seq(S)
<1> DEFINE Bad == {k \in 1 .. Len(s) : Pieces(s)[k] \notin Seq(S)}
<1>1. SUFFICES ASSUME Bad # {} PROVE FALSE
  OBVIOUS
<1>2. PICK k \in Bad : \A m \in Bad : k <= m
  <2>1. Bad \subseteq 1 .. Len(s) /\ (\A m \in Bad : m \in Nat) /\ Len(s) \in Nat
    OBVIOUS
  <2> HIDE DEF Bad
  <2>2. IsFiniteSet(Bad)
    <3>1. IsFiniteSet(1 .. Len(s))
      BY <2>1, FS_Interval
    <3> QED BY <2>1, <3>1, FS_Subset
  <2> QED BY <1>1, <2>1, <2>2, Lowest
<1>3. Pieces(s)[k] = IF k = 1 THEN s[k] ELSE Pieces(s)[k-1] \o s[k]
  <2>1. s # <<>>
    OBVIOUS
  <2> QED BY <1>2, <2>1, FlattenKnown
<1>4. s[k] \in Seq(S)
  BY <1>2
<1>5. k # 1 => k - 1 \in 1 .. Len(s) /\ k - 1 \notin Bad
  BY <1>2
<1>6. CASE k = 1
  BY <1>2, <1>3, <1>4, <1>6
<1>7. CASE k # 1
  <2>1. Pieces(s)[k-1] \in Seq(S)
    BY <1>5, <1>7
  <2>2. Pieces(s)[k-1] \o s[k] \in Seq(S)
    BY <1>4, <2>1
  <2> QED BY <1>2, <1>3, <1>7, <2>2
<1> QED BY <1>6, <1>7

-----------------------------------------------------------------------------
(* Files. *)

Datas(ms) == [i \in DOMAIN ms |-> ms[i].data]

LEMMA DatasTyped ==
    ASSUME NEW ms \in Seq(GzipMember)
    PROVE /\ Datas(ms) \in Seq(Seq(Block)) /\ Len(Datas(ms)) = Len(ms)
          /\ Data(ms) = FlattenSeq(Datas(ms))
          /\ \A i \in 1 .. Len(ms) : Datas(ms)[i] = ms[i].data /\ ms[i].data \in Seq(Block)
<1>1. DOMAIN ms = 1 .. Len(ms) /\ Len(ms) \in Nat
  OBVIOUS
<1>2. \A i \in 1 .. Len(ms) : ms[i] \in GzipMember
  OBVIOUS
<1>3. \A i \in 1 .. Len(ms) : ms[i].data \in Seq(Block)
  BY <1>2 DEF GzipMember
<1>4. Datas(ms) = [i \in 1 .. Len(ms) |-> ms[i].data]
  BY <1>1 DEF Datas
<1>5. Datas(ms) \in Seq(Seq(Block)) /\ Len(Datas(ms)) = Len(ms)
  BY <1>1, <1>3, <1>4
<1> QED BY <1>3, <1>4, <1>5 DEF Data, Datas

LEMMA DataTyped ==
    ASSUME NEW ms \in Seq(GzipMember) PROVE Data(ms) \in Seq(Block)
<1> DEFINE s == Datas(ms)
<1>1. s \in Seq(Seq(Block)) /\ Data(ms) = FlattenSeq(s)
  BY DatasTyped
<1> HIDE DEF s
<1>2. CASE s = <<>>
  <2>1. FlattenSeq(s) = <<>>
    BY <1>2 DEF FlattenSeq
  <2> QED BY <1>1, <2>1
<1>3. CASE s # <<>>
  <2>1. Len(s) \in 1 .. Len(s)
    BY <1>1, <1>3
  <2>2. FlattenSeq(s) = Pieces(s)[Len(s)]
    BY <1>1, <1>3, FlattenKnown
  <2>3. Pieces(s)[Len(s)] \in Seq(Block)
    BY <1>1, <2>1, PiecesTyped
  <2> QED BY <1>1, <2>2, <2>3
<1> QED BY <1>2, <1>3

\* The content of the members before member m.
Before(ms, m) == IF m = 1 THEN <<>> ELSE Pieces(Datas(ms))[m - 1]

LEMMA BeforeKnown ==
    ASSUME NEW ms \in Seq(GzipMember), NEW m \in 1 .. Len(ms)
    PROVE /\ Before(ms, m) \in Seq(Block) /\ ms[m].data \in Seq(Block)
          /\ Pieces(Datas(ms))[m] = Before(ms, m) \o ms[m].data
          /\ m + 1 <= Len(ms) => Before(ms, m + 1) = Before(ms, m) \o ms[m].data
          /\ m = Len(ms) => Data(ms) = Before(ms, m) \o ms[m].data
<1> DEFINE s == Datas(ms)
           d == ms[m].data
<1>1. /\ s \in Seq(Seq(Block)) /\ Len(s) = Len(ms) /\ Data(ms) = FlattenSeq(s)
      /\ s[m] = d /\ d \in Seq(Block)
  BY DatasTyped
<1>2. s # <<>>
  BY <1>1
<1>3. Pieces(s)[m] = IF m = 1 THEN s[m] ELSE Pieces(s)[m - 1] \o s[m]
  BY <1>1, <1>2, FlattenKnown
<1>4. Before(ms, m) \in Seq(Block)
  <2>1. CASE m = 1
    BY <2>1, EmptySeq DEF Before
  <2>2. CASE m # 1
    <3>1. m - 1 \in 1 .. Len(s)
      BY <1>1, <2>2
    <3> HIDE DEF s
    <3>2. Pieces(s)[m - 1] \in Seq(Block)
      BY <1>1, <3>1, PiecesTyped
    <3> QED BY <2>2, <3>2 DEF Before, s
  <2> QED BY <2>1, <2>2
<1>5. Pieces(s)[m] = Before(ms, m) \o d
  <2>1. CASE m = 1
    <3>1. <<>> \o d = d
      BY <1>1, ConcatEmptySeq
    <3> QED BY <1>1, <1>3, <2>1, <3>1 DEF Before
  <2>2. CASE m # 1
    BY <1>1, <1>3, <2>2 DEF Before
  <2> QED BY <2>1, <2>2
<1>6. m + 1 <= Len(ms) => Before(ms, m + 1) = Pieces(s)[m]
  BY DEF Before
<1>7. m = Len(ms) => Data(ms) = Pieces(s)[m]
  BY <1>1, <1>2, FlattenKnown
<1> QED BY <1>1, <1>4, <1>5, <1>6, <1>7

LEMMA FingerprintTyped ==
    ASSUME NEW d \in Seq(Block) PROVE Fingerprint(d) \in Seq(Block)
<1>1. DOMAIN d = 1 .. Len(d) /\ Len(d) \in Nat /\ \A i \in 1 .. Len(d) : d[i] \in Nat \X Nat
  BY DEF Block
<1>2. \A i \in 1 .. Len(d) : Blank(d[i]) \in Nat \X Nat
  BY <1>1 DEF Blank
<1>3. Fingerprint(d) = [i \in 1 .. Len(d) |-> IF i = 1 THEN Blank(d[i]) ELSE d[i]]
  BY <1>1 DEF Fingerprint
<1> QED BY <1>1, <1>2, <1>3 DEF Block

Inode == [members : Seq(GzipMember), tail : TailRecord, mod : Nat, rot : Int]
FilesTyped ==
    /\ inode \in Seq(Inode) /\ Len(inode) <= MaxInodes
    /\ path = [p \in DOMAIN path |-> path[p]] /\ DOMAIN path \subseteq Paths
    /\ \A p \in DOMAIN path : path[p] \in DOMAIN inode
    /\ now \in 0 .. MaxDay

\* What may become of a file that exists: it stays, is written, or rots.
Aged(n) ==
    \/ inode'[n] = inode[n]
    \/ inode'[n].mod > inode[n].mod
    \/ /\ inode'[n].mod = inode[n].mod /\ inode'[n].tail = inode[n].tail
       /\ inode'[n].rot = now /\ ~Intact(inode'[n])
FilesAge == DOMAIN inode \subseteq DOMAIN inode' /\ \A n \in DOMAIN inode : Aged(n)

LEMMA ANewFile ==
    ASSUME FilesTyped, NEW p \in Paths, NEW ms \in Seq(GzipMember), NEW tail \in TailRecord,
           NEW mod \in Nat, NewFile(p, ms, tail, mod), UNCHANGED now
    PROVE FilesTyped' /\ FilesAge
<1> DEFINE f == [members |-> ms, tail |-> tail, mod |-> mod, rot |-> -1]
<1>1. f \in Inode
  BY DEF Inode
<1>2. inode' = Append(inode, f) /\ Len(inode) < MaxInodes /\ Len(inode) \in Nat /\ inode \in Seq(Inode)
  BY DEF NewFile, FilesTyped
<1> HIDE DEF f
<1>3. /\ inode' \in Seq(Inode) /\ Len(inode') = Len(inode) + 1
      /\ DOMAIN inode = 1 .. Len(inode) /\ DOMAIN inode' = 1 .. Len(inode) + 1
      /\ \A n \in DOMAIN inode : inode'[n] = inode[n]
  BY <1>1, <1>2
<1>4. MaxInodes \in Nat
  BY ArchiveAssumption
<1>5. /\ path' = [q \in DOMAIN path' |-> path'[q]]
      /\ DOMAIN path' = DOMAIN path \cup {p}
      /\ \A q \in DOMAIN path' : path'[q] = IF q = p THEN Len(inode) + 1 ELSE path[q]
  BY DEF NewFile
<1>6. \A q \in DOMAIN path' : path'[q] \in DOMAIN inode'
  BY <1>2, <1>3, <1>5 DEF FilesTyped
<1>7. FilesTyped'
  BY <1>2, <1>3, <1>4, <1>5, <1>6 DEF FilesTyped
<1>8. FilesAge
  BY <1>2, <1>3 DEF FilesAge, Aged
<1> QED BY <1>7, <1>8

LEMMA FilesStep ==
    ASSUME FilesTyped, NEW p \in Paths, Files(p)
    PROVE FilesTyped' /\ FilesAge
<1>1. MaxDay \in Nat /\ now \in Nat /\ MaxInodes \in Nat /\ UNCHANGED now
  <2>1. MaxDay \in Nat /\ MaxInodes \in Nat
    BY ArchiveAssumption
  <2>2. UNCHANGED now
    BY DEF Files, CompressBackup, ReplaceFile, EditFile, Rot, DeleteFile
  <2> QED BY <2>1, <2>2 DEF FilesTyped
<1>2. ASSUME NEW q \in DOMAIN path
      PROVE /\ path[q] \in DOMAIN inode /\ inode[path[q]] \in Inode /\ inode[path[q]].mod \in Nat
            /\ inode[path[q]].members \in Seq(GzipMember)
  <2>1. path[q] \in DOMAIN inode /\ inode \in Seq(Inode)
    BY <1>2 DEF FilesTyped
  <2>2. inode[path[q]] \in Inode
    BY <2>1
  <2> QED BY <2>1, <2>2 DEF Inode
<1>3. ASSUME NEW a \in Archives
      PROVE a.members \in Seq(GzipMember) /\ a.tail \in TailRecord
  BY <1>3, ArchiveAssumption
<1>4. CASE \E a \in Archives : CompressBackup(p, Data(a.members))
  <2>1. PICK a \in Archives : CompressBackup(p, Data(a.members))
    BY <1>4
  <2> DEFINE d == Data(a.members)
  <2>2. d \in Seq(Block)
    BY <1>3, DataTyped
  <2>3. NewFile(p, <<[data |-> d, ok |-> TRUE]>>, Fingerprint(d), now)
    BY <2>1 DEF CompressBackup
  <2> HIDE DEF d
  <2>4. [data |-> d, ok |-> TRUE] \in GzipMember /\ Fingerprint(d) \in TailRecord
    BY <2>2, FingerprintTyped DEF GzipMember, TailRecord
  <2>5. <<[data |-> d, ok |-> TRUE]>> \in Seq(GzipMember)
    BY <2>4
  <2> QED BY <1>1, <2>3, <2>4, <2>5, ANewFile
<1>5. CASE \E a \in Archives : ReplaceFile(p, a)
  <2>1. PICK a \in Archives, mod \in {inode[path[p]].mod, now} :
          p \in DOMAIN path /\ NewFile(p, a.members, a.tail, mod)
    BY <1>5 DEF ReplaceFile
  <2>2. mod \in Nat
    BY <1>1, <1>2, <2>1
  <2> QED BY <1>1, <1>3, <2>1, <2>2, ANewFile
<1>6. CASE \E a \in Archives : EditFile(p, a)
  <2>1. PICK a \in Archives : EditFile(p, a)
    BY <1>6
  <2> DEFINE n == path[p]
             f == [members |-> a.members, tail |-> a.tail, mod |-> inode[n].mod + 10, rot |-> -1]
  <2>2. n \in DOMAIN inode /\ inode' = [inode EXCEPT ![n] = f] /\ UNCHANGED path /\ inode[n].mod \in Nat
    BY <1>2, <2>1 DEF EditFile
  <2>3. f \in Inode /\ f.mod = inode[n].mod + 10
    BY <1>3, <2>2 DEF Inode
  <2> HIDE DEF f, n
  <2>4. /\ inode' \in Seq(Inode) /\ Len(inode') = Len(inode) /\ DOMAIN inode' = DOMAIN inode
        /\ \A m \in DOMAIN inode : inode'[m] = IF m = n THEN f ELSE inode[m]
    BY <2>2, <2>3 DEF FilesTyped
  <2>5. FilesTyped'
    BY <1>1, <2>2, <2>4 DEF FilesTyped
  <2>6. FilesAge
    BY <2>2, <2>3, <2>4 DEF FilesAge, Aged
  <2> QED BY <2>5, <2>6
<1>7. CASE Rot(p)
  <2> DEFINE n == path[p]
             ms == [inode[n].members EXCEPT ![1] = [inode[n].members[1] EXCEPT !.ok = FALSE]]
             f == [inode[n] EXCEPT !.members = ms, !.rot = now]
  <2>1. /\ n \in DOMAIN inode /\ UNCHANGED path /\ inode[n] \in Inode
        /\ inode[n].members \in Seq(GzipMember) /\ inode[n].members # <<>>
    BY <1>2, <1>7 DEF Rot
  <2>2. inode' = [inode EXCEPT ![n].members[1].ok = FALSE, ![n].rot = now]
    BY <1>7 DEF Rot
  <2>3. inode' = [inode EXCEPT ![n] = f]
    BY <2>1, <2>2 DEF FilesTyped, Inode, GzipMember
  <2>4. ms \in Seq(GzipMember) /\ 1 \in DOMAIN ms /\ ~ms[1].ok
    <3>1. 1 \in DOMAIN inode[n].members /\ inode[n].members[1] \in GzipMember
      BY <2>1
    <3>2. [inode[n].members[1] EXCEPT !.ok = FALSE] \in GzipMember
      BY <3>1 DEF GzipMember
    <3>3. ~[inode[n].members[1] EXCEPT !.ok = FALSE].ok
      BY <3>1 DEF GzipMember
    <3> QED BY <2>1, <3>1, <3>2, <3>3
  <2> HIDE DEF ms
  <2>5. /\ f \in Inode /\ f.members = ms /\ f.rot = now
        /\ f.mod = inode[n].mod /\ f.tail = inode[n].tail
    <3>1. now \in Int
      BY <1>1
    <3>2. inode[n] \in Inode /\ ms \in Seq(GzipMember)
      BY <2>1, <2>4
    <3> DEFINE S == Seq(GzipMember)
               r == inode[n]
    <3>3. r \in [members : S, tail : TailRecord, mod : Nat, rot : Int] /\ ms \in S
      BY <3>2 DEF Inode
    <3>4. f = [r EXCEPT !.members = ms, !.rot = now]
      OBVIOUS
    <3> HIDE DEF S, r, n, f
    <3>5. /\ f \in [members : S, tail : TailRecord, mod : Nat, rot : Int]
          /\ f.members = ms /\ f.rot = now /\ f.mod = r.mod /\ f.tail = r.tail
      BY <3>1, <3>3, <3>4
    <3> QED BY <3>5 DEF Inode, S, r
  <2> HIDE DEF f, n
  <2>6. ~Intact(f)
    BY <2>4, <2>5 DEF Intact
  <2>7. /\ inode' \in Seq(Inode) /\ Len(inode') = Len(inode) /\ DOMAIN inode' = DOMAIN inode
        /\ \A m \in DOMAIN inode : inode'[m] = IF m = n THEN f ELSE inode[m]
    BY <2>1, <2>3, <2>5 DEF FilesTyped
  <2>8. FilesTyped'
    BY <1>1, <2>1, <2>7 DEF FilesTyped
  <2>9. FilesAge
    BY <2>1, <2>5, <2>6, <2>7 DEF FilesAge, Aged
  <2> QED BY <2>8, <2>9
<1>8. CASE DeleteFile(p)
  <2>1. UNCHANGED inode /\ path' = [q \in DOMAIN path \ {p} |-> path[q]]
    BY <1>8 DEF DeleteFile
  <2> QED BY <1>1, <2>1 DEF FilesTyped, FilesAge, Aged
<1> QED BY <1>4, <1>5, <1>6, <1>7, <1>8 DEF Files

-----------------------------------------------------------------------------
(* What is remembered of files. *)

Entries == [size : Nat, mod : Nat, tail : TailRecord, id : Nat, since : Nat,
            good : BOOLEAN, used : Nat, seen : BOOLEAN]
Verifying == [at : {"idle", "read", "stat"}, path : Paths \cup {""}, id : Nat, size : Nat,
              mod : Nat, tail : TailRecord, good : BOOLEAN]

\* While the file has the modification time v was taken at, it has v's tail ...
Knows(files, v) ==
    /\ v.id \in DOMAIN files
    /\ v.mod <= files[v.id].mod
    /\ v.mod = files[v.id].mod => v.tail = files[v.id].tail
\* ... and is what v says, unless it rotted later.
Vouches(files, v, since) ==
    /\ Knows(files, v)
    /\ v.mod = files[v.id].mod =>
         /\ v.good => Intact(files[v.id]) \/ files[v.id].rot >= since
         /\ ~v.good => ~Intact(files[v.id])

\* An entry for a file that was read vouches for it; any other says that it is good.
Trusted(files, v) ==
    Knows(files, v) /\ (v.seen => Vouches(files, v, v.since)) /\ (~v.seen => v.good)

MemoryTyped ==
    /\ verified = [p \in DOMAIN verified |-> verified[p]] /\ DOMAIN verified \subseteq Paths
    /\ IsFiniteSet(DOMAIN verified) /\ Cardinality(DOMAIN verified) <= VerifiedCacheMax
    /\ clock \in Nat
    /\ \A p \in DOMAIN verified : verified[p] \in Entries /\ verified[p].since <= now
MemoryGood ==
    /\ MemoryTyped
    /\ \A p \in DOMAIN verified : Trusted(inode, verified[p])

\* A file just written has its modification time only while it is good, unless it rots.
StillGood(files, w) ==
    /\ w.path \in Paths /\ w.id \in DOMAIN files /\ w.mod \in Nat /\ w.mod <= files[w.id].mod
    /\ w.mod = files[w.id].mod => Intact(files[w.id]) \/ files[w.id].rot >= now
NotingGood == \A w \in noting : StillGood(inode, w)

VerifyGood ==
    /\ verify \in Verifying
    /\ verify.at # "idle" => verify.path \in Paths
    /\ verify.at = "read" => Knows(inode, verify)
    /\ verify.at = "stat" => Vouches(inode, verify, now)

LEMMA FileKnown ==
    ASSUME FilesTyped, NEW n \in DOMAIN inode
    PROVE /\ inode[n] \in Inode /\ inode[n].mod \in Nat /\ inode[n].rot \in Int
          /\ inode[n].tail \in TailRecord /\ inode[n].members \in Seq(GzipMember)
          /\ n \in Nat /\ now \in Nat
<1>1. inode \in Seq(Inode) /\ now \in Nat
  BY DEF FilesTyped
<1>2. inode[n] \in Inode /\ n \in Nat
  BY <1>1
<1> QED BY <1>1, <1>2 DEF Inode

LEMMA StillKnown ==
    ASSUME FilesTyped, FilesTyped', FilesAge, UNCHANGED now, NEW v, v.mod \in Nat, Knows(inode, v)
    PROVE /\ Knows(inode', v)
          /\ \A s \in Nat : s <= now /\ Vouches(inode, v, s) => Vouches(inode', v, s)
<1> DEFINE n == v.id
<1>1. n \in DOMAIN inode /\ n \in DOMAIN inode' /\ Aged(n)
  BY DEF Knows, FilesAge
<1>2. inode[n].mod \in Nat /\ inode[n].rot \in Int /\ now \in Nat
  BY <1>1, FileKnown
<1>3. inode'[n].mod \in Nat
  <2>1. inode' \in Seq(Inode)
    BY DEF FilesTyped
  <2>2. inode'[n] \in Inode
    BY <1>1, <2>1
  <2> QED BY <2>2 DEF Inode
<1>4. /\ v.mod <= inode[n].mod /\ (v.mod = inode[n].mod => v.tail = inode[n].tail)
  BY DEF Knows
<1>5. Knows(inode', v)
  BY <1>1, <1>2, <1>3, <1>4 DEF Knows, Aged
<1>6. ASSUME NEW s \in Nat, s <= now, Vouches(inode, v, s) PROVE Vouches(inode', v, s)
  <2>1. /\ v.mod = inode[n].mod =>
              /\ v.good => Intact(inode[n]) \/ inode[n].rot >= s
              /\ ~v.good => ~Intact(inode[n])
    BY <1>6 DEF Vouches
  <2>2. SUFFICES ASSUME v.mod = inode'[n].mod
                 PROVE  /\ v.good => Intact(inode'[n]) \/ inode'[n].rot >= s
                        /\ ~v.good => ~Intact(inode'[n])
    BY <1>5 DEF Vouches
  <2>3. CASE inode'[n] = inode[n]
    BY <2>1, <2>2, <2>3
  <2>4. CASE inode'[n].mod > inode[n].mod
    BY <1>2, <1>3, <1>4, <2>2, <2>4
  <2>5. CASE inode'[n].rot = now /\ ~Intact(inode'[n])
    BY <1>2, <1>6, <2>5
  <2> QED BY <1>1, <2>3, <2>4, <2>5 DEF Aged
<1> QED BY <1>5, <1>6

\* Files change beside the memory.
LEMMA MemoryBeside ==
    ASSUME FilesTyped, FilesTyped', FilesAge, UNCHANGED <<now, verified, clock, verify>>,
           MemoryGood, VerifyGood
    PROVE MemoryGood' /\ VerifyGood'
<1>1. MemoryTyped'
  BY DEF MemoryGood, MemoryTyped
<1>2. ASSUME NEW p \in DOMAIN verified PROVE Trusted(inode', verified[p])
  <2> DEFINE v == verified[p]
  <2>1. v \in Entries /\ v.since <= now /\ Trusted(inode, v)
    BY <1>2 DEF MemoryGood, MemoryTyped
  <2>2. v.mod \in Nat /\ v.since \in Nat /\ Knows(inode, v)
    BY <2>1 DEF Entries, Trusted
  <2> HIDE DEF v
  <2>3. Knows(inode', v)
    BY <2>2, StillKnown
  <2>4. Vouches(inode, v, v.since) => Vouches(inode', v, v.since)
    BY <2>1, <2>2, StillKnown
  <2>5. Trusted(inode', v)
    BY <2>1, <2>3, <2>4 DEF Trusted
  <2> QED BY <2>5 DEF v
<1>3. MemoryGood'
  BY <1>1, <1>2 DEF MemoryGood
<1>4. verify.mod \in Nat /\ now \in Nat
  <2>1. verify.mod \in Nat
    BY DEF VerifyGood, Verifying
  <2> QED BY <2>1 DEF FilesTyped
<1>5. verify.at = "read" => Knows(inode', verify)
  BY <1>4, StillKnown DEF VerifyGood
<1>6. verify.at = "stat" => Vouches(inode', verify, now)
  BY <1>4, StillKnown DEF VerifyGood, Vouches
<1>7. VerifyGood'
  BY <1>5, <1>6 DEF VerifyGood
<1> QED BY <1>3, <1>7

LEMMA SizeTyped == ASSUME NEW f \in Inode PROVE Size(f) \in Nat
<1>1. f.members \in Seq(GzipMember)
  BY DEF Inode
<1>2. Data(f.members) \in Seq(Block)
  BY <1>1, DataTyped
<1> DEFINE a == Len(Data(f.members))
           b == Len(f.members)
<1>3. a \in Nat /\ b \in Nat
  BY <1>1, <1>2
<1>4. Size(f) = a + b + (IF f.tail = NoTail THEN 0 ELSE 1)
  BY DEF Size
<1> HIDE DEF a, b
<1> QED BY <1>3, <1>4

LEMMA UsedStep ==
    ASSUME FilesTyped, MemoryGood, VerifyGood, NEW p \in Paths, UseRemembered(p)
    PROVE FilesTyped' /\ MemoryGood' /\ VerifyGood'
<1> DEFINE e == verified[p]
           g == [e EXCEPT !.used = clock + 1]
<1>1. /\ p \in DOMAIN verified /\ verified' = [verified EXCEPT ![p].used = clock + 1]
      /\ clock' = clock + 1 /\ clock' \in Nat /\ UNCHANGED <<inode, path, verify, now>>
  BY DEF UseRemembered, Remembered, Entry, MemoryGood, MemoryTyped
<1>2. /\ DOMAIN verified' = DOMAIN verified /\ verified'[p] = g
      /\ verified' = [q \in DOMAIN verified' |-> verified'[q]]
      /\ \A q \in DOMAIN verified : q # p => verified'[q] = verified[q]
  BY <1>1 DEF MemoryGood, MemoryTyped
<1>3. e \in Entries /\ e.since <= now /\ Trusted(inode, e)
  BY <1>1 DEF MemoryGood, MemoryTyped
<1>4. g = [e EXCEPT !.used = clock + 1]
  OBVIOUS
<1> HIDE DEF e, g
<1>5. /\ g \in Entries /\ g.since = e.since /\ g.mod = e.mod /\ g.tail = e.tail
      /\ g.id = e.id /\ g.good = e.good /\ g.seen = e.seen
  BY <1>1, <1>3, <1>4 DEF Entries
<1>6. Trusted(inode, g)
  BY <1>3, <1>5 DEF Trusted, Vouches, Knows
<1>7. \A q \in DOMAIN verified :
          /\ verified'[q] \in Entries /\ verified'[q].since <= now
          /\ Trusted(inode, verified'[q])
  <2> SUFFICES ASSUME NEW q \in DOMAIN verified
               PROVE  /\ verified'[q] \in Entries /\ verified'[q].since <= now
                      /\ Trusted(inode, verified'[q])
    OBVIOUS
  <2>1. CASE q = p
    BY <1>2, <1>3, <1>5, <1>6, <2>1
  <2>2. CASE q # p
    BY <1>2, <2>2 DEF MemoryGood, MemoryTyped
  <2> QED BY <2>1, <2>2
<1>8. MemoryGood'
  BY <1>1, <1>2, <1>7 DEF MemoryGood, MemoryTyped
<1>9. FilesTyped' /\ VerifyGood'
  BY <1>1 DEF FilesTyped, VerifyGood
<1> QED BY <1>8, <1>9

LEMMA OpenStep ==
    ASSUME FilesTyped, MemoryGood, VerifyGood, NEW p \in Paths, OpenToVerify(p)
    PROVE FilesTyped' /\ MemoryGood' /\ VerifyGood'
<1> DEFINE f == inode[path[p]]
<1>1. /\ p \in DOMAIN path /\ UNCHANGED <<inode, path, verified, clock, now>>
      /\ verify' = [NoVerify EXCEPT !.at = "read", !.path = p, !.id = path[p], !.size = Size(f),
                                    !.mod = f.mod, !.tail = f.tail]
  BY DEF OpenToVerify
<1>2. path[p] \in DOMAIN inode
  BY <1>1 DEF FilesTyped
<1>3. f \in Inode /\ f.mod \in Nat /\ f.tail \in TailRecord /\ path[p] \in Nat
  BY <1>2, FileKnown
<1>4. Size(f) \in Nat
  BY <1>3, SizeTyped
<1> HIDE DEF f
<1>5. /\ verify' \in Verifying /\ verify'.at = "read" /\ verify'.path = p /\ verify'.id = path[p]
      /\ verify'.mod = f.mod /\ verify'.tail = f.tail
  BY <1>1, <1>3, <1>4 DEF Verifying, NoVerify
<1>6. Knows(inode', verify')
  BY <1>1, <1>2, <1>3, <1>5 DEF Knows, f
<1>7. VerifyGood'
  BY <1>5, <1>6 DEF VerifyGood
<1>8. FilesTyped' /\ MemoryGood'
  BY <1>1 DEF FilesTyped, MemoryGood, MemoryTyped
<1> QED BY <1>7, <1>8

LEMMA ReadStep ==
    ASSUME FilesTyped, MemoryGood, VerifyGood, ReadToVerify
    PROVE FilesTyped' /\ MemoryGood' /\ VerifyGood'
<1> DEFINE f == inode[verify.id]
           g == [f EXCEPT !.tail = verify.tail]
<1>1. /\ verify.at = "read" /\ UNCHANGED <<inode, path, verified, clock, now>>
      /\ verify' = [verify EXCEPT !.at = "stat", !.good = Intact(g)]
      /\ Knows(inode, verify) /\ verify \in Verifying /\ verify.path \in Paths
  BY DEF ReadToVerify, VerifyGood
<1>2. f \in Inode /\ f.mod \in Nat
  BY <1>1, FileKnown DEF Knows
<1>3. ASSUME verify.tail = f.tail PROVE Intact(g) <=> Intact(f)
  <2>1. g = [f EXCEPT !.tail = verify.tail]
    OBVIOUS
  <2> HIDE DEF f, g
  <2>2. g.members = f.members /\ g.tail = f.tail
    BY <1>2, <1>3, <2>1 DEF Inode
  <2> QED BY <2>2 DEF Intact
<1>4. Intact(g) \in BOOLEAN
  BY DEF Intact
<1> HIDE DEF f, g
<1>5. /\ verify' \in Verifying /\ verify'.at = "stat" /\ verify'.path = verify.path
      /\ verify'.id = verify.id /\ verify'.mod = verify.mod /\ verify'.tail = verify.tail
      /\ verify'.good = Intact(g)
  BY <1>1, <1>4 DEF Verifying
<1>6. Knows(inode', verify')
  BY <1>1, <1>5 DEF Knows
<1>7. verify.mod = f.mod => verify.tail = f.tail
  BY <1>1 DEF Knows, f
<1>8. Vouches(inode', verify', now')
  BY <1>1, <1>3, <1>5, <1>6, <1>7 DEF Vouches, f
<1>9. VerifyGood'
  BY <1>1, <1>5, <1>8 DEF VerifyGood
<1>10. FilesTyped' /\ MemoryGood'
  BY <1>1 DEF FilesTyped, MemoryGood, MemoryTyped
<1> QED BY <1>9, <1>10

\* put makes room for one entry more.
LEMMA RoomIsMade ==
    ASSUME MemoryTyped, NEW p
    PROVE /\ Kept(p) \subseteq DOMAIN verified /\ IsFiniteSet(Kept(p) \cup {p})
          /\ Cardinality(Kept(p) \cup {p}) <= VerifiedCacheMax
<1> DEFINE D == DOMAIN verified
<1>1. IsFiniteSet(D) /\ Cardinality(D) <= VerifiedCacheMax /\ Cardinality(D) \in Nat
  BY FS_CardinalityType DEF MemoryTyped
<1>2. VerifiedCacheMax \in Nat /\ VerifiedCacheMax > 0
  BY ArchiveAssumption
<1>3. Kept(p) = IF p \in D \/ Cardinality(D) < VerifiedCacheMax THEN D ELSE D \ {Oldest}
  BY DEF Kept
<1>4. ASSUME D # {} PROVE Oldest \in D
  <2> DEFINE U == {verified[q].used : q \in D}
  <2>1. \A q \in D : verified[q].used \in Nat
    BY DEF MemoryTyped, Entries
  <2>2. IsFiniteSet(U)
    <3> DEFINE w == [q \in D |-> verified[q].used]
    <3>1. w \in Surjection(D, U)
      BY DEF Surjection
    <3> HIDE DEF w, U, D
    <3> QED BY <1>1, <3>1, FS_Surjection
  <2>3. PICK u \in U : \A w \in U : u <= w
    <3>1. U # {} /\ \A w \in U : w \in Nat
      BY <1>4, <2>1
    <3> HIDE DEF U
    <3> QED BY <2>2, <3>1, Lowest
  <2>4. \E q \in D : \A r \in D : verified[q].used <= verified[r].used
    BY <2>3
  <2> QED BY <2>4 DEF Oldest
<1> HIDE DEF D
<1>5. CASE p \in D
  <2>1. Kept(p) \cup {p} = D
    BY <1>3, <1>5
  <2> QED BY <1>1, <2>1, <1>3, <1>5 DEF D
<1>6. CASE p \notin D /\ Cardinality(D) < VerifiedCacheMax
  <2>1. Kept(p) = D
    BY <1>3, <1>6
  <2>2. IsFiniteSet(D \cup {p}) /\ Cardinality(D \cup {p}) = Cardinality(D) + 1
    BY <1>1, <1>6, FS_AddElement
  <2> QED BY <1>1, <1>2, <1>6, <2>1, <2>2 DEF D
<1>7. CASE p \notin D /\ ~(Cardinality(D) < VerifiedCacheMax)
  <2>1. Kept(p) = D \ {Oldest}
    BY <1>3, <1>7
  <2>2. D # {}
    <3>1. Cardinality({}) = 0
      BY FS_EmptySet
    <3> QED BY <1>2, <1>7, <3>1
  <2>3. Oldest \in D
    BY <1>4, <2>2
  <2>4. /\ IsFiniteSet(D \ {Oldest}) /\ Cardinality(D \ {Oldest}) = Cardinality(D) - 1
    BY <1>1, <2>3, FS_RemoveElement
  <2>5. /\ IsFiniteSet((D \ {Oldest}) \cup {p})
        /\ Cardinality((D \ {Oldest}) \cup {p}) = Cardinality(D \ {Oldest}) + 1
    BY <1>7, <2>4, FS_AddElement
  <2> QED BY <1>1, <1>2, <2>1, <2>4, <2>5 DEF D
<1> QED BY <1>5, <1>6, <1>7

LEMMA PutStep ==
    ASSUME FilesTyped, MemoryGood, NEW p \in Paths, NEW e \in Entries, e.since = now,
           Trusted(inode, e), Put(p, e), UNCHANGED <<inode, clock, now>>
    PROVE MemoryGood'
<1>1. /\ Kept(p) \subseteq DOMAIN verified /\ IsFiniteSet(Kept(p) \cup {p})
      /\ Cardinality(Kept(p) \cup {p}) <= VerifiedCacheMax
  BY RoomIsMade DEF MemoryGood
<1>2. /\ DOMAIN verified' = Kept(p) \cup {p} /\ verified' = [q \in DOMAIN verified' |-> verified'[q]]
      /\ \A q \in DOMAIN verified' : verified'[q] = IF q = p THEN e ELSE verified[q]
  BY DEF Put
<1>3. now \in Nat
  BY DEF FilesTyped
<1>4. \A q \in DOMAIN verified' :
        /\ verified'[q] \in Entries /\ verified'[q].since <= now
        /\ Trusted(inode, verified'[q])
  <2> SUFFICES ASSUME NEW q \in DOMAIN verified'
               PROVE  /\ verified'[q] \in Entries /\ verified'[q].since <= now
                      /\ Trusted(inode, verified'[q])
    OBVIOUS
  <2>1. CASE q = p
    BY <1>2, <1>3, <2>1
  <2>2. CASE q # p
    BY <1>1, <1>2, <2>2 DEF MemoryGood, MemoryTyped
  <2> QED BY <2>1, <2>2
<1>5. DOMAIN verified' \subseteq Paths
  BY <1>1, <1>2 DEF MemoryGood, MemoryTyped
<1>6. MemoryTyped'
  BY <1>1, <1>2, <1>4, <1>5 DEF MemoryGood, MemoryTyped
<1> QED BY <1>4, <1>6 DEF MemoryGood

LEMMA RememberStep ==
    ASSUME FilesTyped, MemoryGood, VerifyGood, Remember
    PROVE FilesTyped' /\ MemoryGood' /\ VerifyGood'
<1> DEFINE p == verify.path
           e == [size |-> verify.size, mod |-> verify.mod, tail |-> verify.tail,
                 id |-> verify.id, since |-> now, good |-> verify.good, used |-> clock,
                 seen |-> TRUE]
<1>1. /\ verify.at = "stat" /\ verify' = NoVerify /\ UNCHANGED <<inode, path, clock, now>>
      /\ p \in Paths /\ verify \in Verifying /\ Vouches(inode, verify, now)
  BY DEF Remember, VerifyGood
<1>2. FilesTyped' /\ VerifyGood'
  <2>1. NoVerify \in Verifying /\ NoVerify.at = "idle"
    BY DEF NoVerify, Verifying, TailRecord
  <2> QED BY <1>1, <2>1 DEF FilesTyped, VerifyGood
<1>3. CASE UNCHANGED verified
  BY <1>1, <1>2, <1>3 DEF MemoryGood, MemoryTyped
<1>4. CASE Put(p, e)
  <2>1. e \in Entries /\ e.since = now
    <3>1. now \in Nat /\ clock \in Nat
      BY DEF FilesTyped, MemoryGood, MemoryTyped
    <3>2. verify.size \in Nat /\ verify.mod \in Nat /\ verify.tail \in TailRecord
          /\ verify.id \in Nat /\ verify.good \in BOOLEAN
      BY <1>1 DEF Verifying
    <3> QED BY <3>1, <3>2 DEF Entries
  <2>2. Trusted(inode, e)
    BY <1>1 DEF Trusted, Vouches, Knows
  <2> HIDE DEF e, p
  <2>3. MemoryGood'
    BY <1>1, <1>4, <2>1, <2>2, PutStep
  <2> QED BY <1>2, <2>3
<1> QED BY <1>3, <1>4 DEF Remember

\* What carries the name of a file just written is remembered as good: the file itself,
\* while it has its modification time, is, or rots only now.
LEMMA NoteStep ==
    ASSUME FilesTyped, MemoryGood, VerifyGood, NotingGood, NEW w \in noting, NoteVerified(w)
    PROVE FilesTyped' /\ MemoryGood' /\ VerifyGood'
<1>1. UNCHANGED <<inode, path, clock, verify, now>> /\ StillGood(inode, w)
  BY DEF NoteVerified, NotingGood
<1>2. FilesTyped' /\ VerifyGood'
  BY <1>1 DEF FilesTyped, VerifyGood
<1>3. CASE UNCHANGED verified
  BY <1>1, <1>2, <1>3 DEF MemoryGood, MemoryTyped
<1>4. CASE ~UNCHANGED verified
  <2> DEFINE n == path[w.path]
             f == inode[n]
             e == [size |-> Size(f), mod |-> f.mod, tail |-> f.tail, id |-> n,
                   since |-> now, good |-> TRUE, used |-> clock, seen |-> n = w.id /\ f.mod = w.mod]
  <2>1. w.path \in DOMAIN path /\ Put(w.path, e)
    BY <1>4 DEF NoteVerified
  <2>2. n \in DOMAIN inode /\ w.path \in Paths
    BY <1>1, <2>1 DEF FilesTyped, StillGood
  <2>3. f \in Inode /\ f.mod \in Nat /\ f.tail \in TailRecord /\ n \in Nat /\ now \in Nat
    BY <2>2, FileKnown
  <2>4. Size(f) \in Nat /\ clock \in Nat
    BY <2>3, SizeTyped DEF MemoryGood, MemoryTyped
  <2>5. e \in Entries /\ e.since = now
    <3>1. (n = w.id /\ f.mod = w.mod) \in BOOLEAN
      OBVIOUS
    <3> HIDE DEF n, f
    <3> QED BY <2>3, <2>4, <3>1 DEF Entries
  <2>6. Knows(inode, e)
    BY <2>2, <2>3 DEF Knows
  <2>7. e.seen => Intact(f) \/ f.rot >= now
    BY <1>1 DEF StillGood
  <2>8. Trusted(inode, e)
    BY <2>5, <2>6, <2>7 DEF Trusted, Vouches
  <2> HIDE DEF e
  <2>9. MemoryGood'
    BY <1>1, <2>1, <2>2, <2>5, <2>8, PutStep
  <2> QED BY <1>2, <2>9
<1> QED BY <1>3, <1>4

LEMMA TickStep ==
    ASSUME FilesTyped, MemoryGood, VerifyGood, Tick
    PROVE FilesTyped' /\ MemoryGood' /\ VerifyGood'
<1>1. /\ now < MaxDay /\ now' = now + 1 /\ verify.at = "idle"
      /\ UNCHANGED <<inode, path, verified, clock, verify>>
  BY DEF Tick
<1>2. now \in 0 .. MaxDay /\ MaxDay \in Nat
  BY ArchiveAssumption DEF FilesTyped
<1>3. FilesTyped'
  BY <1>1, <1>2 DEF FilesTyped
<1>4. \A q \in DOMAIN verified : verified[q].since <= now'
  <2> SUFFICES ASSUME NEW q \in DOMAIN verified PROVE verified[q].since <= now'
    OBVIOUS
  <2>1. verified[q] \in Entries /\ verified[q].since <= now
    BY DEF MemoryGood, MemoryTyped
  <2>2. verified[q].since \in Nat
    BY <2>1 DEF Entries
  <2> QED BY <1>1, <1>2, <2>1, <2>2
<1>5. MemoryGood'
  BY <1>1, <1>4 DEF MemoryGood, MemoryTyped
<1>6. VerifyGood'
  BY <1>1 DEF VerifyGood
<1> QED BY <1>3, <1>5, <1>6

\* A deleted file is forgotten.
LEMMA ForgetStep ==
    ASSUME FilesTyped, MemoryGood, VerifyGood, NEW p \in Paths, DeleteFile(p)
    PROVE FilesTyped' /\ MemoryGood' /\ VerifyGood'
<1>1. /\ UNCHANGED <<inode, clock, verify, now>>
      /\ verified' = [q \in DOMAIN verified \ {p} |-> verified[q]]
  BY DEF DeleteFile
<1>2. FilesTyped'
  BY FilesStep DEF Files
<1>3. /\ DOMAIN verified' = DOMAIN verified \ {p} /\ verified' = [q \in DOMAIN verified' |-> verified'[q]]
      /\ \A q \in DOMAIN verified' : verified'[q] = verified[q]
  BY <1>1
<1>4. IsFiniteSet(DOMAIN verified') /\ Cardinality(DOMAIN verified') <= VerifiedCacheMax
  <2>1. /\ IsFiniteSet(DOMAIN verified) /\ Cardinality(DOMAIN verified) <= VerifiedCacheMax
        /\ Cardinality(DOMAIN verified) \in Nat
    BY FS_CardinalityType DEF MemoryGood, MemoryTyped
  <2>2. /\ IsFiniteSet(DOMAIN verified') /\ Cardinality(DOMAIN verified') <= Cardinality(DOMAIN verified)
        /\ Cardinality(DOMAIN verified') \in Nat
    BY <1>3, <2>1, FS_Subset, FS_CardinalityType
  <2>3. VerifiedCacheMax \in Nat
    BY ArchiveAssumption
  <2> QED BY <2>1, <2>2, <2>3
<1>5. \A q \in DOMAIN verified' :
        /\ verified'[q] \in Entries /\ verified'[q].since <= now
        /\ Trusted(inode, verified'[q])
  BY <1>3 DEF MemoryGood, MemoryTyped
<1>6. MemoryGood'
  BY <1>1, <1>3, <1>4, <1>5 DEF MemoryGood, MemoryTyped
<1>7. VerifyGood'
  BY <1>1 DEF VerifyGood
<1> QED BY <1>2, <1>6, <1>7

LEMMA MemoryFilesStep ==
    ASSUME FilesTyped, MemoryGood, VerifyGood, NEW p \in Paths, Files(p)
    PROVE FilesTyped' /\ MemoryGood' /\ VerifyGood'
<1>1. CASE DeleteFile(p)
  BY <1>1, ForgetStep
<1>2. CASE ~DeleteFile(p)
  <2>1. UNCHANGED <<now, verified, clock, verify>>
    BY <1>2 DEF Files, CompressBackup, ReplaceFile, EditFile, Rot
  <2>2. FilesTyped' /\ FilesAge
    BY FilesStep
  <2> QED BY <2>1, <2>2, MemoryBeside
<1> QED BY <1>1, <1>2

\* A file written whole is intact.
LEMMA WrittenIntact ==
    ASSUME NEW d \in Seq(Block), HeaderGood(d), NEW f,
           f.members = <<[data |-> d, ok |-> TRUE]>>, f.tail = Fingerprint(d)
    PROVE Intact(f)
<1> DEFINE ms == <<[data |-> d, ok |-> TRUE]>>
<1>1. /\ ms \in Seq(GzipMember) /\ Len(ms) = 1 /\ DOMAIN ms = {1}
      /\ ms[1].data = d /\ ms[1].ok
  <2>1. [data |-> d, ok |-> TRUE] \in GzipMember
    BY DEF GzipMember
  <2> QED BY <2>1
<1>2. f.members = ms
  OBVIOUS
<1> HIDE DEF ms
<1>3. 1 \in 1 .. Len(ms)
  BY <1>1
<1>4. Data(ms) = Before(ms, 1) \o d /\ Before(ms, 1) = <<>>
  BY <1>1, <1>3, BeforeKnown DEF Before
<1>5. Data(ms) = d
  BY <1>4, ConcatEmptySeq
<1>6. Len(ms) + (IF f.tail = NoTail THEN 0 ELSE 1) <= MaxGzipMembers
  BY <1>1, ArchiveAssumption
<1> QED BY <1>1, <1>2, <1>5, <1>6 DEF Intact

\* Every step leaves what is to be noted good for the files it is of.
LEMMA NotingBeside ==
    ASSUME FilesTyped, FilesTyped', FilesAge, UNCHANGED now, NEW w, StillGood(inode, w)
    PROVE StillGood(inode', w)
<1> DEFINE n == w.id
<1>1. n \in DOMAIN inode /\ n \in DOMAIN inode' /\ Aged(n)
  BY DEF StillGood, FilesAge
<1>2. inode[n].mod \in Nat /\ now \in Nat
  BY <1>1, FileKnown
<1>3. inode'[n].mod \in Nat
  <2>1. inode' \in Seq(Inode)
    BY DEF FilesTyped
  <2>2. inode'[n] \in Inode
    BY <1>1, <2>1
  <2> QED BY <2>2 DEF Inode
<1>4. CASE inode'[n] = inode[n]
  BY <1>1, <1>4 DEF StillGood
<1>5. CASE inode'[n].mod > inode[n].mod
  BY <1>1, <1>2, <1>3, <1>5 DEF StillGood
<1>6. CASE inode'[n].mod = inode[n].mod /\ inode'[n].rot = now
  BY <1>1, <1>2, <1>6 DEF StillGood
<1> QED BY <1>1, <1>4, <1>5, <1>6 DEF Aged

LEMMA NotingStep ==
    ASSUME FilesTyped, NotingGood, DecompressNext \/ VerifyNext \/ UNCHANGED archiveVars
    PROVE NotingGood'
<1>1. CASE \E p \in Paths : Files(p)
  <2>1. PICK p \in Paths : Files(p)
    BY <1>1
  <2>2. FilesTyped' /\ FilesAge /\ UNCHANGED now
    BY <2>1, FilesStep DEF Files, CompressBackup, ReplaceFile, EditFile, Rot, DeleteFile
  <2>3. \A w \in noting : StillGood(inode', w)
    BY <2>2, NotingBeside DEF NotingGood
  <2>4. \A w \in noting : StillGood(inode, w)' <=> StillGood(inode', w)
    BY <2>2 DEF StillGood
  <2>5. CASE UNCHANGED noting
    BY <2>3, <2>2, <2>5 DEF NotingGood, StillGood
  <2>6. CASE \E a \in Archives : CompressBackup(p, Data(a.members))
    <3>1. PICK a \in Archives : CompressBackup(p, Data(a.members))
      BY <2>6
    <3> DEFINE d == Data(a.members)
               v == [path |-> p, id |-> Len(inode) + 1, mod |-> now]
               f == [members |-> <<[data |-> d, ok |-> TRUE]>>, tail |-> Fingerprint(d), mod |-> now,
                     rot |-> -1]
    <3>2. d \in Seq(Block)
      BY DataTyped, ArchiveAssumption
    <3>3. HeaderGood(d) /\ inode' = Append(inode, f) /\ noting' = noting \cup {v}
      BY <3>1 DEF CompressBackup, NewFile
    <3>4. f.members = <<[data |-> d, ok |-> TRUE]>> /\ f.tail = Fingerprint(d) /\ f.mod = now
      OBVIOUS
    <3> HIDE DEF d
    <3>5. Intact(f)
      <4> HIDE DEF f
      <4> QED BY <3>2, <3>3, <3>4, WrittenIntact
    <3> HIDE DEF f
    <3>6. v.id \in DOMAIN inode' /\ inode'[v.id] = f
      BY <3>3 DEF FilesTyped
    <3>7. v.mod = now /\ now \in Nat /\ v.path \in Paths
      BY DEF FilesTyped
    <3>8. StillGood(inode', v)
      BY <3>4, <3>5, <3>6, <3>7 DEF StillGood
    <3> HIDE DEF v
    <3> QED BY <2>2, <2>3, <3>3, <3>8 DEF NotingGood, StillGood
  <2> QED BY <2>1, <2>5, <2>6 DEF Files, ReplaceFile, EditFile, Rot, DeleteFile
<1>2. CASE Tick
  BY <1>2 DEF Tick, NotingGood
<1>3. CASE UNCHANGED <<inode, now>> /\ noting' \subseteq noting
  BY <1>3 DEF NotingGood, StillGood
<1>4. CASE \/ \E p \in Paths : StartDecompress(p) \/ UseRemembered(p) \/ OpenToVerify(p)
           \/ DecompressBlock \/ EndMember \/ ReadToVerify \/ Remember \/ UNCHANGED archiveVars
  <2>1. UNCHANGED <<inode, now, noting>>
    BY <1>4 DEF StartDecompress, UseRemembered, OpenToVerify, DecompressBlock, EndMember,
       ReadToVerify, Remember, archiveVars
  <2> QED BY <1>3, <2>1
<1>5. CASE \E w \in noting : NoteVerified(w)
  <2>1. UNCHANGED <<inode, now>> /\ noting' \subseteq noting
    BY <1>5 DEF NoteVerified
  <2> QED BY <1>3, <2>1
<1> QED BY <1>1, <1>2, <1>4, <1>5 DEF DecompressNext, VerifyNext

\* What the list says of a file rests on an entry that vouches for it.
LEMMA MemoryShows ==
    ASSUME FilesTyped, MemoryGood PROVE VouchedIsGood
<1> SUFFICES ASSUME NEW p \in DOMAIN path, Remembered(p)
             PROVE  LET f == inode[path[p]] IN
                    /\ verified[p].good => \/ Intact(f)
                                           \/ (f.rot >= 0 /\ now - f.rot < VerifiedMaxAge)
                                           \/ ~verified[p].seen
                    /\ ~verified[p].good => ~Intact(f)
  BY DEF VouchedIsGood, IntegrityOf
<1> DEFINE e == verified[p]
           f == inode[path[p]]
<1>1. /\ p \in DOMAIN verified /\ e.mod = f.mod /\ e.id = path[p] /\ now - e.since < VerifiedMaxAge
  BY DEF Remembered, Entry
<1>2. e \in Entries /\ Trusted(inode, e)
  BY <1>1 DEF MemoryGood, MemoryTyped
<1>3. e.since \in Nat /\ f.rot \in Int /\ now \in Nat /\ VerifiedMaxAge \in Nat
  <2>1. path[p] \in DOMAIN inode
    BY DEF FilesTyped
  <2>2. VerifiedMaxAge \in Nat
    BY ArchiveAssumption
  <2> QED BY <1>2, <2>1, <2>2, FileKnown DEF Entries
<1>4. /\ e.good => Intact(f) \/ f.rot >= e.since \/ ~e.seen
      /\ ~e.good => ~Intact(f)
  BY <1>1, <1>2 DEF Trusted, Vouches
<1> HIDE DEF e, f
<1>5. f.rot >= e.since => f.rot >= 0 /\ now - f.rot < VerifiedMaxAge
  BY <1>1, <1>3
<1> QED BY <1>4, <1>5 DEF e, f

-----------------------------------------------------------------------------
(* A decompression. *)

Content == Block \cup {"file"}

LEMMA OneMore ==
    ASSUME NEW T, NEW a \in Seq(T), NEW c \in Seq(T), NEW n \in Nat, n < Len(c)
    PROVE Append(a \o SubSeq(c, 1, n), c[n + 1]) = a \o SubSeq(c, 1, n + 1)
<1> DEFINE b == SubSeq(c, 1, n)
           x == c[n + 1]
<1>1. n + 1 \in 1 .. Len(c) /\ 1 \in 1 .. Len(c) /\ n + 1 \in 1 .. Len(c) /\ (n + 1) - 1 = n
  OBVIOUS
<1>2. x \in T /\ \A i \in 1 .. n : c[i] \in T
  BY <1>1, ElementOfSeq
<1>3. b \in Seq(T)
  BY <1>2, SubSeqProperties
<1>4. SubSeq(c, 1, n + 1) = b \o <<x>>
  BY <1>1, SubSeqRecursiveSecond
<1> HIDE DEF b, x
<1>5. a \o b \in Seq(T) /\ <<x>> \in Seq(T)
  BY <1>2, <1>3, ConcatProperties
<1>6. Append(a \o b, x) = (a \o b) \o <<x>>
  BY <1>2, <1>5, AppendIsConcat
<1>7. (a \o b) \o <<x>> = a \o (b \o <<x>>)
  BY <1>3, <1>5, ConcatAssociative
<1> QED BY <1>4, <1>6, <1>7 DEF b, x

LEMMA LimitTyped == ASSUME NEW p \in Plans, DecompressLimit(p) > 0 PROVE DecompressLimit(p) \in Nat
<1>1. /\ p.free \in Nat /\ p.margin \in Nat /\ p.compressed \in Nat /\ p.live \in Nat /\ p.cap \in Nat
      /\ Ratio \in Nat \ {0}
  BY ArchiveAssumption
<1>2. p.compressed * Ratio \in Nat
  BY <1>1
<1>3. RatioCap(p) \in Nat
  BY <1>1, <1>2 DEF RatioCap, SmallerOf, LargerOf
<1>4. p.free > p.margin => p.free - p.margin \in Nat
  BY <1>1
<1> QED BY <1>1, <1>3, <1>4 DEF DecompressLimit, SmallerOf

JobEnds == {"none", "ok", "cancelled", "noroom", "corrupt", "toolarge", "unsynced", "partial"}
JobRun == [at : {"idle", "member"}, members : Seq(GzipMember), total : Nat, limit : Nat,
           budget : Nat, member : Nat, taken : Nat,
           done : JobEnds]
Running ==
    job.at = "member" /\ job.members # <<>> =>
        /\ job.member \in 1 .. Len(job.members) /\ job.taken <= Len(Current)
        /\ output = <<"file">> \o Before(job.members, job.member) \o SubSeq(Current, 1, job.taken)
        /\ \A i \in 1 .. Len(job.members) : i < job.member => job.members[i].ok
JobGood ==
    /\ job \in JobRun
    /\ job.at = "member" => job.done = "none" /\ job.member >= 1
    /\ Running /\ DecompressFaithful
\* A settled decompression that failed leaves nothing, or what it could not remove.
LEMMA SettledGood ==
    ASSUME JobGood, NEW how \in {"cancelled", "noroom", "corrupt", "toolarge", "unsynced"},
           Settle(how)
    PROVE JobGood'
<1>1. PICK end \in {how, "partial"} :
        /\ job' = [job EXCEPT !.at = "idle", !.done = end]
        /\ end # "partial" => output' = <<>>
  BY DEF Settle
<1>2. job \in JobRun /\ end \in JobEnds
  BY DEF JobGood, JobEnds
<1>3. /\ job' \in JobRun /\ job'.at = "idle" /\ job'.done = end
      /\ job'.total = job.total /\ job'.budget = job.budget
  BY <1>1, <1>2 DEF JobRun
<1>4. job.total <= job.budget
  BY DEF JobGood, DecompressFaithful
<1>5. DecompressFaithful'
  BY <1>1, <1>3, <1>4 DEF DecompressFaithful
<1> QED BY <1>3, <1>5 DEF JobGood, Running

LEMMA StartStep ==
    ASSUME FilesTyped, JobGood, NEW p \in Paths, StartDecompress(p)
    PROVE JobGood'
<1>1. PICK plan \in Plans, budget \in {1, 4} :
        /\ DecompressLimit(plan) > 0
        /\ job' = [NoJob EXCEPT !.at = "member", !.members = inode[path[p]].members,
                                !.limit = DecompressLimit(plan), !.budget = budget,
                                !.member = 1]
  BY DEF StartDecompress
<1>2. p \in DOMAIN path /\ output' = <<"file">>
  BY DEF StartDecompress
<1> DEFINE ms == inode[path[p]].members
           lim == DecompressLimit(plan)
<1>3. lim \in Nat
  BY <1>1, LimitTyped
<1>4. ms \in Seq(GzipMember)
  BY <1>2, FileKnown DEF FilesTyped
<1> HIDE DEF ms, lim
<1>5. job' = [NoJob EXCEPT !.at = "member", !.members = ms, !.limit = lim, !.budget = budget,
                           !.member = 1]
  BY <1>1 DEF ms, lim
<1>6. /\ job' \in JobRun /\ job'.at = "member" /\ job'.members = ms /\ job'.member = 1
      /\ job'.taken = 0 /\ job'.done = "none" /\ job'.total = 0 /\ job'.budget = budget
  <2> DEFINE S == Seq(GzipMember)
  <2>1. <<>> \in S
    BY EmptySeq
  <2>2. ms \in S
    BY <1>4
  <2>3. NoJob \in JobRun /\ NoJob.taken = 0 /\ NoJob.total = 0 /\ NoJob.done = "none"
    BY <2>1 DEF JobRun, JobEnds, NoJob
  <2>4. budget \in Nat
    OBVIOUS
  <2> HIDE DEF S
  <2> QED BY <1>3, <1>5, <2>2, <2>3, <2>4 DEF JobRun, S
<1>7. DecompressFaithful'
  BY <1>6 DEF DecompressFaithful
<1>8. Running'
  <2>1. SUFFICES ASSUME ms # <<>>
                 PROVE /\ 1 \in 1 .. Len(ms) /\ 0 <= Len(ms[1].data)
                       /\ output' = <<"file">> \o Before(ms, 1) \o SubSeq(ms[1].data, 1, 0)
    BY <1>6 DEF Running, Current
  <2>2. 1 \in 1 .. Len(ms)
    BY <1>4, <2>1
  <2>3. ms[1].data \in Seq(Block) /\ Before(ms, 1) = <<>>
    BY <1>4, <2>2, BeforeKnown DEF Before
  <2>4. SubSeq(ms[1].data, 1, 0) = <<>>
    BY SubSeqEmpty
  <2>5. <<"file">> \o <<>> = <<"file">>
    <3>1. <<"file">> \in Seq({"file"})
      OBVIOUS
    <3> QED BY <3>1, ConcatEmptySeq
  <2>6. 0 <= Len(ms[1].data)
    BY <2>3, LenProperties
  <2> QED BY <1>2, <2>2, <2>3, <2>4, <2>5, <2>6
<1> QED BY <1>6, <1>7, <1>8 DEF JobGood

\* What is known of the member in hand.
LEMMA InTheMember ==
    ASSUME JobGood, job.at = "member", job.member <= Len(job.members)
    PROVE /\ job \in JobRun /\ job.done = "none" /\ job.members \in Seq(GzipMember)
          /\ job.member \in 1 .. Len(job.members) /\ Len(job.members) \in Nat
          /\ job.taken \in Nat /\ job.taken <= Len(Current) /\ Len(Current) \in Nat
          /\ job.total \in Nat /\ job.limit \in Nat /\ job.budget \in Nat /\ job.total <= job.budget
          /\ Current \in Seq(Block) /\ Before(job.members, job.member) \in Seq(Block)
          /\ output = <<"file">> \o Before(job.members, job.member) \o SubSeq(Current, 1, job.taken)
          /\ \A i \in 1 .. Len(job.members) : i < job.member => job.members[i].ok
<1>1. /\ job \in JobRun /\ job.members \in Seq(GzipMember) /\ job.member \in Nat /\ job.taken \in Nat
      /\ job.total \in Nat /\ job.limit \in Nat /\ job.budget \in Nat /\ job.total <= job.budget
      /\ job.done = "none"
  BY DEF JobGood, JobRun, DecompressFaithful
<1>2. CASE job.members # <<>>
  <2>1. /\ job.member \in 1 .. Len(job.members) /\ job.taken <= Len(Current)
        /\ output = <<"file">> \o Before(job.members, job.member) \o SubSeq(Current, 1, job.taken)
        /\ \A i \in 1 .. Len(job.members) : i < job.member => job.members[i].ok
    BY <1>2 DEF JobGood, Running
  <2>2. Current \in Seq(Block) /\ Before(job.members, job.member) \in Seq(Block)
    BY <1>1, <2>1, BeforeKnown DEF Current
  <2> QED BY <1>1, <2>1, <2>2, LenProperties
<1>3. CASE job.members = <<>>
  <2>1. job.member >= 1
    BY DEF JobGood
  <2>2. Len(job.members) = 0
    BY <1>3
  <2> QED BY <1>1, <2>1, <2>2
<1> QED BY <1>2, <1>3

LEMMA BlockStep ==
    ASSUME JobGood, DecompressBlock PROVE JobGood'
<1>1. job.at = "member" /\ job.member <= Len(job.members) /\ job.taken < Len(Current)
  BY DEF DecompressBlock
<1>2. CASE Settle("cancelled") \/ Settle("noroom")
  BY <1>2, SettledGood
<1>3. CASE /\ job.total + 1 <= job.budget
           /\ job' = [job EXCEPT !.total = @ + 1, !.taken = @ + 1]
           /\ output' = Append(output, Current[job.taken + 1])
  <2>1. /\ job' \in JobRun /\ job'.at = "member" /\ job'.members = job.members
        /\ job'.member = job.member /\ job'.taken = job.taken + 1 /\ job'.done = "none"
        /\ job'.total = job.total + 1 /\ job'.budget = job.budget
    <3> DEFINE S == Seq(GzipMember)
    <3>1. /\ job \in JobRun /\ job.done = "none" /\ job.total \in Nat /\ job.taken \in Nat
      BY <1>1, InTheMember
    <3>2. job \in [at : {"idle", "member"}, members : S, total : Nat, limit : Nat,
                   budget : Nat, member : Nat, taken : Nat,
                   done : JobEnds]
      BY <3>1 DEF JobRun
    <3>3. job.total + 1 \in Nat /\ job.taken + 1 \in Nat
      BY <3>1
    <3> HIDE DEF S
    <3>4. job' \in [at : {"idle", "member"}, members : S, total : Nat, limit : Nat,
                    budget : Nat, member : Nat, taken : Nat,
                    done : JobEnds]
      BY <1>3, <3>2, <3>3
    <3> QED BY <1>1, <1>3, <3>1, <3>2, <3>4 DEF JobRun, S
  <2>2. Current' = Current
    BY <2>1 DEF Current
  <2> DEFINE a == <<"file">> \o Before(job.members, job.member)
  <2>3. a \in Seq(Content) /\ Current \in Seq(Content) /\ job.taken \in Nat
    <3>1. /\ Before(job.members, job.member) \in Seq(Block) /\ Current \in Seq(Block) /\ job.taken \in Nat
      BY <1>1, InTheMember
    <3>2. Block \subseteq Content /\ <<"file">> \in Seq(Content)
      BY DEF Content
    <3>3. Before(job.members, job.member) \in Seq(Content) /\ Current \in Seq(Content)
      BY <3>1, <3>2, SeqMonotonic
    <3> QED BY <3>1, <3>2, <3>3, ConcatProperties
  <2>4. output = a \o SubSeq(Current, 1, job.taken)
    BY <1>1, InTheMember
  <2> HIDE DEF a
  <2>5. output' = a \o SubSeq(Current, 1, job.taken + 1)
    BY <1>1, <1>3, <2>3, <2>4, OneMore
  <2>6. Running'
    <3>1. /\ job.member \in 1 .. Len(job.members) /\ Len(Current) \in Nat
          /\ \A i \in 1 .. Len(job.members) : i < job.member => job.members[i].ok
      BY <1>1, InTheMember
    <3>2. job.taken + 1 <= Len(Current)
      BY <1>1, <2>3, <3>1
    <3> QED BY <2>1, <2>2, <2>5, <3>1, <3>2 DEF Running, a
  <2>7. DecompressFaithful'
    BY <1>3, <2>1 DEF DecompressFaithful
  <2>8. job.member >= 1
    BY <1>1 DEF JobGood
  <2> QED BY <2>1, <2>6, <2>7, <2>8 DEF JobGood
<1> QED BY <1>2, <1>3 DEF DecompressBlock

LEMMA EndStep ==
    ASSUME JobGood, EndMember PROVE JobGood'
<1> DEFINE ms == job.members
           m == job.member
           a == <<"file">> \o Before(ms, m)
<1>1. /\ job.at = "member" /\ m <= Len(ms)
      /\ job.taken = Len(Current) \/ ReadCap = 0
  BY DEF EndMember
<1>2. /\ job \in JobRun /\ job.done = "none" /\ ms \in Seq(GzipMember)
      /\ m \in 1 .. Len(ms) /\ Len(ms) \in Nat
      /\ job.taken \in Nat /\ job.taken <= Len(Current) /\ Len(Current) \in Nat
      /\ job.total \in Nat /\ job.limit \in Nat /\ job.budget \in Nat /\ job.total <= job.budget
      /\ Current \in Seq(Block) /\ Before(ms, m) \in Seq(Block)
      /\ output = a \o SubSeq(Current, 1, job.taken)
      /\ \A i \in 1 .. Len(ms) : i < m => ms[i].ok
  BY <1>1, InTheMember
<1>3. CASE Settle("corrupt") \/ Settle("toolarge") \/ Settle("unsynced")
  BY <1>3, SettledGood
<1>4. CASE ~(Settle("corrupt") \/ Settle("toolarge") \/ Settle("unsynced"))
  <2>1. /\ ~(job.taken = Len(Current) /\ ReadCap > 0 /\ ~ms[m].ok)
        /\ ~TooMuch /\ ~(job.taken < Len(Current))
        /\ \/ m = Len(ms) /\ Settle("ok")
           \/ /\ m # Len(ms) /\ UNCHANGED output
              /\ job' = [job EXCEPT !.member = @ + 1, !.taken = 0]
    BY <1>4 DEF EndMember
  <2>2. job.taken = Len(Current) /\ job.total <= job.limit /\ ReadCap > 0
    BY <1>2, <2>1 DEF TooMuch, ReadCap
  <2>3. ms[m].ok
    BY <2>1, <2>2
  <2>4. \A i \in 1 .. Len(ms) : i < m + 1 => ms[i].ok
    <3> SUFFICES ASSUME NEW i \in 1 .. Len(ms), i < m + 1 PROVE ms[i].ok
      OBVIOUS
    <3>1. m \in Int /\ i \in Int
      BY <1>2
    <3>2. i < m \/ i = m
      <4> HIDE DEF m, ms
      <4> QED BY <3>1
    <3> QED BY <1>2, <2>3, <3>2
  <2>5. output = <<"file">> \o (Before(ms, m) \o ms[m].data)
    <3>1. SubSeq(Current, 1, job.taken) = Current
      BY <1>2, <2>2, SubSeqFull
    <3>2. <<"file">> \in Seq(Content) /\ Block \subseteq Content
      BY DEF Content
    <3>3. Before(ms, m) \in Seq(Content) /\ Current \in Seq(Content)
      BY <1>2, <3>2, SeqMonotonic
    <3>4. (<<"file">> \o Before(ms, m)) \o Current = <<"file">> \o (Before(ms, m) \o Current)
      BY <3>2, <3>3, ConcatAssociative
    <3> QED BY <1>2, <3>1, <3>4 DEF Current
  <2>6. CASE m = Len(ms) /\ Settle("ok")
    <3>1. output = <<"file">> \o Data(ms)
      BY <1>2, <2>5, <2>6, BeforeKnown
    <3>2. job' = [job EXCEPT !.at = "idle", !.done = "ok"] /\ output' = output
      BY <2>6 DEF Settle
    <3>3. /\ job' \in JobRun /\ job'.at = "idle" /\ job'.done = "ok" /\ job'.members = ms
          /\ job'.total = job.total /\ job'.limit = job.limit /\ job'.budget = job.budget
      <4>1. job \in JobRun
        BY <1>2
      <4> QED BY <3>2, <4>1 DEF JobRun, JobEnds
    <3>4. \A i \in DOMAIN ms : ms[i].ok
      <4> SUFFICES ASSUME NEW i \in DOMAIN ms PROVE ms[i].ok
        OBVIOUS
      <4>1. DOMAIN ms = 1 .. Len(ms)
        BY <1>2, LenProperties
      <4>2. i \in 1 .. Len(ms)
        BY <4>1
      <4>3. i < m + 1
        <5>1. m = Len(ms) /\ Len(ms) \in Nat
          BY <1>2, <2>6
        <5> HIDE DEF m, ms
        <5> QED BY <4>2, <5>1
      <4> QED BY <2>4, <4>2, <4>3
    <3>5. DecompressFaithful'
      BY <1>2, <2>2, <3>1, <3>2, <3>3, <3>4 DEF DecompressFaithful
    <3> QED BY <3>3, <3>5 DEF JobGood, Running
  <2>7. CASE /\ m # Len(ms) /\ UNCHANGED output
             /\ job' = [job EXCEPT !.member = @ + 1, !.taken = 0]
    <3>1. /\ job' \in JobRun /\ job'.at = "member" /\ job'.members = ms
          /\ job'.member = m + 1 /\ job'.taken = 0 /\ job'.done = "none"
          /\ job'.total = job.total /\ job'.limit = job.limit /\ job'.budget = job.budget
      <4> DEFINE S == Seq(GzipMember)
      <4>1. /\ job \in [at : {"idle", "member"}, members : S, total : Nat, limit : Nat,
                         budget : Nat, member : Nat, taken : Nat,
                         done : JobEnds]
            /\ job.done = "none" /\ job.member \in Nat
        BY <1>2 DEF JobRun
      <4>2. job.member + 1 \in Nat
        BY <4>1
      <4> HIDE DEF S
      <4>3. job' \in [at : {"idle", "member"}, members : S, total : Nat, limit : Nat,
                      budget : Nat, member : Nat, taken : Nat,
                      done : JobEnds]
        BY <2>7, <4>1, <4>2
      <4> QED BY <1>1, <2>7, <4>1, <4>3 DEF JobRun, S
    <3>2. m + 1 \in 1 .. Len(ms) /\ m + 1 >= 1
      BY <1>2, <2>7
    <3>3. /\ Before(ms, m + 1) = Before(ms, m) \o ms[m].data
          /\ Before(ms, m + 1) \in Seq(Block) /\ ms[m + 1].data \in Seq(Block)
      <4>1. ms \in Seq(GzipMember) /\ m \in 1 .. Len(ms) /\ m + 1 <= Len(ms)
        BY <1>2, <3>2
      <4> HIDE DEF ms, m
      <4>2. Before(ms, m + 1) = Before(ms, m) \o ms[m].data
        BY <4>1, BeforeKnown
      <4>3. Before(ms, m + 1) \in Seq(Block) /\ ms[m + 1].data \in Seq(Block)
        BY <3>2, <4>1, BeforeKnown
      <4> QED BY <4>2, <4>3
    <3>4. Current' = ms[m + 1].data
      BY <3>1 DEF Current
    <3>5. output' = <<"file">> \o Before(ms, m + 1) \o SubSeq(ms[m + 1].data, 1, 0)
      <4>1. SubSeq(ms[m + 1].data, 1, 0) = <<>>
        BY SubSeqEmpty
      <4>2. <<"file">> \in Seq(Content) /\ Block \subseteq Content
        BY DEF Content
      <4>3. Before(ms, m + 1) \in Seq(Content)
        BY <3>3, <4>2, SeqMonotonic
      <4>4. <<"file">> \o Before(ms, m + 1) \in Seq(Content)
        BY <4>2, <4>3, ConcatProperties
      <4>5. (<<"file">> \o Before(ms, m + 1)) \o <<>> = <<"file">> \o Before(ms, m + 1)
        BY <4>4, ConcatEmptySeq
      <4> QED BY <2>5, <2>7, <3>3, <4>1, <4>5
    <3>6. 0 <= Len(ms[m + 1].data)
      BY <3>3, LenProperties
    <3>7. Running'
      BY <2>4, <3>1, <3>2, <3>4, <3>5, <3>6 DEF Running
    <3>8. DecompressFaithful'
      BY <1>2, <3>1 DEF DecompressFaithful
    <3> QED BY <3>1, <3>2, <3>7, <3>8 DEF JobGood
  <2> QED BY <2>1, <2>6, <2>7
<1> QED BY <1>3, <1>4
\* Files change beside a decompression, which keeps what it opened.
LEMMA JobBeside ==
    ASSUME JobGood, UNCHANGED <<job, output>> PROVE JobGood'
<1>1. UNCHANGED Current
  BY DEF Current
<1>2. Running' /\ DecompressFaithful'
  BY <1>1 DEF JobGood, Running, DecompressFaithful
<1> QED BY <1>2 DEF JobGood

-----------------------------------------------------------------------------
(* Files, the memory and a decompression together. *)

ArchiveInv == FilesTyped /\ MemoryGood /\ NotingGood /\ VerifyGood /\ JobGood

LEMMA ArchiveFirst == ASSUME ArchiveInit PROVE ArchiveInv
<1>1. /\ MaxDay \in Nat /\ MaxInodes \in Nat /\ VerifiedCacheMax \in Nat
  BY ArchiveAssumption
<1>2. FilesTyped
  <2>1. inode \in Seq(Inode) /\ Len(inode) = 0 /\ path = [p \in {} |-> 0] /\ now = 0
    BY DEF ArchiveInit
  <2>2. DOMAIN path = {} /\ path = [p \in DOMAIN path |-> path[p]]
    BY <2>1
  <2> QED BY <1>1, <2>1, <2>2 DEF FilesTyped
<1>3. MemoryGood
  <2>1. verified = [p \in {} |-> 0] /\ clock = 0
    BY DEF ArchiveInit
  <2>2. DOMAIN verified = {} /\ verified = [p \in DOMAIN verified |-> verified[p]]
    BY <2>1
  <2>3. IsFiniteSet({}) /\ Cardinality({}) = 0
    BY FS_EmptySet
  <2> QED BY <1>1, <2>1, <2>2, <2>3 DEF MemoryGood, MemoryTyped
<1>4. VerifyGood
  <2>1. NoVerify \in Verifying /\ NoVerify.at = "idle"
    BY DEF NoVerify, Verifying, TailRecord
  <2> QED BY <2>1 DEF ArchiveInit, VerifyGood
<1>5. JobGood
  <2>1. job = NoJob /\ NoJob \in JobRun /\ NoJob.at = "idle" /\ NoJob.done = "none"
        /\ NoJob.total = 0 /\ NoJob.budget = 0
    BY DEF ArchiveInit, NoJob, JobRun, JobEnds
  <2> QED BY <2>1 DEF JobGood, Running, DecompressFaithful
<1>6. NotingGood
  BY DEF ArchiveInit, NotingGood
<1> QED BY <1>2, <1>3, <1>4, <1>5, <1>6 DEF ArchiveInv

LEMMA ArchiveKept ==
    ASSUME ArchiveInv, DecompressNext \/ VerifyNext \/ UNCHANGED archiveVars
    PROVE ArchiveInv'
<1>1. FilesTyped /\ MemoryGood /\ NotingGood /\ VerifyGood /\ JobGood
  BY DEF ArchiveInv
<1>6. NotingGood'
  BY <1>1, NotingStep
<1>2. CASE \E p \in Paths : Files(p)
  <2>1. PICK p \in Paths : Files(p)
    BY <1>2
  <2>2. UNCHANGED <<job, output>>
    BY <2>1 DEF Files, CompressBackup, ReplaceFile, EditFile, Rot, DeleteFile
  <2> QED BY <1>1, <1>6, <2>1, <2>2, MemoryFilesStep, JobBeside DEF ArchiveInv
<1>3. CASE (\E p \in Paths : StartDecompress(p)) \/ DecompressBlock \/ EndMember
  <2>1. UNCHANGED <<inode, path, verified, clock, verify, now>>
    BY <1>3 DEF StartDecompress, DecompressBlock, EndMember
  <2>2. FilesTyped' /\ MemoryGood' /\ VerifyGood'
    BY <1>1, <2>1 DEF FilesTyped, MemoryGood, MemoryTyped, VerifyGood
  <2> QED BY <1>1, <1>3, <1>6, <2>2, StartStep, BlockStep, EndStep DEF ArchiveInv
<1>4. CASE \/ \E p \in Paths : UseRemembered(p) \/ OpenToVerify(p)
           \/ Tick \/ ReadToVerify \/ Remember
  <2>1. UNCHANGED <<job, output>>
    BY <1>4 DEF UseRemembered, OpenToVerify, Tick, ReadToVerify, Remember
  <2> QED BY <1>1, <1>4, <1>6, <2>1, JobBeside, UsedStep, OpenStep, TickStep, ReadStep, RememberStep
          DEF ArchiveInv
<1>5. CASE UNCHANGED archiveVars
  <2>1. UNCHANGED <<inode, path, verified, clock, verify, now, job, output>>
    BY <1>5 DEF archiveVars
  <2>2. FilesTyped' /\ MemoryGood' /\ VerifyGood'
    BY <1>1, <2>1 DEF FilesTyped, MemoryGood, MemoryTyped, VerifyGood
  <2> QED BY <1>1, <1>6, <2>1, <2>2, JobBeside DEF ArchiveInv
<1>7. CASE \E w \in noting : NoteVerified(w)
  <2>1. UNCHANGED <<job, output>>
    BY <1>7 DEF NoteVerified
  <2> QED BY <1>1, <1>6, <1>7, <2>1, JobBeside, NoteStep DEF ArchiveInv
<1> QED BY <1>2, <1>3, <1>4, <1>5, <1>7 DEF DecompressNext, VerifyNext

LEMMA ArchiveShown ==
    ASSUME ArchiveInv PROVE ArchiveTypeOK /\ DecompressFaithful /\ VouchedIsGood
<1>1. FilesTyped /\ MemoryGood /\ VerifyGood /\ JobGood
  BY DEF ArchiveInv
<1>2. verify.at \in {"idle", "read", "stat"} /\ job.at \in {"idle", "member"}
  BY <1>1 DEF VerifyGood, Verifying, JobGood, JobRun
<1>3. ArchiveTypeOK
  BY <1>1, <1>2 DEF ArchiveTypeOK, FilesTyped, MemoryGood, MemoryTyped
<1>4. VouchedIsGood
  BY <1>1, MemoryShows
<1> QED BY <1>1, <1>3, <1>4 DEF JobGood

-----------------------------------------------------------------------------
(* The parts side by side. *)

\* Each part of backup leaves the others alone.
LEMMA PartsInBackups ==
    /\ BackupsInit => RestoreInit /\ BackupDirInit /\ DiskSpaceInit /\ BackupStatusInit /\ ClientInit
    /\ [BackupsNext]_backupVars =>
         /\ [RestoreNext]_restoreVars /\ [BackupDirNext]_bdVars /\ [DiskSpaceNext]_dsVars
         /\ [BackupStatusNext]_bsVars /\ [ClientNext]_clientVars
<1>1. BackupsInit => RestoreInit /\ BackupDirInit /\ DiskSpaceInit /\ BackupStatusInit /\ ClientInit
  BY DEF BackupsInit
<1>2. ASSUME BackupsNext
      PROVE /\ RestoreNext \/ UNCHANGED restoreVars
            /\ BackupDirNext \/ UNCHANGED bdVars
            /\ DiskSpaceNext \/ UNCHANGED dsVars
            /\ BackupStatusNext \/ UNCHANGED bsVars
            /\ ClientNext \/ UNCHANGED clientVars
  BY <1>2 DEF BackupsNext, Only
<1>3. UNCHANGED backupVars => /\ UNCHANGED restoreVars /\ UNCHANGED bdVars /\ UNCHANGED dsVars
                              /\ UNCHANGED bsVars /\ UNCHANGED clientVars
  BY DEF backupVars
<1> QED BY <1>1, <1>2, <1>3

\* When in addition the status file is written and markers are removed, an accepted
\* restore can be found until its result, or a later one's, was acknowledged.
THEOREM RestoresSound == ASSUME Reliable PROVE BackupsSpec => []RestoreSound
<1>1. BackupsInit => Told /\ Found
  BY PartsInBackups, ToldFirst
<1>2. Told /\ Found /\ [BackupsNext]_backupVars => (Told /\ Found)'
  BY PartsInBackups, ToldKept, FoundKept, Reliable
<1>3. Told /\ Found => RestoreSound
  BY ToldTries DEF Told, Found, RestoreSound
<1> QED BY <1>1, <1>2, <1>3, PTL DEF BackupsSpec

\* Whatever pins, deletes, damage and crashes happen beside the passes, and whatever they
\* fail to list, verify or remove, retention leaves every pool its backups that count as
\* good, and after a pass that passed none over no more than its budget; no sweep takes a
\* file that is being written; writers together leave the margin of a volume that had it;
\* and saves that overtake each other leave the newest status in the file of its directory,
\* unless one failed there or the status in memory was mixed from two directories.
THEOREM BackupsStayKept == ASSUME Volume >= FloorSpace PROVE BackupsSpec => []BackupsKept
<1>1. BackupsInit => DirInv /\ SpaceInv /\ StatusInv
  BY PartsInBackups, DirFirst, SpaceFirst, StatusFirst
<1>2. DirInv /\ [BackupsNext]_backupVars => DirInv'
  BY PartsInBackups, DirKept, DirRests
<1>3. SpaceInv /\ [BackupsNext]_backupVars => SpaceInv'
  BY PartsInBackups, SpaceKept, SpaceRests
<1>4. StatusInv /\ [BackupsNext]_backupVars => StatusInv'
  BY PartsInBackups, StatusKept
<1>5. DirInv /\ SpaceInv /\ StatusInv => BackupsKept
  BY DirShown, SpaceShown, StatusShown DEF BackupsKept
<1> QED BY <1>1, <1>2, <1>3, <1>4, <1>5, PTL DEF BackupsSpec

\* Wherever a command of the client is interrupted, and whatever the server and the
\* connection do, it replaces no file of others unless told to, leaves no half of a
\* backup under the output name, and what it tells is what the server did, but for a page
\* of a proxy that it takes for an accepted upload.
THEOREM ClientStaysSound == ASSUME ~OthersReplace PROVE BackupsSpec => []ClientSound
<1>1. BackupsInit => ClientInv
  BY PartsInBackups, ClientFirst
<1>2. ClientInv /\ [BackupsNext]_backupVars => ClientInv'
  BY PartsInBackups, ClientKept
<1>3. ClientInv => ClientSound
  BY ClientShown DEF ClientSound
<1> QED BY <1>1, <1>2, <1>3, PTL DEF BackupsSpec

LEMMA ArchivesInBackups ==
    /\ BackupsInit => ArchiveInit
    /\ [BackupsNext]_backupVars => DecompressNext \/ VerifyNext \/ UNCHANGED archiveVars
<1>1. BackupsNext => DecompressNext \/ VerifyNext \/ UNCHANGED archiveVars
  BY DEF BackupsNext, Only
<1>2. UNCHANGED backupVars => UNCHANGED archiveVars
  BY DEF backupVars
<1> QED BY <1>1, <1>2 DEF BackupsInit

\* DecompressStream and the memory of verifications: whatever is replaced, edited in
\* place or rots while a file is read, a decompression that succeeds wrote every member
\* of the archive it opened and none that is damaged, one that fails leaves no file or
\* says so, and the list calls no file good that was changed after it was verified, but
\* for one that rotted on the disk since, or that took the name of a backup before
\* noteVerified looked.
THEOREM ArchivesStaySound == BackupsSpec => []ArchivesSound
<1>1. BackupsInit => ArchiveInv
  BY ArchivesInBackups, ArchiveFirst
<1>2. ArchiveInv /\ [BackupsNext]_backupVars => ArchiveInv'
  BY ArchivesInBackups, ArchiveKept
<1>3. ArchiveInv => ArchivesSound
  BY ArchiveShown DEF ArchivesSound
<1> QED BY <1>1, <1>2, <1>3, PTL DEF BackupsSpec
=============================================================================
