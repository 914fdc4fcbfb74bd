----------------------------- MODULE FleetProofs -----------------------------
(***************************************************************************)
(* Proofs about the fleet: the loads of a node and the books of its        *)
(* models, the model jobs, the agent's service, the scoring walk, replica  *)
(* roles and sessions, and the prefix table, for any nodes, models, sizes  *)
(* and number of actors.                                                   *)
(*                                                                         *)
(* The parts share no state, so each has an invariant of its own (WarmInv, *)
(* BookInv, AllJobsInv, ServiceInv, ScoreInv, RouteInv, PrefixInv), which  *)
(* the composition only carries along (FleetInv).  Two facts about data    *)
(* stand behind them: sums over finite sets, by a smallest counterexample, *)
(* for what fits a node; and what a walk of unions keeps, by the theorems  *)
(* of folds, for the components of replica declarations.                   *)
(***************************************************************************)
EXTENDS MCFleet, FiniteSetTheorems, WellFoundedInduction, SequenceTheorems, TLAPS

-----------------------------------------------------------------------------
(* Sums over finite sets. *)

\* A family of subsets of a finite set has a smallest member.
LEMMA SmallestSet ==
    ASSUME NEW M, IsFiniteSet(M), NEW F, F \subseteq SUBSET M, F # {}
    PROVE \E X \in F : \A Y \in F : Y \subseteq X => Y = X
<1>1. IsWellFoundedOn(StrictSubsetOrdering(M), SUBSET M)
    BY FS_FiniteSubsetsOfFinite, FS_StrictSubsetOrderingWellFounded
<1>2. PICK X \in F : \A Y \in F : ~(<<Y, X>> \in StrictSubsetOrdering(M))
    BY <1>1, WFMin
<1>3. ASSUME NEW Y \in F, Y \subseteq X, Y # X PROVE FALSE
  <2>1. <<Y, X>> \in (SUBSET M) \X (SUBSET M)
      OBVIOUS
  <2>2. <<Y, X>> \in StrictSubsetOrdering(M)
      BY <1>3, <2>1 DEF StrictSubsetOrdering
  <2> QED
      BY <1>2, <2>2
<1> QED
    BY <1>3

\* What a set weighs, and the same as a number of units.
Total(f, S) == MapThenSumSet(LAMBDA m : f[m], S)
UnitsOf(f, S) == {p \in S \X Nat : 1 <= p[2] /\ p[2] <= f[p[1]]}

LEMMA UnitsAdd ==
    ASSUME NEW M, NEW f \in [M -> Nat], NEW S \in SUBSET M, NEW x \in S,
           IsFiniteSet(UnitsOf(f, S \ {x}))
    PROVE /\ IsFiniteSet(UnitsOf(f, S))
          /\ Cardinality(UnitsOf(f, S)) = f[x] + Cardinality(UnitsOf(f, S \ {x}))
<1> DEFINE one == {x} \X (1 .. f[x])
           rest == UnitsOf(f, S \ {x})
<1>1. f[x] \in Nat
    OBVIOUS
<1>2. IsFiniteSet(one) /\ Cardinality(one) = f[x]
  <2>1. IsFiniteSet({x}) /\ Cardinality({x}) = 1
      BY FS_Singleton
  <2>2. IsFiniteSet(1 .. f[x]) /\ Cardinality(1 .. f[x]) = f[x]
      BY <1>1, FS_Interval
  <2>3. IsFiniteSet(one) /\ Cardinality(one) = 1 * f[x]
      BY <2>1, <2>2, FS_Product
  <2> QED
      BY <1>1, <2>3
<1>3. UnitsOf(f, S) = one \cup rest
    BY <1>1 DEF UnitsOf
<1>4. one \cap rest = {}
    BY DEF UnitsOf
<1>5. Cardinality({}) = 0 /\ IsFiniteSet(rest)
    BY FS_EmptySet
<1> HIDE DEF one, rest
<1>6. /\ IsFiniteSet(one \cup rest)
      /\ Cardinality(one \cup rest) = Cardinality(one) + Cardinality(rest) - 0
  <2>1. /\ IsFiniteSet(one \cup rest)
        /\ Cardinality(one \cup rest)
             = Cardinality(one) + Cardinality(rest) - Cardinality(one \cap rest)
      BY <1>2, <1>5, FS_Union
  <2>2. Cardinality(one \cap rest) = 0
      BY <1>4, <1>5
  <2> QED
      BY <2>1, <2>2
<1>7. Cardinality(rest) \in Nat
    BY FS_CardinalityType DEF rest
<1> QED
    BY <1>1, <1>2, <1>3, <1>6, <1>7 DEF rest

LEMMA UnitsFinite ==
    ASSUME NEW M, IsFiniteSet(M), NEW f \in [M -> Nat], NEW S \in SUBSET M
    PROVE IsFiniteSet(UnitsOf(f, S))
<1> DEFINE Bad == {T \in SUBSET M : ~IsFiniteSet(UnitsOf(f, T))}
<1>1. SUFFICES ASSUME Bad # {} PROVE FALSE
    OBVIOUS
<1>2. PICK X \in Bad : \A Y \in Bad : Y \subseteq X => Y = X
  <2>1. Bad \subseteq SUBSET M
      OBVIOUS
  <2> HIDE DEF Bad
  <2> QED
      BY <1>1, <2>1, SmallestSet
<1>3. CASE X = {}
  <2>1. UnitsOf(f, {}) = {}
      BY DEF UnitsOf
  <2> QED
      BY <1>2, <1>3, <2>1, FS_EmptySet
<1>4. CASE X # {}
  <2>1. PICK x \in X : TRUE
      BY <1>4
  <2>2. X \ {x} \notin Bad
      BY <1>2, <2>1
  <2>3. IsFiniteSet(UnitsOf(f, X \ {x}))
      BY <2>2
  <2> QED
      BY <2>3, UnitsAdd
<1> QED
    BY <1>3, <1>4

LEMMA TotalIsUnits ==
    ASSUME NEW M, IsFiniteSet(M), NEW f \in [M -> Nat], NEW S \in SUBSET M
    PROVE Total(f, S) = Cardinality(UnitsOf(f, S))
<1> DEFINE pick(s) == CHOOSE x \in s : TRUE
           Grow(h) == [s \in SUBSET S |-> IF s = {} THEN 0
                                          ELSE f[CHOOSE x \in s : TRUE]
                                               + h[s \ {CHOOSE x \in s : TRUE}]]
           w == [s \in SUBSET S |-> Cardinality(UnitsOf(f, s))]
           g == CHOOSE iter : iter = Grow(iter)
<1>1. Total(f, S) = g[S]
    BY DEF Total, MapThenSumSet, MapThenFoldSet
<1>2. ASSUME NEW s \in SUBSET S, s # {}
      PROVE w[s] = f[pick(s)] + w[s \ {pick(s)}]
  <2>1. pick(s) \in s /\ s \in SUBSET M /\ s \ {pick(s)} \in SUBSET M
      BY <1>2
  <2>2. IsFiniteSet(UnitsOf(f, s \ {pick(s)}))
      BY <2>1, UnitsFinite
  <2> HIDE DEF pick
  <2>3. Cardinality(UnitsOf(f, s)) = f[pick(s)] + Cardinality(UnitsOf(f, s \ {pick(s)}))
      BY <2>1, <2>2, UnitsAdd
  <2> QED
      BY <2>1, <2>3
<1>3. w[{}] = 0
  <2>1. UnitsOf(f, {}) = {}
      BY DEF UnitsOf
  <2> QED
      BY <2>1, FS_EmptySet
<1>4. w = Grow(w)
  <2>1. DOMAIN Grow(w) = SUBSET S /\ DOMAIN w = SUBSET S
      OBVIOUS
  <2>2. \A s \in SUBSET S : w[s] = Grow(w)[s]
      BY <1>2, <1>3
  <2>3. w = [s \in SUBSET S |-> w[s]] /\ Grow(w) = [s \in SUBSET S |-> Grow(w)[s]]
      OBVIOUS
  <2> HIDE DEF w, Grow
  <2> QED
      BY <2>2, <2>3
<1> HIDE DEF w
<1>5. g = Grow(g)
    BY <1>4
<1> HIDE DEF g
<1> DEFINE Bad == {s \in SUBSET S : g[s] # w[s]}
<1>6. Bad = {}
  <2>1. SUFFICES ASSUME Bad # {} PROVE FALSE
      OBVIOUS
  <2>2. IsFiniteSet(S)
      BY FS_Subset
  <2>3. PICK X \in Bad : \A Y \in Bad : Y \subseteq X => Y = X
    <3>1. Bad \subseteq SUBSET S
        OBVIOUS
    <3> HIDE DEF Bad
    <3> QED
        BY <2>1, <2>2, <3>1, SmallestSet
  <2>4. g[{}] = 0
      BY <1>5
  <2>5. X # {} /\ pick(X) \in X
      BY <1>3, <2>3, <2>4
  <2>6. g[X] = f[pick(X)] + g[X \ {pick(X)}]
      BY <1>5, <2>3, <2>5
  <2>7. w[X] = f[pick(X)] + w[X \ {pick(X)}]
      BY <1>2, <2>3, <2>5
  <2> HIDE DEF pick
  <2>8. X \ {pick(X)} \in SUBSET S /\ X \ {pick(X)} \notin Bad
      BY <2>3, <2>5
  <2>9. g[X \ {pick(X)}] = w[X \ {pick(X)}]
      BY <2>8
  <2> QED
      BY <2>3, <2>6, <2>7, <2>9
<1>7. g[S] = w[S]
    BY <1>6
<1> QED
    BY <1>1, <1>7 DEF w

\* Taking an element away takes its share.
LEMMA TotalSplit ==
    ASSUME NEW M, IsFiniteSet(M), NEW f \in [M -> Nat], NEW S \in SUBSET M
    PROVE /\ Total(f, S) \in Nat /\ Total(f, {}) = 0
          /\ \A x \in S : Total(f, S) = f[x] + Total(f, S \ {x})
<1>1. Total(f, S) \in Nat
    BY TotalIsUnits, UnitsFinite, FS_CardinalityType
<1>2. Total(f, {}) = 0
  <2>1. UnitsOf(f, {}) = {}
      BY DEF UnitsOf
  <2>2. Total(f, {}) = Cardinality(UnitsOf(f, {}))
      BY TotalIsUnits
  <2> QED
      BY <2>1, <2>2, FS_EmptySet
<1>3. ASSUME NEW x \in S PROVE Total(f, S) = f[x] + Total(f, S \ {x})
    BY TotalIsUnits, UnitsFinite, UnitsAdd
<1> QED
    BY <1>1, <1>2, <1>3

\* More elements, each as heavy or heavier, weigh no less.
LEMMA TotalGrows ==
    ASSUME NEW M, IsFiniteSet(M), NEW f \in [M -> Nat], NEW h \in [M -> Nat],
           NEW S \in SUBSET M, NEW T \in SUBSET M, S \subseteq T,
           \A x \in S : f[x] <= h[x]
    PROVE Total(f, S) <= Total(h, T)
<1>1. UnitsOf(f, S) \subseteq UnitsOf(h, T)
  <2>1. SUFFICES ASSUME NEW p \in UnitsOf(f, S) PROVE p \in UnitsOf(h, T)
      OBVIOUS
  <2>2. p \in S \X Nat /\ 1 <= p[2] /\ p[2] <= f[p[1]]
      BY DEF UnitsOf
  <2>3. p[1] \in S /\ p[2] \in Nat /\ f[p[1]] \in Nat /\ h[p[1]] \in Nat /\ f[p[1]] <= h[p[1]]
      BY <2>2
  <2>4. p[2] <= h[p[1]]
      BY <2>2, <2>3
  <2> QED
      BY <2>2, <2>4 DEF UnitsOf
<1>2. IsFiniteSet(UnitsOf(h, T))
    BY UnitsFinite
<1>3. Cardinality(UnitsOf(f, S)) <= Cardinality(UnitsOf(h, T))
    BY <1>1, <1>2, FS_Subset
<1> QED
    BY <1>3, TotalIsUnits

\* Two sets together weigh no more than both.
LEMMA TotalJoins ==
    ASSUME NEW M, IsFiniteSet(M), NEW f \in [M -> Nat], NEW S \in SUBSET M, NEW T \in SUBSET M
    PROVE Total(f, S \cup T) <= Total(f, S) + Total(f, T)
<1> DEFINE s == UnitsOf(f, S)
           t == UnitsOf(f, T)
<1>1. UnitsOf(f, S \cup T) = s \cup t
    BY DEF UnitsOf
<1>2. IsFiniteSet(s) /\ IsFiniteSet(t)
    BY UnitsFinite
<1> HIDE DEF s, t
<1>3. Cardinality(s \cup t) = Cardinality(s) + Cardinality(t) - Cardinality(s \cap t)
    BY <1>2, FS_Union
<1>4. Cardinality(s) \in Nat /\ Cardinality(t) \in Nat /\ Cardinality(s \cap t) \in Nat
    BY <1>2, FS_CardinalityType, FS_Intersection
<1>5. Cardinality(s \cup t) <= Cardinality(s) + Cardinality(t)
    BY <1>3, <1>4
<1>6. /\ Total(f, S \cup T) = Cardinality(s \cup t)
      /\ Total(f, S) = Cardinality(s) /\ Total(f, T) = Cardinality(t)
    BY <1>1, TotalIsUnits DEF s, t
<1> QED
    BY <1>5, <1>6

-----------------------------------------------------------------------------
(* Loading ahead of demand: the invariant. *)

\* A loader past the lock, and one that evicts.
HasLock(pc) == pc \notin {"idle", "wait"}
InPass(pc) == pc \in {"pick", "unload", "settle"}
LoaderRecord ==
    [pc : {"idle", "wait", "look", "reserve", "claim", "pick", "unload", "settle", "ping"},
     model : WarmModels \cup {NoModel}, seen : SUBSET WarmModels, busy : SUBSET WarmModels,
     need : Nat, victim : WarmModels \cup {NoModel}, evicted : {0, 1}, timely : BOOLEAN,
     late : BOOLEAN]

WarmSets ==
    /\ gpu \subseteq WarmModels /\ polled \subseteq WarmModels
    /\ serving \subseteq WarmModels /\ suppressed \subseteq WarmModels
    /\ nodeLock \subseteq Loaders
    /\ cooling \in BOOLEAN /\ disturbed \in BOOLEAN

\* Past the lock there is one; what it is about to unload serves only late requests,
\* and it loads what an operator unloaded only when it had asked before.
LoaderGood(l) ==
    /\ HasLock(loader[l].pc) => nodeLock = {l}
    /\ loader[l].pc # "idle" => loader[l].model \in WarmModels
    /\ loader[l].pc = "unload" => loader[l].victim \in WarmModels
    /\ loader[l].pc = "unload" /\ loader[l].victim \in serving => loader[l].late
    /\ loader[l].pc = "wait" /\ loader[l].model \in suppressed => loader[l].late

\* The passes of a cooldown: one that has yet to unload is the first.
PassGood(l) ==
    /\ ~InPass(loader[l].pc) => loader[l].evicted = 0 /\ ~loader[l].timely
    /\ InPass(loader[l].pc) /\ loader[l].evicted = 0 => rushes = 0
    /\ loader[l].timely => cooling
RushesGood == rushes \in {0, 1} /\ (rushes = 1 => cooling)

\* What a load still needs covers what its snapshot does not show.
Unseen(l) == gpu \ ((IF loader[l].pc = "claim" THEN polled ELSE loader[l].seen)
                      \cup {loader[l].model})
CoversRest(l) ==
    /\ loader[l].pc = "reserve" => polled \subseteq loader[l].seen
    /\ loader[l].pc = "claim" \/ InPass(loader[l].pc) =>
          SizeOf[loader[l].model] + Bytes(Unseen(l)) <= loader[l].need
FitKept == disturbed \/ (~Exposed /\ LoadsFit /\ \A l \in Loaders : CoversRest(l))

WarmBase ==
    /\ WarmSets /\ RushesGood
    /\ reserved \in [WarmModels -> Nat]
    /\ loader \in [Loaders -> LoaderRecord]
    /\ \A l \in Loaders : LoaderGood(l) /\ PassGood(l)
WarmInv == WarmBase /\ FitKept

-----------------------------------------------------------------------------
(* What models weigh. *)

LEMMA SizesTyped == IsFiniteSet(WarmModels) /\ SizeOf \in [WarmModels -> Nat] /\ VRAMTotal \in Nat
BY WarmAssumption

LEMMA BytesKnown ==
    ASSUME NEW S \in SUBSET WarmModels
    PROVE /\ Bytes(S) \in Nat
          /\ \A x \in S : Bytes(S) = SizeOf[x] + Bytes(S \ {x})
          /\ \A T \in SUBSET S : Bytes(T) <= Bytes(S)
<1>1. \A T : Bytes(T) = Total(SizeOf, T)
    BY DEF Bytes, Total
<1>2. Total(SizeOf, S) \in Nat /\ \A x \in S : Total(SizeOf, S) = SizeOf[x] + Total(SizeOf, S \ {x})
    BY SizesTyped, TotalSplit
<1>3. ASSUME NEW T \in SUBSET S PROVE Total(SizeOf, T) <= Total(SizeOf, S)
  <2>1. \A x \in T : SizeOf[x] <= SizeOf[x]
      BY SizesTyped
  <2> QED
      BY <2>1, SizesTyped, TotalGrows
<1> QED
    BY <1>1, <1>2, <1>3

LEMMA BytesJoin ==
    ASSUME NEW S \in SUBSET WarmModels, NEW T \in SUBSET WarmModels
    PROVE Bytes(S \cup T) <= Bytes(S) + Bytes(T)
<1>1. \A U : Bytes(U) = Total(SizeOf, U)
    BY DEF Bytes, Total
<1> QED
    BY <1>1, SizesTyped, TotalJoins

LEMMA BytesAdded ==
    ASSUME NEW S \in SUBSET WarmModels, NEW m \in WarmModels
    PROVE Bytes(S \cup {m}) <= SizeOf[m] + Bytes(S)
<1>1. Bytes(S \cup {m}) = SizeOf[m] + Bytes((S \cup {m}) \ {m})
    BY BytesKnown
<1>2. Bytes((S \cup {m}) \ {m}) <= Bytes(S) /\ Bytes(S) \in Nat
      /\ Bytes((S \cup {m}) \ {m}) \in Nat
    BY BytesKnown
<1>3. SizeOf[m] \in Nat
    BY SizesTyped
<1> QED
    BY <1>1, <1>2, <1>3

\* Models each of which has its reservation fit in what is reserved.
LEMMA BytesReserved ==
    ASSUME reserved \in [WarmModels -> Nat], NEW T \in SUBSET WarmModels, NEW S \in SUBSET T,
           \A x \in S : SizeOf[x] <= reserved[x]
    PROVE Bytes(S) <= ReservedFor(T) /\ ReservedFor(T) \in Nat
<1>1. Bytes(S) = Total(SizeOf, S) /\ ReservedFor(T) = Total(reserved, T)
    BY DEF Bytes, ReservedFor, Total
<1>2. Total(SizeOf, S) <= Total(reserved, T)
    BY SizesTyped, TotalGrows
<1>3. Total(reserved, T) \in Nat
    BY SizesTyped, TotalSplit
<1> QED
    BY <1>1, <1>2, <1>3
-----------------------------------------------------------------------------
(* The lock, the passes and the late requests. *)

LEMMA WarmInitially == ASSUME WarmInit PROVE WarmInv
<1>1. Idle \in LoaderRecord
    BY DEF Idle, LoaderRecord
<1>2. loader \in [Loaders -> LoaderRecord] /\ reserved \in [WarmModels -> Nat]
    BY <1>1 DEF WarmInit
<1>3. \A l \in Loaders : LoaderGood(l) /\ PassGood(l)
    BY DEF WarmInit, LoaderGood, PassGood, HasLock, InPass, Idle
<1>4. WarmSets /\ RushesGood
  <2>1. gpu \subseteq WarmModels /\ polled = gpu
      BY DEF WarmInit
  <2>2. /\ serving = {} /\ suppressed = {} /\ nodeLock = {} /\ cooling = FALSE
        /\ disturbed = FALSE /\ rushes = 0
      BY DEF WarmInit
  <2>3. cooling \in BOOLEAN /\ disturbed \in BOOLEAN
      BY <2>2
  <2>4. RushesGood
      BY <2>2 DEF RushesGood
  <2>5. gpu \subseteq WarmModels /\ polled \subseteq WarmModels
        /\ serving \subseteq WarmModels /\ suppressed \subseteq WarmModels
        /\ nodeLock \subseteq Loaders
      BY <2>1, <2>2
  <2> QED
      BY <2>3, <2>4, <2>5 DEF WarmSets
<1>5. Loading = {} /\ \A l \in Loaders : loader[l].pc = "idle"
    BY DEF WarmInit, Loading, Idle
<1>6. FitKept
  <2>1. ~Exposed
      BY <1>5 DEF WarmInit, Exposed
  <2>2. LoadsFit
    <3>1. gpu \cup Loading = gpu
        BY <1>5
    <3> QED
        BY <3>1 DEF WarmInit, LoadsFit
  <2>3. \A l \in Loaders : CoversRest(l)
      BY <1>5 DEF CoversRest, InPass
  <2> QED
      BY <2>1, <2>2, <2>3 DEF FitKept
<1> QED
    BY <1>2, <1>3, <1>4, <1>6 DEF WarmInv, WarmBase

LEMMA OthersWait ==
    ASSUME WarmBase, NEW l \in Loaders, nodeLock \in {{}, {l}}
    PROVE \A k \in Loaders \ {l} : ~HasLock(loader[k].pc)
BY DEF WarmBase, LoaderGood

\* A step of the loader that has the lock, takes it or gives it back.
LEMMA LoaderMoves ==
    ASSUME WarmBase, NEW l \in Loaders, NEW r \in LoaderRecord,
           loader' = [loader EXCEPT ![l] = r], nodeLock \in {{}, {l}}, nodeLock' \in {{}, {l}},
           HasLock(r.pc) => nodeLock' = {l},
           WarmSets', RushesGood', reserved' \in [WarmModels -> Nat],
           serving' = serving, suppressed' \subseteq suppressed,
           r.pc # "idle" => r.model \in WarmModels,
           r.pc = "unload" => r.victim \in WarmModels,
           r.pc = "unload" /\ r.victim \in serving => r.late,
           r.pc = "wait" /\ r.model \in suppressed' => r.late,
           ~InPass(r.pc) => r.evicted = 0 /\ ~r.timely,
           InPass(r.pc) /\ r.evicted = 0 => rushes' = 0,
           r.timely => cooling'
    PROVE WarmBase'
<1>1. loader' \in [Loaders -> LoaderRecord] /\ loader'[l] = r
    BY DEF WarmBase
<1>2. LoaderGood(l)' /\ PassGood(l)'
    BY <1>1 DEF LoaderGood, PassGood
<1>3. ASSUME NEW k \in Loaders \ {l} PROVE LoaderGood(k)' /\ PassGood(k)'
  <2>1. /\ loader'[k] = loader[k] /\ ~HasLock(loader[k].pc)
        /\ LoaderGood(k) /\ PassGood(k)
      BY OthersWait DEF WarmBase
  <2> QED
      BY <2>1 DEF LoaderGood, PassGood, HasLock, InPass
<1> QED
    BY <1>1, <1>2, <1>3 DEF WarmBase

\* A loader that asks.
LEMMA BeginMoves ==
    ASSUME WarmBase, NEW l \in Loaders, NEW m \in WarmModels, loader[l].pc = "idle", Begin(l, m),
           WarmSets', UNCHANGED <<reserved, serving, nodeLock, cooling, rushes>>,
           suppressed' \subseteq suppressed, m \notin suppressed'
    PROVE WarmBase'
<1> DEFINE r == [Idle EXCEPT !.pc = "wait", !.model = m]
<1>1. /\ r \in LoaderRecord /\ r.pc = "wait" /\ r.model = m /\ r.evicted = 0 /\ ~r.timely
    BY DEF Idle, LoaderRecord
<1>2. loader' = [loader EXCEPT ![l] = r]
    BY DEF Begin
<1> HIDE DEF r
<1>3. loader' \in [Loaders -> LoaderRecord] /\ loader'[l] = r
    BY <1>1, <1>2 DEF WarmBase
<1>4. LoaderGood(l)' /\ PassGood(l)'
    BY <1>1, <1>3 DEF LoaderGood, PassGood, HasLock, InPass
<1>5. ASSUME NEW k \in Loaders \ {l} PROVE LoaderGood(k)' /\ PassGood(k)'
    BY <1>2 DEF WarmBase, LoaderGood, PassGood
<1> QED
    BY <1>3, <1>4, <1>5 DEF WarmBase, RushesGood
LEMMA LoadersKnown ==
    ASSUME WarmBase, NEW l \in Loaders
    PROVE /\ loader[l] \in LoaderRecord /\ LoaderGood(l) /\ PassGood(l)
          /\ HasLock(loader[l].pc) => nodeLock = {l} /\ loader[l].model \in WarmModels
BY DEF WarmBase, LoaderGood, HasLock

LEMMA IdleTyped ==
    /\ Idle \in LoaderRecord /\ Idle.pc = "idle" /\ Idle.evicted = 0 /\ ~Idle.timely
BY DEF Idle, LoaderRecord

LEMMA PingingTyped ==
    ASSUME WarmBase, NEW l \in Loaders, loader[l].model \in WarmModels, NEW r, r = Pinging(l)
    PROVE /\ r \in LoaderRecord /\ r.pc = "ping" /\ r.model = loader[l].model
          /\ r.evicted = 0 /\ ~r.timely
BY DEF Pinging, Idle, LoaderRecord

LEMMA WatchTyped ==
    ASSUME WarmSets, Watch
    PROVE disturbed' \in BOOLEAN
BY DEF WarmSets, Watch

LEMMA FailMoves ==
    ASSUME WarmBase, NEW l \in Loaders, HasLock(loader[l].pc), Fail(l), Watch,
           UNCHANGED <<polled, serving, suppressed>>, gpu' = gpu,
           cooling' \in BOOLEAN, RushesGood'
    PROVE WarmBase'
<1>1. nodeLock = {l} /\ loader[l].model \in WarmModels
    BY LoadersKnown
<1>2. /\ loader' = [loader EXCEPT ![l] = Idle] /\ nodeLock' = {}
      /\ reserved' = [reserved EXCEPT ![loader[l].model] = 0]
    BY <1>1 DEF Fail, Done
<1>3. reserved' \in [WarmModels -> Nat] /\ WarmSets'
    BY <1>1, <1>2, WatchTyped DEF WarmBase, WarmSets
<1> QED
    BY <1>1, <1>2, <1>3, IdleTyped, LoaderMoves DEF HasLock, InPass

LEMMA LockMoves ==
    ASSUME WarmBase, NEW l \in Loaders, LockNodeLoad(l), Watch
    PROVE WarmBase'
<1> DEFINE r == [loader[l] EXCEPT !.pc = "look", !.late = FALSE]
<1>1. loader[l] \in LoaderRecord /\ LoaderGood(l) /\ PassGood(l) /\ loader[l].pc = "wait"
    BY LoadersKnown DEF LockNodeLoad
<1>2. /\ r \in LoaderRecord /\ r.pc = "look" /\ r.model \in WarmModels
      /\ r.evicted = 0 /\ ~r.timely
    BY <1>1 DEF LoaderRecord, LoaderGood, PassGood, InPass
<1>3. /\ loader' = [loader EXCEPT ![l] = r] /\ nodeLock = {} /\ nodeLock' = {l}
      /\ UNCHANGED <<gpu, polled, reserved, serving, suppressed, cooling, rushes>>
    BY DEF LockNodeLoad
<1> HIDE DEF r
<1>4. WarmSets' /\ RushesGood' /\ reserved' \in [WarmModels -> Nat]
    BY <1>3, WatchTyped DEF WarmBase, WarmSets, RushesGood
<1> QED
    BY <1>2, <1>3, <1>4, LoaderMoves DEF InPass

LEMMA LookMoves ==
    ASSUME WarmBase, NEW l \in Loaders, LookAtNode(l), Watch
    PROVE WarmBase'
<1>1. /\ loader[l] \in LoaderRecord /\ LoaderGood(l) /\ PassGood(l) /\ loader[l].pc = "look"
      /\ HasLock(loader[l].pc) /\ nodeLock = {l} /\ loader[l].model \in WarmModels
    BY LoadersKnown DEF LookAtNode, HasLock
<1>2. UNCHANGED <<gpu, polled, serving, suppressed, cooling, rushes>>
    BY DEF LookAtNode
<1>3. CASE Fail(l)
    BY <1>1, <1>2, <1>3, FailMoves DEF WarmBase, WarmSets, RushesGood
<1>4. ASSUME NEW r, r \in {[loader[l] EXCEPT !.pc = "ping"],
                           [loader[l] EXCEPT !.pc = "reserve", !.seen = polled]},
             loader' = [loader EXCEPT ![l] = r], nodeLock' = nodeLock,
             reserved' \in [WarmModels -> Nat]
      PROVE WarmBase'
  <2>1. loader[l].evicted = 0 /\ ~loader[l].timely /\ polled \subseteq WarmModels
      BY <1>1 DEF PassGood, InPass, WarmBase, WarmSets
  <2>2. /\ r \in LoaderRecord /\ r.pc \in {"ping", "reserve"} /\ r.model = loader[l].model
        /\ r.evicted = loader[l].evicted /\ r.timely = loader[l].timely
    <3>1. CASE r = [loader[l] EXCEPT !.pc = "ping"]
        BY <1>1, <3>1 DEF LoaderRecord
    <3>2. CASE r = [loader[l] EXCEPT !.pc = "reserve", !.seen = polled]
        BY <1>1, <2>1, <3>2 DEF LoaderRecord
    <3> QED
        BY <1>4, <3>1, <3>2
  <2>3. WarmSets' /\ RushesGood'
      BY <1>2, <1>4, WatchTyped DEF WarmBase, WarmSets, RushesGood
  <2> QED
      BY <1>1, <1>2, <1>4, <2>1, <2>2, <2>3, LoaderMoves DEF InPass
<1>5. \/ Fail(l)
      \/ /\ loader' = [loader EXCEPT ![l] = [@ EXCEPT !.pc = "ping"]]
         /\ reserved' = [reserved EXCEPT ![loader[l].model] = 0] /\ nodeLock' = nodeLock
      \/ /\ loader' = [loader EXCEPT ![l] = [@ EXCEPT !.pc = "reserve", !.seen = polled]]
         /\ reserved' = reserved /\ nodeLock' = nodeLock
    BY DEF LookAtNode
<1>6. [reserved EXCEPT ![loader[l].model] = 0] \in [WarmModels -> Nat]
      /\ reserved \in [WarmModels -> Nat] /\ loader \in [Loaders -> LoaderRecord]
    BY <1>1 DEF WarmBase
<1> QED
    BY <1>3, <1>4, <1>5, <1>6

LEMMA ReserveMoves ==
    ASSUME WarmBase, NEW l \in Loaders, ReserveWarmBytes(l), Watch
    PROVE WarmBase'
<1>1. /\ loader[l] \in LoaderRecord /\ LoaderGood(l) /\ PassGood(l) /\ loader[l].pc = "reserve"
      /\ HasLock(loader[l].pc) /\ nodeLock = {l} /\ loader[l].model \in WarmModels
    BY LoadersKnown DEF ReserveWarmBytes, ReserveOf, HasLock
<1>2. UNCHANGED <<gpu, polled, serving, suppressed, cooling, rushes>>
    BY DEF ReserveWarmBytes, ReserveOf
<1>3. CASE Fail(l)
    BY <1>1, <1>2, <1>3, FailMoves DEF WarmBase, WarmSets, RushesGood
<1>4. CASE ~Fail(l)
  <2> DEFINE others == ReservedFor(WarmModels \ {loader[l].model})
             m == loader[l].model
             q == [loader[l] EXCEPT !.pc = "claim", !.need = SizeOf[m] + others]
             r == IF Bytes(loader[l].seen) + others + SizeOf[m] <= VRAMTotal
                  THEN Pinging(l) ELSE q
  <2>1. others \in Nat /\ SizeOf[m] \in Nat
    <3>1. Bytes({}) <= others /\ others \in Nat
        BY BytesReserved DEF WarmBase
    <3> QED
        BY <1>1, <3>1, SizesTyped
  <2> HIDE DEF others
  <2>2. q \in LoaderRecord /\ q.pc = "claim" /\ q.model \in WarmModels /\ q.evicted = 0 /\ ~q.timely
    <3>1. q \in LoaderRecord
      <4>1. SizeOf[m] + others \in Nat
          BY <2>1
      <4> QED
          BY <1>1, <4>1 DEF LoaderRecord
    <3>2. q.pc = "claim" /\ q.model = m /\ q.evicted = loader[l].evicted
        BY <1>1 DEF LoaderRecord
    <3>3. q.timely = loader[l].timely
        BY <1>1 DEF LoaderRecord
    <3> HIDE DEF q
    <3> QED
        BY <1>1, <3>1, <3>2, <3>3 DEF PassGood, InPass
  <2>3. r \in LoaderRecord /\ r.pc \in {"claim", "ping"} /\ r.model \in WarmModels
        /\ r.evicted = 0 /\ ~r.timely
      BY <1>1, <2>2, PingingTyped
  <2>4. /\ reserved' = [reserved EXCEPT ![m] = SizeOf[m]] /\ nodeLock' = nodeLock
        /\ loader' = [loader EXCEPT ![l] = r]
    <3>1. /\ reserved' = [reserved EXCEPT ![m] = SizeOf[m]] /\ nodeLock' = nodeLock
          /\ loader' = [loader EXCEPT
                ![l] = IF Bytes(@.seen) + others + SizeOf[m] <= VRAMTotal
                       THEN Pinging(l)
                       ELSE [@ EXCEPT !.pc = "claim", !.need = SizeOf[m] + others]]
        BY <1>4 DEF ReserveWarmBytes, ReserveOf, others
    <3> QED
        BY <3>1 DEF WarmBase
  <2> HIDE DEF r
  <2>5. reserved' \in [WarmModels -> Nat] /\ WarmSets' /\ RushesGood'
      BY <1>1, <1>2, <2>1, <2>4, WatchTyped DEF WarmBase, WarmSets, RushesGood
  <2> QED
      BY <1>1, <1>2, <2>3, <2>4, <2>5, LoaderMoves DEF InPass
<1> QED
    BY <1>3, <1>4

LEMMA ClaimMoves ==
    ASSUME WarmBase, NEW l \in Loaders, ClaimEvictCooldown(l), Watch
    PROVE WarmBase'
<1>1. /\ loader[l] \in LoaderRecord /\ LoaderGood(l) /\ PassGood(l) /\ loader[l].pc = "claim"
      /\ HasLock(loader[l].pc) /\ nodeLock = {l} /\ loader[l].model \in WarmModels
    BY LoadersKnown DEF ClaimEvictCooldown, HasLock
<1>2. UNCHANGED <<gpu, polled, serving, suppressed, rushes>>
    BY DEF ClaimEvictCooldown
<1>3. CASE Fail(l) /\ cooling' = cooling
    BY <1>1, <1>2, <1>3, FailMoves DEF WarmBase, WarmSets, RushesGood
<1>4. CASE /\ ~cooling /\ cooling' = TRUE /\ UNCHANGED <<reserved, nodeLock>>
           /\ loader' = [loader EXCEPT ![l] = [@ EXCEPT !.pc = "pick", !.seen = polled,
                                                    !.busy = serving, !.timely = TRUE]]
  <2> DEFINE r == [loader[l] EXCEPT !.pc = "pick", !.seen = polled, !.busy = serving,
                                    !.timely = TRUE]
  <2>1. /\ r \in LoaderRecord /\ r.pc = "pick" /\ r.model \in WarmModels
      BY <1>1 DEF LoaderRecord, WarmBase, WarmSets
  <2>2. rushes = 0
      BY <1>4 DEF WarmBase, RushesGood
  <2>3. loader' = [loader EXCEPT ![l] = r]
      BY <1>4 DEF WarmBase
  <2> HIDE DEF r
  <2>4. WarmSets' /\ RushesGood' /\ reserved' \in [WarmModels -> Nat]
      BY <1>2, <1>4, <2>2, WatchTyped DEF WarmBase, WarmSets, RushesGood
  <2> QED
      BY <1>1, <1>2, <1>4, <2>1, <2>2, <2>3, <2>4, LoaderMoves DEF InPass
<1> QED
    BY <1>3, <1>4 DEF ClaimEvictCooldown

LEMMA PickMoves ==
    ASSUME WarmBase, NEW l \in Loaders, NEW v \in WarmModels, PickVictim(l, v), Watch
    PROVE WarmBase'
<1>1. /\ loader[l] \in LoaderRecord /\ LoaderGood(l) /\ PassGood(l) /\ loader[l].pc = "pick"
      /\ HasLock(loader[l].pc) /\ nodeLock = {l} /\ loader[l].model \in WarmModels
    BY LoadersKnown DEF PickVictim, HasLock
<1>2. UNCHANGED <<gpu, polled, reserved, serving, suppressed, nodeLock, cooling, rushes>>
    BY DEF PickVictim
<1>3. PICK r : /\ loader' = [loader EXCEPT ![l] = r]
               /\ \/ r = [loader[l] EXCEPT !.busy = @ \cup {v}]
                  \/ v \notin serving /\ r = [loader[l] EXCEPT !.pc = "unload", !.victim = v]
    BY DEF PickVictim, WarmBase
<1>4. /\ r \in LoaderRecord /\ r.pc \in {"pick", "unload"} /\ r.model \in WarmModels
      /\ r.timely = loader[l].timely /\ r.evicted = loader[l].evicted
      /\ r.pc = "unload" => r.victim = v /\ v \notin serving
  <2>1. CASE r = [loader[l] EXCEPT !.busy = @ \cup {v}]
      BY <1>1, <2>1 DEF LoaderRecord
  <2>2. CASE v \notin serving /\ r = [loader[l] EXCEPT !.pc = "unload", !.victim = v]
      BY <1>1, <2>2 DEF LoaderRecord
  <2> QED
      BY <1>3, <2>1, <2>2
<1>5. WarmSets' /\ RushesGood' /\ reserved' \in [WarmModels -> Nat]
    BY <1>2, WatchTyped DEF WarmBase, WarmSets, RushesGood
<1> QED
    BY <1>1, <1>2, <1>3, <1>4, <1>5, LoaderMoves DEF InPass, PassGood

LEMMA UnloadMoves ==
    ASSUME WarmBase, NEW l \in Loaders, Unload(l), Watch
    PROVE WarmBase'
<1>1. /\ loader[l] \in LoaderRecord /\ LoaderGood(l) /\ PassGood(l) /\ loader[l].pc = "unload"
      /\ HasLock(loader[l].pc) /\ nodeLock = {l} /\ loader[l].model \in WarmModels
    BY LoadersKnown DEF Unload, HasLock
<1>2. UNCHANGED <<polled, reserved, serving, suppressed, nodeLock, cooling>>
    BY DEF Unload
<1> DEFINE lost == /\ gpu' = gpu \ {loader[l].victim}
                   /\ rushes' = rushes + (IF loader[l].evicted = 0 /\ loader[l].timely
                                          THEN 1 ELSE 0)
           held == UNCHANGED <<gpu, rushes>>
<1>3. PICK r : /\ loader' = [loader EXCEPT ![l] = r]
               /\ \/ /\ lost
                     /\ r = [loader[l] EXCEPT
                            !.pc = "pick", !.seen = loader[l].seen \ {loader[l].victim},
                            !.victim = NoModel, !.evicted = 1, !.late = FALSE]
                  \/ /\ held
                     /\ r = [loader[l] EXCEPT !.pc = "settle", !.victim = NoModel,
                                              !.late = FALSE]
  <2> HIDE DEF lost, held
  <2>1. CASE /\ lost
             /\ loader' = [loader EXCEPT ![l] = [@ EXCEPT
                            !.pc = "pick", !.seen = loader[l].seen \ {loader[l].victim},
                            !.victim = NoModel, !.evicted = 1, !.late = FALSE]]
      BY <2>1
  <2>2. CASE /\ held
             /\ loader' = [loader EXCEPT ![l] = [@ EXCEPT !.pc = "settle", !.victim = NoModel,
                                                    !.late = FALSE]]
      BY <2>2
  <2> QED
      BY <2>1, <2>2 DEF Unload, lost, held
<1>4. /\ r \in LoaderRecord /\ r.model = loader[l].model /\ r.timely = loader[l].timely
      /\ (lost /\ r.pc = "pick" /\ r.evicted = 1)
         \/ (held /\ r.pc = "settle" /\ r.evicted = loader[l].evicted)
  <2>1. CASE /\ lost
             /\ r = [loader[l] EXCEPT
                            !.pc = "pick", !.seen = loader[l].seen \ {loader[l].victim},
                            !.victim = NoModel, !.evicted = 1, !.late = FALSE]
    <3> HIDE DEF lost
    <3> QED
        BY <1>1, <2>1 DEF LoaderRecord
  <2>2. CASE held /\ r = [loader[l] EXCEPT !.pc = "settle", !.victim = NoModel, !.late = FALSE]
    <3> HIDE DEF held
    <3> QED
        BY <1>1, <2>2 DEF LoaderRecord
  <2> HIDE DEF lost, held
  <2> QED
      BY <1>3, <2>1, <2>2
<1>5. RushesGood' /\ (r.evicted = 0 => rushes' = 0)
    BY <1>1, <1>2, <1>4 DEF WarmBase, RushesGood, PassGood, InPass, LoaderRecord
<1>6. WarmSets' /\ reserved' \in [WarmModels -> Nat]
    BY <1>2, <1>4, WatchTyped DEF WarmBase, WarmSets
<1>7. r.timely => cooling'
    BY <1>1, <1>2, <1>4 DEF PassGood
<1>8. /\ nodeLock' = {l} /\ suppressed' \subseteq suppressed /\ serving' = serving
      /\ loader' = [loader EXCEPT ![l] = r] /\ r.model \in WarmModels
      /\ r.pc \in {"pick", "settle"} /\ r \in LoaderRecord
    BY <1>1, <1>2, <1>3, <1>4
<1> HIDE DEF lost, held
<1> QED
    BY <1>1, <1>5, <1>6, <1>7, <1>8, LoaderMoves DEF InPass

LEMMA SettleMoves ==
    ASSUME WarmBase, NEW l \in Loaders, SettlePass(l), Watch
    PROVE WarmBase'
<1>1. /\ loader[l] \in LoaderRecord /\ LoaderGood(l) /\ PassGood(l)
      /\ loader[l].pc \in {"pick", "settle"}
      /\ HasLock(loader[l].pc) /\ nodeLock = {l} /\ loader[l].model \in WarmModels
    BY LoadersKnown DEF SettlePass, SettleAs, HasLock
<1>2. UNCHANGED <<gpu, polled, serving, suppressed, rushes>>
    BY DEF SettlePass, SettleAs
<1>3. RushesGood' /\ cooling' \in BOOLEAN
  <2>1. CASE loader[l].evicted > 0
      BY <1>2, <2>1 DEF SettlePass, SettleAs, RushesGood, WarmBase, WarmSets
  <2>2. CASE ~(loader[l].evicted > 0)
    <3>1. rushes = 0
        BY <1>1, <2>2 DEF PassGood, InPass, LoaderRecord
    <3>2. cooling' = (cooling /\ latestClaim # l)
        BY <2>2 DEF SettlePass, SettleAs, ReleaseEvictClaim
    <3> QED
        BY <1>2, <3>1, <3>2 DEF RushesGood
  <2> QED
      BY <2>1, <2>2
<1>4. CASE Fail(l)
    BY <1>1, <1>2, <1>3, <1>4, FailMoves
<1>5. CASE loader' = [loader EXCEPT ![l] = Pinging(l)] /\ UNCHANGED <<reserved, nodeLock>>
  <2> DEFINE r == Pinging(l)
  <2>1. r \in LoaderRecord /\ r.pc = "ping" /\ r.model = loader[l].model
        /\ r.evicted = 0 /\ ~r.timely
      BY <1>1, PingingTyped
  <2> HIDE DEF r
  <2>2. loader' = [loader EXCEPT ![l] = r]
      BY <1>5 DEF r
  <2>3. WarmSets' /\ reserved' \in [WarmModels -> Nat]
      BY <1>2, <1>3, <1>5, WatchTyped DEF WarmBase, WarmSets
  <2> QED
      BY <1>1, <1>2, <1>3, <1>5, <2>1, <2>2, <2>3, LoaderMoves DEF InPass
<1> QED
    BY <1>4, <1>5 DEF SettlePass, SettleAs

LEMMA PingMoves ==
    ASSUME WarmBase, NEW l \in Loaders, PingNode(l), Watch
    PROVE WarmBase'
<1>1. /\ loader[l].pc = "ping" /\ HasLock(loader[l].pc) /\ nodeLock = {l}
      /\ loader[l].model \in WarmModels
    BY LoadersKnown DEF PingNode, HasLock
<1>2. UNCHANGED <<polled, serving, suppressed, cooling, rushes>>
    BY DEF PingNode
<1>3. CASE Fail(l) /\ gpu' = gpu
    BY <1>1, <1>2, <1>3, FailMoves DEF WarmBase, WarmSets, RushesGood
<1>4. CASE gpu' = gpu \cup {loader[l].model} /\ Done(l) /\ UNCHANGED reserved
  <2>1. loader' = [loader EXCEPT ![l] = Idle] /\ nodeLock' = {}
      BY <1>1, <1>4 DEF Done
  <2>2. WarmSets' /\ RushesGood' /\ reserved' \in [WarmModels -> Nat]
      BY <1>1, <1>2, <1>4, <2>1, WatchTyped DEF WarmBase, WarmSets, RushesGood
  <2> QED
      BY <1>1, <1>2, <2>1, <2>2, IdleTyped, LoaderMoves DEF HasLock, InPass
<1> QED
    BY <1>3, <1>4 DEF PingNode
\* A poll, a request and a reservation leave the loaders alone, but for the moment
\* a request or an unload finds them at.
LEMMA AroundMoves ==
    ASSUME WarmBase, Watch,
           \/ PollNode
           \/ \E m \in WarmModels : \/ StopServing(m) \/ RouteReserves(m) \/ DropReservation(m)
    PROVE WarmBase'
<1>1. UNCHANGED <<gpu, suppressed, loader, nodeLock, cooling, rushes>> /\ serving' \subseteq serving
    BY DEF PollNode, PollAs, StopServing, RouteReserves, DropReservation
<1>2. reserved' \in [WarmModels -> Nat] /\ polled' \subseteq WarmModels
  <2>1. CASE PollNode
      BY <2>1 DEF PollNode, PollAs, WarmBase, WarmSets
  <2>2. ASSUME NEW m \in WarmModels, RouteReserves(m)
        PROVE reserved' \in [WarmModels -> Nat] /\ polled' \subseteq WarmModels
    <3>1. PICK bytes \in {SizeOf[m], GuardBytes} : reserved' = [reserved EXCEPT ![m] = bytes]
        BY <2>2 DEF RouteReserves
    <3>2. bytes \in Nat
        BY SizesTyped, WarmAssumption
    <3>3. polled' = polled
        BY <2>2 DEF RouteReserves
    <3> QED
        BY <3>1, <3>2, <3>3 DEF WarmBase, WarmSets
  <2>3. ASSUME NEW m \in WarmModels, StopServing(m) \/ DropReservation(m)
        PROVE reserved' \in [WarmModels -> Nat] /\ polled' \subseteq WarmModels
      BY <2>3 DEF StopServing, DropReservation, WarmBase, WarmSets
  <2> QED
      BY <2>1, <2>2, <2>3
<1>3. WarmSets'
    BY <1>1, <1>2, WatchTyped DEF WarmBase, WarmSets
<1>4. \A l \in Loaders : LoaderGood(l)' /\ PassGood(l)'
    BY <1>1 DEF WarmBase, LoaderGood, PassGood
<1> QED
    BY <1>1, <1>2, <1>3, <1>4 DEF WarmBase, RushesGood

\* Marks on the loaders.
LEMMA MarkMoves ==
    ASSUME WarmBase, NEW marked \in [Loaders -> LoaderRecord], loader' = marked, WarmSets',
           UNCHANGED <<reserved, nodeLock>>, RushesGood',
           \A l \in Loaders :
              /\ marked[l].pc = loader[l].pc /\ marked[l].model = loader[l].model
              /\ marked[l].victim = loader[l].victim /\ marked[l].evicted = loader[l].evicted
              /\ InPass(loader[l].pc) /\ loader[l].evicted = 0 => rushes' = 0
              /\ marked[l].timely => loader[l].timely /\ cooling'
              /\ loader[l].pc = "unload" /\ loader[l].victim \in serving' => marked[l].late
              /\ loader[l].pc = "wait" /\ loader[l].model \in suppressed' => marked[l].late
    PROVE WarmBase'
<1>1. ASSUME NEW l \in Loaders PROVE LoaderGood(l)' /\ PassGood(l)'
  <2>1. LoaderGood(l) /\ PassGood(l)
      BY DEF WarmBase
  <2> QED
      BY <2>1 DEF LoaderGood, PassGood
<1> QED
    BY <1>1 DEF WarmBase

LEMMA ServeMoves ==
    ASSUME WarmBase, Watch, NEW m \in WarmModels, StartServing(m)
    PROVE WarmBase'
<1> DEFINE marked == [l \in Loaders |->
                [loader[l] EXCEPT !.late = @ \/ (loader[l].pc = "unload" /\ loader[l].victim = m)]]
<1>1. /\ UNCHANGED <<gpu, polled, reserved, suppressed, nodeLock, cooling, rushes>>
      /\ serving' = serving \cup {m} /\ loader' = marked
    BY DEF StartServing
<1>2. ASSUME NEW l \in Loaders
      PROVE /\ marked[l] \in LoaderRecord
            /\ marked[l].pc = loader[l].pc /\ marked[l].model = loader[l].model
            /\ marked[l].victim = loader[l].victim /\ marked[l].evicted = loader[l].evicted
            /\ marked[l].timely = loader[l].timely
            /\ marked[l].late = (loader[l].late
                                   \/ (loader[l].pc = "unload" /\ loader[l].victim = m))
  <2>1. loader[l] \in LoaderRecord
      BY LoadersKnown
  <2> QED
      BY <2>1 DEF LoaderRecord
<1>3. marked \in [Loaders -> LoaderRecord]
    BY <1>2
<1> HIDE DEF marked
<1>4. WarmSets' /\ RushesGood'
    BY <1>1, WatchTyped DEF WarmBase, WarmSets, RushesGood
<1>5. \A l \in Loaders : LoaderGood(l) /\ PassGood(l)
    BY DEF WarmBase
<1>6. ASSUME NEW l \in Loaders
      PROVE /\ InPass(loader[l].pc) /\ loader[l].evicted = 0 => rushes' = 0
            /\ marked[l].timely => loader[l].timely /\ cooling'
            /\ loader[l].pc = "unload" /\ loader[l].victim \in serving' => marked[l].late
            /\ loader[l].pc = "wait" /\ loader[l].model \in suppressed' => marked[l].late
    BY <1>1, <1>2, <1>5 DEF LoaderGood, PassGood
<1> QED
    BY <1>1, <1>2, <1>3, <1>4, <1>6, MarkMoves

LEMMA ManualMoves ==
    ASSUME WarmBase, Watch, NEW m \in WarmModels, ManualUnload(m)
    PROVE WarmBase'
<1> DEFINE marked == [l \in Loaders |->
                [loader[l] EXCEPT !.late = @ \/ (loader[l].pc = "wait" /\ loader[l].model = m)]]
<1>1. /\ UNCHANGED <<polled, reserved, serving, nodeLock, cooling, rushes>>
      /\ gpu' = gpu \ {m} /\ suppressed' = suppressed \cup {m} /\ loader' = marked
    BY DEF ManualUnload, LateUnload
<1>2. ASSUME NEW l \in Loaders
      PROVE /\ marked[l] \in LoaderRecord
            /\ marked[l].pc = loader[l].pc /\ marked[l].model = loader[l].model
            /\ marked[l].victim = loader[l].victim /\ marked[l].evicted = loader[l].evicted
            /\ marked[l].timely = loader[l].timely
            /\ marked[l].late = (loader[l].late
                                   \/ (loader[l].pc = "wait" /\ loader[l].model = m))
  <2>1. loader[l] \in LoaderRecord
      BY LoadersKnown
  <2> QED
      BY <2>1 DEF LoaderRecord
<1>3. marked \in [Loaders -> LoaderRecord]
    BY <1>2
<1> HIDE DEF marked
<1>4. WarmSets' /\ RushesGood'
    BY <1>1, WatchTyped DEF WarmBase, WarmSets, RushesGood
<1>5. \A l \in Loaders : LoaderGood(l) /\ PassGood(l)
    BY DEF WarmBase
<1>6. ASSUME NEW l \in Loaders
      PROVE /\ InPass(loader[l].pc) /\ loader[l].evicted = 0 => rushes' = 0
            /\ marked[l].timely => loader[l].timely /\ cooling'
            /\ loader[l].pc = "unload" /\ loader[l].victim \in serving' => marked[l].late
            /\ loader[l].pc = "wait" /\ loader[l].model \in suppressed' => marked[l].late
    BY <1>1, <1>2, <1>5 DEF LoaderGood, PassGood
<1> QED
    BY <1>1, <1>2, <1>3, <1>4, <1>6, MarkMoves

LEMMA CooledMoves ==
    ASSUME WarmBase, Watch, CooldownPasses
    PROVE WarmBase'
<1> DEFINE marked == [l \in Loaders |-> [loader[l] EXCEPT !.timely = FALSE]]
<1>1. /\ UNCHANGED <<gpu, polled, reserved, serving, suppressed, nodeLock>>
      /\ cooling' = FALSE /\ rushes' = 0 /\ loader' = marked
    BY DEF CooldownPasses
<1>2. ASSUME NEW l \in Loaders
      PROVE /\ marked[l] \in LoaderRecord /\ ~marked[l].timely
            /\ marked[l].pc = loader[l].pc /\ marked[l].model = loader[l].model
            /\ marked[l].victim = loader[l].victim /\ marked[l].evicted = loader[l].evicted
            /\ marked[l].late = loader[l].late
  <2>1. loader[l] \in LoaderRecord
      BY LoadersKnown
  <2> QED
      BY <2>1 DEF LoaderRecord
<1>3. marked \in [Loaders -> LoaderRecord]
    BY <1>2
<1> HIDE DEF marked
<1>4. WarmSets'
  <2>1. cooling' \in BOOLEAN
      BY <1>1
  <2> QED
      BY <1>1, <2>1, WatchTyped DEF WarmBase, WarmSets
<1>5. \A l \in Loaders : LoaderGood(l) /\ PassGood(l)
    BY DEF WarmBase
<1>6. ASSUME NEW l \in Loaders
      PROVE /\ InPass(loader[l].pc) /\ loader[l].evicted = 0 => rushes' = 0
            /\ marked[l].timely => loader[l].timely /\ cooling'
            /\ loader[l].pc = "unload" /\ loader[l].victim \in serving' => marked[l].late
            /\ loader[l].pc = "wait" /\ loader[l].model \in suppressed' => marked[l].late
    BY <1>1, <1>2, <1>5 DEF LoaderGood, PassGood
<1>7. RushesGood'
    BY <1>1 DEF RushesGood
<1> QED
    BY <1>1, <1>2, <1>3, <1>4, <1>6, <1>7, MarkMoves

LEMMA AskMoves ==
    ASSUME WarmBase, Watch,
           \/ \E m \in WarmModels : PingWarmup(m)
           \/ \E l \in Others, m \in WarmModels : ScheduledWarmup(l, m) \/ Predict(l, m)
    PROVE WarmBase'
<1>1. PICK l \in Loaders, m \in WarmModels :
          /\ loader[l].pc = "idle" /\ Begin(l, m)
          /\ UNCHANGED <<gpu, polled, reserved, serving, nodeLock, cooling, rushes>>
          /\ suppressed' \subseteq suppressed /\ m \notin suppressed'
    BY DEF PingWarmup, ScheduledWarmup, Predict, Loaders
<1>2. WarmSets'
    BY <1>1, WatchTyped DEF WarmBase, WarmSets
<1> QED
    BY <1>1, <1>2, BeginMoves

LEMMA BaseMoves == ASSUME WarmBase, WarmNext PROVE WarmBase'
<1>1. Watch
    BY DEF WarmNext
<1>2. ASSUME NEW l \in Loaders, LoadStep(l) PROVE WarmBase'
    BY <1>1, <1>2, LockMoves, LookMoves, ReserveMoves, ClaimMoves, PickMoves, UnloadMoves,
       SettleMoves, PingMoves DEF LoadStep
<1> QED
    BY <1>1, <1>2, AskMoves, AroundMoves, ServeMoves, ManualMoves, CooledMoves DEF WarmNext
-----------------------------------------------------------------------------
(* What has been loaded fits. *)

LEMMA Calm ==
    ASSUME FitKept, Watch, ~disturbed'
    PROVE /\ ~Missed /\ ~Exposed' /\ ~Exposed /\ LoadsFit
          /\ \A l \in Loaders : CoversRest(l)
BY DEF FitKept, Watch

\* A resident model no poll has shown has its reservation, and so has one a load has
\* in hand unless it is resident and shown.
LEMMA Unexposed ==
    ASSUME ~Exposed
    PROVE /\ \A m \in gpu \ polled : ~(reserved[m] < SizeOf[m])
          /\ \A m \in Loading : m \in gpu \/ ~(reserved[m] < SizeOf[m])
BY DEF Exposed

LEMMA OneLoading ==
    ASSUME WarmBase, NEW l \in Loaders, \A k \in Loaders \ {l} : ~HasLock(loader[k].pc)
    PROVE Loading = IF loader[l].pc = "ping" THEN {loader[l].model} ELSE {}
BY DEF Loading, HasLock

\* What the reservations of the others and the snapshot of a loader cover.
LEMMA RestReserved ==
    ASSUME WarmBase, ~Exposed, NEW m \in WarmModels, NEW S \in SUBSET WarmModels,
           polled \subseteq S
    PROVE /\ Bytes(gpu \ (S \cup {m})) <= ReservedFor(WarmModels \ {m})
          /\ ReservedFor(WarmModels \ {m}) \in Nat
<1> DEFINE T == WarmModels \ {m}
           X == gpu \ (S \cup {m})
<1>1. X \in SUBSET T /\ T \in SUBSET WarmModels /\ X \subseteq gpu \ polled
    BY DEF WarmBase, WarmSets
<1>2. \A x \in X : SizeOf[x] <= reserved[x]
    BY <1>1, Unexposed, SizesTyped DEF WarmBase
<1>3. reserved \in [WarmModels -> Nat]
    BY DEF WarmBase
<1> HIDE DEF T, X
<1>4. Bytes(X) <= ReservedFor(T) /\ ReservedFor(T) \in Nat
    BY <1>1, <1>2, <1>3, BytesReserved
<1> QED
    BY <1>4 DEF T, X

\* A model beside what the node holds weighs no more than itself, the snapshot and
\* what the snapshot does not show.
LEMMA BesideThem ==
    ASSUME WarmBase, NEW m \in WarmModels, NEW S \in SUBSET WarmModels
    PROVE /\ Bytes(gpu \cup {m}) <= SizeOf[m] + (Bytes(S) + Bytes(gpu \ (S \cup {m})))
          /\ Bytes(gpu \cup {m}) \in Nat /\ Bytes(S) \in Nat /\ SizeOf[m] \in Nat
          /\ Bytes(gpu \ (S \cup {m})) \in Nat
<1> DEFINE X == gpu \ (S \cup {m})
<1>1. X \in SUBSET WarmModels /\ gpu \in SUBSET WarmModels /\ (S \cup X) \in SUBSET WarmModels
      /\ ((S \cup X) \cup {m}) \in SUBSET WarmModels /\ (gpu \cup {m}) \in SUBSET WarmModels
    BY DEF WarmBase, WarmSets
<1>2. gpu \cup {m} \in SUBSET ((S \cup X) \cup {m})
    OBVIOUS
<1> HIDE DEF X
<1>3. /\ Bytes(gpu \cup {m}) <= Bytes((S \cup X) \cup {m})
      /\ Bytes(gpu \cup {m}) \in Nat /\ Bytes((S \cup X) \cup {m}) \in Nat
      /\ Bytes(S) \in Nat /\ Bytes(X) \in Nat /\ Bytes(S \cup X) \in Nat
    BY <1>1, <1>2, BytesKnown
<1>4. Bytes((S \cup X) \cup {m}) <= SizeOf[m] + Bytes(S \cup X)
    BY <1>1, BytesAdded
<1>5. Bytes(S \cup X) <= Bytes(S) + Bytes(X)
    BY <1>1, BytesJoin
<1>6. SizeOf[m] \in Nat
    BY SizesTyped
<1>7. Bytes(gpu \cup {m}) <= SizeOf[m] + (Bytes(S) + Bytes(X))
    BY <1>3, <1>4, <1>5, <1>6
<1> QED
    BY <1>3, <1>6, <1>7 DEF X

\* A step of one loader.
LEMMA LoaderFits ==
    ASSUME WarmBase, WarmBase', FitKept, Watch, NEW l \in Loaders, nodeLock \in {{}, {l}},
           NEW r \in LoaderRecord, loader' = [loader EXCEPT ![l] = r],
           r.pc # "idle" => r.model \in WarmModels,
           ~disturbed' => CoversRest(l)',
           ~disturbed' =>
              Bytes(gpu' \cup (IF r.pc = "ping" THEN {r.model} ELSE {})) <= VRAMTotal
    PROVE FitKept'
<1>1. SUFFICES ASSUME ~disturbed' PROVE ~Exposed' /\ LoadsFit' /\ \A k \in Loaders : CoversRest(k)'
    BY DEF FitKept
<1>2. ~Exposed'
    BY <1>1, Calm
<1>3. ASSUME NEW k \in Loaders \ {l} PROVE ~HasLock(loader'[k].pc)
    BY OthersWait DEF WarmBase
<1>4. loader'[l] = r
    BY DEF WarmBase
<1>5. Loading' = IF r.pc = "ping" THEN {r.model} ELSE {}
    BY <1>3, <1>4 DEF Loading, HasLock
<1>6. LoadsFit'
  <2>1. Bytes(gpu' \cup Loading') <= VRAMTotal
      BY <1>1, <1>5
  <2> QED
      BY <2>1 DEF LoadsFit
<1>7. \A k \in Loaders \ {l} : CoversRest(k)'
    BY <1>3 DEF CoversRest, HasLock, InPass
<1> QED
    BY <1>1, <1>2, <1>6, <1>7

\* A step around them.
LEMMA AroundFits ==
    ASSUME WarmBase, WarmBase', FitKept, Watch, gpu' \subseteq gpu,
           \A l \in Loaders :
              \/ ~HasLock(loader'[l].pc)
              \/ /\ loader'[l].pc = loader[l].pc /\ loader'[l].model = loader[l].model
                 /\ loader'[l].seen = loader[l].seen /\ loader'[l].need = loader[l].need,
           polled' = polled \/ polled' = gpu
    PROVE FitKept'
<1>1. SUFFICES ASSUME ~disturbed' PROVE ~Exposed' /\ LoadsFit' /\ \A k \in Loaders : CoversRest(k)'
    BY DEF FitKept
<1>2. ~Missed /\ ~Exposed' /\ LoadsFit /\ \A k \in Loaders : CoversRest(k)
    BY <1>1, Calm
<1>3. LoadsFit'
  <2>1. /\ gpu' \cup Loading' \in SUBSET (gpu \cup Loading)
        /\ gpu \cup Loading \in SUBSET WarmModels
    <3>1. Loading' \subseteq Loading
        BY DEF Loading, HasLock
    <3>2. Loading \subseteq WarmModels
        BY DEF WarmBase, Loading, LoaderGood
    <3> QED
        BY <3>1, <3>2 DEF WarmBase, WarmSets
  <2>2. Bytes(gpu' \cup Loading') <= Bytes(gpu \cup Loading)
        /\ Bytes(gpu' \cup Loading') \in Nat /\ Bytes(gpu \cup Loading) \in Nat
      BY <2>1, BytesKnown
  <2>3. Bytes(gpu' \cup Loading') <= VRAMTotal
      BY <1>2, <2>2, SizesTyped DEF LoadsFit
  <2> QED
      BY <2>3 DEF LoadsFit
<1>4. ASSUME NEW k \in Loaders PROVE CoversRest(k)'
  <2>1. CASE ~HasLock(loader'[k].pc)
      BY <2>1 DEF CoversRest, HasLock, InPass
  <2>2. CASE HasLock(loader'[k].pc)
    <3>1. /\ loader'[k].pc = loader[k].pc /\ loader'[k].model = loader[k].model
          /\ loader'[k].seen = loader[k].seen /\ loader'[k].need = loader[k].need
        BY <2>2
    <3>2. CoversRest(k) /\ loader[k] \in LoaderRecord /\ loader[k].model \in WarmModels
        BY <1>2, <2>2, <3>1, LoadersKnown
    <3>3. loader[k].pc = "reserve" => polled' \subseteq loader[k].seen
        BY <1>2, <3>1, <3>2 DEF Missed, CoversRest
    <3>4. ASSUME loader[k].pc = "claim" \/ InPass(loader[k].pc)
          PROVE SizeOf[loader[k].model] + Bytes(Unseen(k)') <= loader[k].need
      <4>1. SizeOf[loader[k].model] + Bytes(Unseen(k)) <= loader[k].need
          BY <3>2, <3>4 DEF CoversRest
      <4>2. Unseen(k)' \in SUBSET Unseen(k) /\ Unseen(k) \in SUBSET WarmModels
          BY <3>1 DEF Unseen, WarmBase, WarmSets
      <4>3. /\ Bytes(Unseen(k)') <= Bytes(Unseen(k)) /\ Bytes(Unseen(k)') \in Nat
            /\ Bytes(Unseen(k)) \in Nat
          BY <4>2, BytesKnown
      <4>4. SizeOf[loader[k].model] \in Nat /\ loader[k].need \in Nat
          BY <3>2, SizesTyped DEF LoaderRecord
      <4> QED
          BY <4>1, <4>3, <4>4
    <3> QED
        BY <3>1, <3>3, <3>4 DEF CoversRest
  <2> QED
      BY <2>1, <2>2
<1> QED
    BY <1>1, <1>2, <1>3, <1>4
\* A loader that keeps what it loads for, and what the node holds, as they are.
LEMMA SameFits ==
    ASSUME WarmBase, WarmBase', FitKept, Watch, NEW l \in Loaders, nodeLock = {l},
           NEW r \in LoaderRecord, loader' = [loader EXCEPT ![l] = r], gpu' \subseteq gpu,
           ~InPass(r.pc), r.pc \notin {"reserve", "claim"},
           ~disturbed' /\ r.pc = "ping" => r.model \in gpu' \cup Loading,
           r.pc # "idle" => r.model \in WarmModels
    PROVE FitKept'
<1>1. CoversRest(l)'
    BY DEF CoversRest, WarmBase
<1>2. ASSUME ~disturbed'
      PROVE Bytes(gpu' \cup (IF r.pc = "ping" THEN {r.model} ELSE {})) <= VRAMTotal
  <2> DEFINE X == gpu' \cup (IF r.pc = "ping" THEN {r.model} ELSE {})
  <2>1. LoadsFit
      BY <1>2, Calm
  <2>2. X \in SUBSET (gpu \cup Loading) /\ gpu \cup Loading \in SUBSET WarmModels
    <3>1. Loading \subseteq WarmModels
        BY DEF WarmBase, Loading, LoaderGood
    <3> QED
        BY <1>2, <3>1 DEF WarmBase, WarmSets
  <2> HIDE DEF X
  <2>3. Bytes(X) <= Bytes(gpu \cup Loading) /\ Bytes(X) \in Nat /\ Bytes(gpu \cup Loading) \in Nat
      BY <2>2, BytesKnown
  <2>4. Bytes(X) <= VRAMTotal
      BY <2>1, <2>3, SizesTyped DEF LoadsFit
  <2> QED
      BY <2>4 DEF X
<1> QED
    BY <1>1, <1>2, LoaderFits

LEMMA FailFits ==
    ASSUME WarmBase, WarmBase', FitKept, Watch, NEW l \in Loaders, nodeLock = {l},
           Fail(l) \/ Done(l), gpu' \subseteq gpu
    PROVE FitKept'
<1>1. loader' = [loader EXCEPT ![l] = Idle]
    BY DEF Fail, Done
<1> QED
    BY <1>1, IdleTyped, SameFits DEF InPass

LEMMA LockFits ==
    ASSUME WarmBase, WarmBase', FitKept, Watch, NEW l \in Loaders, LockNodeLoad(l)
    PROVE FitKept'
<1>1. /\ loader' = [loader EXCEPT ![l] = [@ EXCEPT !.pc = "look", !.late = FALSE]]
      /\ loader[l].pc = "wait" /\ UNCHANGED <<gpu, polled>>
    BY DEF LockNodeLoad
<1> DEFINE r == [loader[l] EXCEPT !.pc = "look", !.late = FALSE]
<1>2. loader[l] \in LoaderRecord /\ loader[l].model \in WarmModels
    BY <1>1, LoadersKnown DEF LoaderGood
<1>3. r \in LoaderRecord /\ r.pc = "look" /\ r.model \in WarmModels
    BY <1>2 DEF LoaderRecord
<1>4. loader' = [loader EXCEPT ![l] = r]
    BY <1>1
<1> HIDE DEF r
<1>5. nodeLock = {}
    BY DEF LockNodeLoad
<1>6. CoversRest(l)'
    BY <1>3, <1>4 DEF CoversRest, WarmBase, InPass
<1>7. ASSUME ~disturbed' PROVE Bytes(gpu' \cup {}) <= VRAMTotal
  <2>1. LoadsFit
      BY <1>7, Calm
  <2>2. ~HasLock(loader[l].pc) /\ \A k \in Loaders \ {l} : ~HasLock(loader[k].pc)
      BY <1>1, <1>5, OthersWait DEF HasLock
  <2>3. Loading = {}
      BY <2>2 DEF Loading, HasLock
  <2>4. gpu' \cup {} = gpu \cup Loading
      BY <1>1, <2>3
  <2> QED
      BY <2>1, <2>4 DEF LoadsFit
<1> QED
    BY <1>3, <1>4, <1>5, <1>6, <1>7, LoaderFits

LEMMA LookFits ==
    ASSUME WarmBase, WarmBase', FitKept, Watch, NEW l \in Loaders, LookAtNode(l)
    PROVE FitKept'
<1>1. /\ loader[l] \in LoaderRecord /\ loader[l].pc = "look"
      /\ HasLock(loader[l].pc) /\ nodeLock = {l} /\ loader[l].model \in WarmModels
    BY LoadersKnown DEF LookAtNode, HasLock
<1>2. UNCHANGED <<gpu, polled>>
    BY DEF LookAtNode
<1> DEFINE m == loader[l].model
           p == [loader[l] EXCEPT !.pc = "ping"]
           q == [loader[l] EXCEPT !.pc = "reserve", !.seen = polled]
<1>3. CASE Fail(l)
    BY <1>1, <1>2, <1>3, FailFits
<1>4. CASE /\ m \in polled /\ loader' = [loader EXCEPT ![l] = p]
           /\ reserved' = [reserved EXCEPT ![m] = 0]
  <2>1. p \in LoaderRecord /\ p.pc = "ping" /\ p.model = m
      BY <1>1 DEF LoaderRecord
  <2> HIDE DEF p
  <2>2. ASSUME ~disturbed' PROVE m \in gpu'
    <3>1. ~Exposed'
        BY <2>2, Calm
    <3>2. m \in Loading'
        BY <1>4, <2>1 DEF WarmBase, Loading
    <3>3. m \in gpu' \/ ~(reserved'[m] < SizeOf[m])
        BY <3>1, <3>2 DEF Exposed
    <3>4. reserved'[m] = 0 /\ SizeOf[m] \in Nat /\ SizeOf[m] # 0
        BY <1>1, <1>4, WarmAssumption DEF WarmBase
    <3> QED
        BY <3>3, <3>4
  <2> QED
      BY <1>1, <1>2, <1>4, <2>1, <2>2, SameFits DEF InPass
<1>5. CASE loader' = [loader EXCEPT ![l] = q]
  <2>1. q \in LoaderRecord /\ q.pc = "reserve" /\ q.model = m /\ q.seen = polled
      BY <1>1 DEF LoaderRecord, WarmBase, WarmSets
  <2> HIDE DEF q
  <2>2. CoversRest(l)'
      BY <1>2, <1>5, <2>1 DEF CoversRest, WarmBase, InPass
  <2>3. ASSUME ~disturbed' PROVE Bytes(gpu' \cup {}) <= VRAMTotal
    <3>1. LoadsFit
        BY <2>3, Calm
    <3>2. Loading = {}
        BY <1>1, OthersWait, OneLoading
    <3>3. gpu' \cup {} = gpu \cup Loading
        BY <1>2, <3>2
    <3> QED
        BY <3>1, <3>3 DEF LoadsFit
  <2> QED
      BY <1>1, <1>5, <2>1, <2>2, <2>3, LoaderFits
<1> HIDE DEF p, q, m
<1> QED
    BY <1>3, <1>4, <1>5 DEF LookAtNode, p, q, m

LEMMA ReserveFits ==
    ASSUME WarmBase, WarmBase', FitKept, Watch, NEW l \in Loaders, ReserveWarmBytes(l)
    PROVE FitKept'
<1> DEFINE m == loader[l].model
           S == loader[l].seen
           others == ReservedFor(WarmModels \ {loader[l].model})
           q == [loader[l] EXCEPT !.pc = "claim", !.need = SizeOf[m] + others]
           r == IF Bytes(S) + others + SizeOf[m] <= VRAMTotal THEN Pinging(l) ELSE q
<1>1. /\ loader[l] \in LoaderRecord /\ loader[l].pc = "reserve"
      /\ HasLock(loader[l].pc) /\ nodeLock = {l} /\ m \in WarmModels /\ S \in SUBSET WarmModels
    BY LoadersKnown DEF ReserveWarmBytes, ReserveOf, HasLock, LoaderRecord
<1>2. UNCHANGED <<gpu, polled>>
    BY DEF ReserveWarmBytes, ReserveOf
<1>3. CASE Fail(l)
    BY <1>1, <1>2, <1>3, FailFits
<1>4. CASE loader' = [loader EXCEPT ![l] = r]
  <2>0. others \in Nat /\ SizeOf[m] \in Nat
    <3>1. Bytes({}) <= others /\ others \in Nat
        BY BytesReserved DEF WarmBase
    <3> QED
        BY <1>1, <3>1, SizesTyped
  <2>1. q \in LoaderRecord /\ q.pc = "claim" /\ q.model = m /\ q.need = SizeOf[m] + others
    <3>1. SizeOf[m] + others \in Nat
        BY <2>0
    <3> HIDE DEF others, m
    <3> QED
        BY <1>1, <3>1 DEF LoaderRecord, m
  <2>2. /\ Pinging(l) \in LoaderRecord /\ Pinging(l).pc = "ping" /\ Pinging(l).model = m
      BY <1>1, PingingTyped
  <2>3. /\ r \in LoaderRecord /\ r.model = m
        /\ \/ r.pc = "ping" /\ Bytes(S) + others + SizeOf[m] <= VRAMTotal
           \/ r.pc = "claim" /\ r.need = SizeOf[m] + others
      BY <2>1, <2>2
  <2> HIDE DEF r
  <2>4. ASSUME ~disturbed', NEW R \in {polled, S}
        PROVE Bytes(gpu \ (R \cup {m})) <= others
    <3>1. ~Exposed /\ CoversRest(l)
        BY <2>4, Calm
    <3>2. polled \subseteq R /\ R \in SUBSET WarmModels
        BY <1>1, <3>1 DEF CoversRest, WarmBase, WarmSets
    <3> QED
        BY <1>1, <3>1, <3>2, RestReserved
  <2> HIDE DEF others, m, S
  <2>5. polled \in SUBSET WarmModels
      BY DEF WarmBase, WarmSets
  <2>6. ASSUME ~disturbed' PROVE CoversRest(l)'
    <3>1. loader'[l] = r
        BY <1>4 DEF WarmBase
    <3>2. CASE r.pc = "ping"
        BY <3>1, <3>2 DEF CoversRest, InPass
    <3>3. CASE r.pc = "claim" /\ r.need = SizeOf[m] + others
      <4>1. Unseen(l)' = gpu \ (polled \cup {m})
          BY <1>2, <2>3, <3>1, <3>3 DEF Unseen
      <4>2. Bytes(gpu \ (polled \cup {m})) <= others
          BY <2>4, <2>6
      <4>3. Bytes(gpu \ (polled \cup {m})) \in Nat
          BY <1>1, <2>5, BesideThem
      <4>4. SizeOf[m] + Bytes(gpu \ (polled \cup {m})) <= r.need
          BY <2>0, <3>3, <4>2, <4>3
      <4>5. SizeOf[r.model] + Bytes(Unseen(l)') <= r.need
          BY <2>3, <4>1, <4>4
      <4> QED
          BY <3>1, <3>3, <4>5 DEF CoversRest, InPass
    <3> QED
        BY <2>3, <3>2, <3>3
  <2>7. ASSUME ~disturbed'
        PROVE Bytes(gpu' \cup (IF r.pc = "ping" THEN {r.model} ELSE {})) <= VRAMTotal
    <3>1. CASE r.pc = "ping" /\ Bytes(S) + others + SizeOf[m] <= VRAMTotal
      <4>1. Bytes(gpu \ (S \cup {m})) <= others
          BY <2>4, <2>7
      <4>2. /\ Bytes(gpu \cup {m}) <= SizeOf[m] + (Bytes(S) + Bytes(gpu \ (S \cup {m})))
            /\ Bytes(gpu \cup {m}) \in Nat /\ Bytes(S) \in Nat
            /\ Bytes(gpu \ (S \cup {m})) \in Nat
          BY <1>1, BesideThem
      <4>3. Bytes(gpu \cup {m}) <= VRAMTotal
          BY <2>0, <3>1, <4>1, <4>2, SizesTyped
      <4>4. gpu' \cup (IF r.pc = "ping" THEN {r.model} ELSE {}) = gpu \cup {m}
          BY <1>2, <2>3, <3>1
      <4> QED
          BY <4>3, <4>4
    <3>2. CASE r.pc = "claim"
      <4>1. LoadsFit
          BY <2>7, Calm
      <4>2. Loading = {}
          BY <1>1, OthersWait, OneLoading
      <4>3. gpu' \cup (IF r.pc = "ping" THEN {r.model} ELSE {}) = gpu \cup Loading
          BY <1>2, <3>2, <4>2
      <4> QED
          BY <4>1, <4>3 DEF LoadsFit
    <3> QED
        BY <2>3, <3>1, <3>2
  <2>8. r.pc # "idle" => r.model \in WarmModels
      BY <1>1, <2>3
  <2> QED
      BY <1>1, <1>4, <2>3, <2>6, <2>7, <2>8, LoaderFits
<1>5. Fail(l) \/ loader' = [loader EXCEPT
                ![l] = IF Bytes(@.seen) + others + SizeOf[m] <= VRAMTotal
                       THEN Pinging(l)
                       ELSE [@ EXCEPT !.pc = "claim", !.need = SizeOf[m] + others]]
    BY DEF ReserveWarmBytes, ReserveOf
<1> HIDE DEF others
<1> QED
    BY <1>3, <1>4, <1>5 DEF WarmBase
\* A step of a pass: what the node holds only shrinks.
LEMMA PassFits ==
    ASSUME WarmBase, WarmBase', FitKept, Watch, NEW l \in Loaders, nodeLock = {l},
           NEW r \in LoaderRecord, loader' = [loader EXCEPT ![l] = r], gpu' \in SUBSET gpu,
           loader[l].pc # "ping", InPass(r.pc), r.model \in WarmModels,
           loader[l].pc = "claim" \/ InPass(loader[l].pc),
           r.model = loader[l].model, r.need = loader[l].need, Unseen(l)' \subseteq Unseen(l)
    PROVE FitKept'
<1>1. loader'[l] = r
    BY DEF WarmBase
<1>2. ASSUME ~disturbed' PROVE CoversRest(l)'
  <2>1. SizeOf[r.model] + Bytes(Unseen(l)) <= r.need
      BY <1>2, Calm DEF CoversRest
  <2>2. Unseen(l)' \in SUBSET Unseen(l) /\ Unseen(l) \in SUBSET WarmModels
      BY DEF Unseen, WarmBase, WarmSets
  <2>3. /\ Bytes(Unseen(l)') <= Bytes(Unseen(l)) /\ Bytes(Unseen(l)') \in Nat
        /\ Bytes(Unseen(l)) \in Nat
      BY <2>2, BytesKnown
  <2>4. SizeOf[r.model] \in Nat /\ r.need \in Nat
      BY SizesTyped DEF LoaderRecord
  <2>5. SizeOf[r.model] + Bytes(Unseen(l)') <= r.need
      BY <2>1, <2>3, <2>4
  <2> QED
      BY <1>1, <2>5 DEF CoversRest, InPass
<1>3. ASSUME ~disturbed'
      PROVE Bytes(gpu' \cup (IF r.pc = "ping" THEN {r.model} ELSE {})) <= VRAMTotal
  <2>1. LoadsFit
      BY <1>3, Calm
  <2>2. Loading = {}
      BY OthersWait, OneLoading
  <2>3. gpu' \cup (IF r.pc = "ping" THEN {r.model} ELSE {}) = gpu'
      BY DEF InPass
  <2>4. gpu' \in SUBSET gpu /\ gpu \in SUBSET WarmModels /\ gpu \cup Loading = gpu
      BY <2>2 DEF WarmBase, WarmSets
  <2>5. Bytes(gpu') <= Bytes(gpu) /\ Bytes(gpu') \in Nat /\ Bytes(gpu) \in Nat
      BY <2>4, BytesKnown
  <2>6. Bytes(gpu') <= VRAMTotal
      BY <2>1, <2>4, <2>5, SizesTyped DEF LoadsFit
  <2> QED
      BY <2>3, <2>6
<1> QED
    BY <1>2, <1>3, LoaderFits

LEMMA ClaimFits ==
    ASSUME WarmBase, WarmBase', FitKept, Watch, NEW l \in Loaders, ClaimEvictCooldown(l)
    PROVE FitKept'
<1>1. /\ loader[l] \in LoaderRecord /\ loader[l].pc = "claim"
      /\ HasLock(loader[l].pc) /\ nodeLock = {l} /\ loader[l].model \in WarmModels
    BY LoadersKnown DEF ClaimEvictCooldown, HasLock
<1>2. UNCHANGED <<gpu, polled>>
    BY DEF ClaimEvictCooldown
<1> DEFINE r == [loader[l] EXCEPT !.pc = "pick", !.seen = polled, !.busy = serving,
                                  !.timely = TRUE]
<1>3. CASE Fail(l)
    BY <1>1, <1>2, <1>3, FailFits
<1>4. CASE loader' = [loader EXCEPT ![l] = r]
  <2>1. /\ r \in LoaderRecord /\ r.pc = "pick" /\ r.model = loader[l].model /\ r.seen = polled
        /\ r.need = loader[l].need
      BY <1>1 DEF LoaderRecord, WarmBase, WarmSets
  <2> HIDE DEF r
  <2>2. Unseen(l)' = Unseen(l)
      BY <1>1, <1>2, <1>4, <2>1 DEF Unseen, WarmBase
  <2> QED
      BY <1>1, <1>2, <1>4, <2>1, <2>2, PassFits DEF InPass
<1>5. Fail(l) \/ loader' = [loader EXCEPT ![l] = [@ EXCEPT !.pc = "pick", !.seen = polled,
                                                    !.busy = serving, !.timely = TRUE]]
    BY DEF ClaimEvictCooldown
<1> QED
    BY <1>3, <1>4, <1>5

LEMMA PickFits ==
    ASSUME WarmBase, WarmBase', FitKept, Watch, NEW l \in Loaders, NEW v \in WarmModels,
           PickVictim(l, v)
    PROVE FitKept'
<1>1. /\ loader[l] \in LoaderRecord /\ loader[l].pc = "pick"
      /\ HasLock(loader[l].pc) /\ nodeLock = {l} /\ loader[l].model \in WarmModels
    BY LoadersKnown DEF PickVictim, HasLock
<1>2. UNCHANGED <<gpu, polled>>
    BY DEF PickVictim
<1>3. PICK r : /\ loader' = [loader EXCEPT ![l] = r]
               /\ \/ r = [loader[l] EXCEPT !.busy = @ \cup {v}]
                  \/ r = [loader[l] EXCEPT !.pc = "unload", !.victim = v]
    BY DEF PickVictim, WarmBase
<1>4. /\ r \in LoaderRecord /\ r.pc \in {"pick", "unload"} /\ r.model = loader[l].model
      /\ r.need = loader[l].need /\ r.seen = loader[l].seen
  <2>1. CASE r = [loader[l] EXCEPT !.busy = @ \cup {v}]
      BY <1>1, <2>1 DEF LoaderRecord
  <2>2. CASE r = [loader[l] EXCEPT !.pc = "unload", !.victim = v]
      BY <1>1, <2>2 DEF LoaderRecord
  <2> QED
      BY <1>3, <2>1, <2>2
<1>5. Unseen(l)' = Unseen(l)
    BY <1>1, <1>2, <1>3, <1>4 DEF Unseen, WarmBase
<1> QED
    BY <1>1, <1>2, <1>3, <1>4, <1>5, PassFits DEF InPass

LEMMA UnloadFits ==
    ASSUME WarmBase, WarmBase', FitKept, Watch, NEW l \in Loaders, Unload(l)
    PROVE FitKept'
<1>1. /\ loader[l] \in LoaderRecord /\ loader[l].pc = "unload"
      /\ HasLock(loader[l].pc) /\ nodeLock = {l} /\ loader[l].model \in WarmModels
    BY LoadersKnown DEF Unload, HasLock
<1>2. polled' = polled
    BY DEF Unload
<1>3. PICK r : /\ loader' = [loader EXCEPT ![l] = r]
               /\ \/ /\ gpu' = gpu \ {loader[l].victim}
                     /\ r = [loader[l] EXCEPT
                            !.pc = "pick", !.seen = loader[l].seen \ {loader[l].victim},
                            !.victim = NoModel, !.evicted = 1, !.late = FALSE]
                  \/ /\ gpu' = gpu
                     /\ r = [loader[l] EXCEPT !.pc = "settle", !.victim = NoModel,
                                              !.late = FALSE]
    BY DEF Unload, WarmBase
<1>4. /\ r \in LoaderRecord /\ r.pc \in {"pick", "settle"} /\ r.model = loader[l].model
      /\ r.need = loader[l].need
      /\ \/ gpu' = gpu \ {loader[l].victim} /\ r.seen = loader[l].seen \ {loader[l].victim}
         \/ gpu' = gpu /\ r.seen = loader[l].seen
  <2>1. CASE /\ gpu' = gpu \ {loader[l].victim}
             /\ r = [loader[l] EXCEPT
                            !.pc = "pick", !.seen = loader[l].seen \ {loader[l].victim},
                            !.victim = NoModel, !.evicted = 1, !.late = FALSE]
      BY <1>1, <2>1 DEF LoaderRecord
  <2>2. CASE /\ gpu' = gpu
             /\ r = [loader[l] EXCEPT !.pc = "settle", !.victim = NoModel, !.late = FALSE]
      BY <1>1, <2>2 DEF LoaderRecord
  <2> QED
      BY <1>3, <2>1, <2>2
<1>5. Unseen(l)' \subseteq Unseen(l)
    BY <1>1, <1>2, <1>3, <1>4 DEF Unseen, WarmBase
<1>6. gpu' \in SUBSET gpu
    BY <1>4
<1> QED
    BY <1>1, <1>3, <1>4, <1>5, <1>6, PassFits DEF InPass

LEMMA SettleFits ==
    ASSUME WarmBase, WarmBase', FitKept, Watch, NEW l \in Loaders, SettlePass(l)
    PROVE FitKept'
<1>1. /\ loader[l] \in LoaderRecord /\ loader[l].pc \in {"pick", "settle"}
      /\ HasLock(loader[l].pc) /\ nodeLock = {l} /\ loader[l].model \in WarmModels
      /\ loader[l].seen \in SUBSET WarmModels /\ loader[l].need \in Nat
    BY LoadersKnown DEF SettlePass, SettleAs, HasLock, LoaderRecord
<1>2. UNCHANGED <<gpu, polled>>
    BY DEF SettlePass, SettleAs
<1>3. CASE Fail(l)
    BY <1>1, <1>2, <1>3, FailFits
<1>4. CASE Enough(l) /\ loader' = [loader EXCEPT ![l] = Pinging(l)]
  <2> DEFINE r == Pinging(l)
             m == loader[l].model
             S == loader[l].seen
  <2>1. r \in LoaderRecord /\ r.pc = "ping" /\ r.model = m
      BY <1>1, PingingTyped
  <2>2. loader' = [loader EXCEPT ![l] = r]
      BY <1>4
  <2> HIDE DEF r
  <2>3. CoversRest(l)'
      BY <2>1, <2>2 DEF CoversRest, WarmBase, InPass
  <2>4. ASSUME ~disturbed' PROVE Bytes(gpu \cup {m}) <= VRAMTotal
    <3>1. SizeOf[m] + Bytes(gpu \ (S \cup {m})) <= loader[l].need
      <4>1. SizeOf[m] + Bytes(Unseen(l)) <= loader[l].need
          BY <1>1, <2>4, Calm DEF CoversRest, InPass
      <4>2. Unseen(l) = gpu \ (S \cup {m})
          BY <1>1 DEF Unseen
      <4> QED
          BY <4>1, <4>2
    <3>2. Bytes(S) + loader[l].need <= VRAMTotal
        BY <1>4 DEF Enough
    <3> HIDE DEF m, S
    <3>3. m \in WarmModels /\ S \in SUBSET WarmModels
        BY <1>1 DEF m, S
    <3>4. /\ Bytes(gpu \cup {m}) <= SizeOf[m] + (Bytes(S) + Bytes(gpu \ (S \cup {m})))
          /\ Bytes(gpu \cup {m}) \in Nat /\ Bytes(S) \in Nat
          /\ Bytes(gpu \ (S \cup {m})) \in Nat /\ SizeOf[m] \in Nat
        BY <3>3, BesideThem
    <3> QED
        BY <1>1, <3>1, <3>2, <3>4, SizesTyped
  <2>5. ASSUME ~disturbed'
        PROVE Bytes(gpu' \cup (IF r.pc = "ping" THEN {r.model} ELSE {})) <= VRAMTotal
    <3>1. gpu' \cup (IF r.pc = "ping" THEN {r.model} ELSE {}) = gpu \cup {m}
        BY <1>2, <2>1
    <3> QED
        BY <2>4, <2>5, <3>1
  <2> QED
      BY <1>1, <2>1, <2>2, <2>3, <2>5, LoaderFits
<1> QED
    BY <1>3, <1>4 DEF SettlePass, SettleAs

LEMMA PingFits ==
    ASSUME WarmBase, WarmBase', FitKept, Watch, NEW l \in Loaders, PingNode(l)
    PROVE FitKept'
<1>1. /\ loader[l].pc = "ping" /\ HasLock(loader[l].pc) /\ nodeLock = {l}
      /\ loader[l].model \in WarmModels
    BY LoadersKnown DEF PingNode, HasLock
<1>2. CASE Fail(l) /\ gpu' = gpu
    BY <1>1, <1>2, FailFits
<1>3. CASE gpu' = gpu \cup {loader[l].model} /\ Done(l)
  <2>1. loader' = [loader EXCEPT ![l] = Idle]
      BY <1>3 DEF Done
  <2>2. CoversRest(l)'
      BY <2>1, IdleTyped DEF CoversRest, WarmBase, InPass
  <2>3. ASSUME ~disturbed' PROVE Bytes(gpu' \cup {}) <= VRAMTotal
    <3>1. LoadsFit
        BY <2>3, Calm
    <3>2. Loading = {loader[l].model}
        BY <1>1, OthersWait, OneLoading
    <3>3. gpu' \cup {} = gpu \cup Loading
        BY <1>3, <3>2
    <3> QED
        BY <3>1, <3>3 DEF LoadsFit
  <2> QED
      BY <1>1, <2>1, <2>2, <2>3, IdleTyped, LoaderFits
<1> QED
    BY <1>2, <1>3 DEF PingNode

LEMMA FitMoves == ASSUME WarmBase, WarmBase', FitKept, WarmNext PROVE FitKept'
<1>1. Watch
    BY DEF WarmNext
<1>2. ASSUME NEW l \in Loaders, LoadStep(l) PROVE FitKept'
    BY <1>1, <1>2, LockFits, LookFits, ReserveFits, ClaimFits, PickFits, UnloadFits,
       SettleFits, PingFits DEF LoadStep
<1>3. ASSUME NEW l \in Loaders, NEW m \in WarmModels, Begin(l, m), gpu' = gpu, polled' = polled
      PROVE FitKept'
  <2>1. \A k \in Loaders : loader'[k] = loader[k] \/ ~HasLock(loader'[k].pc)
    <3>1. [Idle EXCEPT !.pc = "wait", !.model = m].pc = "wait"
        BY DEF Idle
    <3>2. \A k \in Loaders :
             loader'[k] = loader[k] \/ loader'[k] = [Idle EXCEPT !.pc = "wait", !.model = m]
        BY <1>3 DEF Begin, WarmBase
    <3> QED
        BY <3>1, <3>2 DEF HasLock
  <2> QED
      BY <1>1, <1>3, <2>1, AroundFits
<1>4. ASSUME NEW m \in WarmModels, StartServing(m) PROVE FitKept'
  <2>1. \A k \in Loaders :
            /\ loader'[k].pc = loader[k].pc
            /\ loader'[k].model = loader[k].model /\ loader'[k].seen = loader[k].seen
            /\ loader'[k].need = loader[k].need
      BY <1>4, LoadersKnown DEF StartServing, LoaderRecord
  <2> QED
      BY <1>1, <1>4, <2>1, AroundFits DEF StartServing
<1>5. ASSUME NEW m \in WarmModels, ManualUnload(m) PROVE FitKept'
  <2>1. \A k \in Loaders :
            /\ loader'[k].pc = loader[k].pc
            /\ loader'[k].model = loader[k].model /\ loader'[k].seen = loader[k].seen
            /\ loader'[k].need = loader[k].need
      BY <1>5, LoadersKnown DEF ManualUnload, LateUnload, LoaderRecord
  <2> QED
      BY <1>1, <1>5, <2>1, AroundFits DEF ManualUnload
<1>6. ASSUME CooldownPasses PROVE FitKept'
  <2>1. \A k \in Loaders :
            /\ loader'[k].pc = loader[k].pc
            /\ loader'[k].model = loader[k].model /\ loader'[k].seen = loader[k].seen
            /\ loader'[k].need = loader[k].need
      BY <1>6, LoadersKnown DEF CooldownPasses, LoaderRecord
  <2> QED
      BY <1>1, <1>6, <2>1, AroundFits DEF CooldownPasses
<1>7. ASSUME loader' = loader, gpu' = gpu, polled' \in {polled, gpu} PROVE FitKept'
    BY <1>1, <1>7, AroundFits
<1>8. \A m \in WarmModels : StopServing(m) \/ RouteReserves(m) \/ DropReservation(m) =>
          loader' = loader /\ gpu' = gpu /\ polled' = polled
    BY DEF StopServing, RouteReserves, DropReservation
<1>9. PollNode => loader' = loader /\ gpu' = gpu /\ polled' = gpu
    BY DEF PollNode, PollAs
<1>10. \A l \in Loaders, m \in WarmModels :
          (l = Pinger /\ PingWarmup(m)) \/ ScheduledWarmup(l, m) \/ Predict(l, m) =>
              Begin(l, m) /\ gpu' = gpu /\ polled' = polled
    BY DEF PingWarmup, ScheduledWarmup, Predict
<1>11. Pinger \in Loaders /\ Others \subseteq Loaders
    BY DEF Loaders
<1> QED
    BY <1>2, <1>3, <1>4, <1>5, <1>6, <1>7, <1>8, <1>9, <1>10, <1>11 DEF WarmNext
LEMMA WarmMoves == ASSUME WarmInv, [WarmNext]_warmVars PROVE WarmInv'
<1>1. CASE WarmNext
    BY <1>1, BaseMoves, FitMoves DEF WarmInv
<1>2. CASE UNCHANGED warmVars
  <2>1. WarmBase'
      BY <1>2 DEF WarmInv, WarmBase, WarmSets, RushesGood, LoaderGood, PassGood, warmVars
  <2>2. FitKept'
    <3>1. /\ gpu' = gpu /\ polled' = polled /\ reserved' = reserved /\ loader' = loader
          /\ disturbed' = disturbed
        BY <1>2 DEF warmVars
    <3>2. Loading' = Loading
        BY <3>1 DEF Loading
    <3>3. Exposed' = Exposed /\ LoadsFit' = LoadsFit
        BY <3>1, <3>2 DEF Exposed, LoadsFit
    <3>4. \A l \in Loaders : CoversRest(l)' = CoversRest(l)
      <4>1. \A l \in Loaders : Unseen(l)' = Unseen(l)
          BY <3>1 DEF Unseen
      <4> QED
          BY <3>1, <4>1 DEF CoversRest
    <3> QED
        BY <3>1, <3>3, <3>4 DEF WarmInv, FitKept
  <2> QED
      BY <2>1, <2>2 DEF WarmInv
<1> QED
    BY <1>1, <1>2

LEMMA WarmShown == ASSUME WarmInv PROVE WarmTypeOK /\ ReservedLoadsFit /\ OnePassPerCooldown
<1>1. WarmTypeOK
    BY DEF WarmInv, WarmBase, WarmSets, WarmTypeOK, LoaderRecord
<1>2. ReservedLoadsFit /\ OnePassPerCooldown
    BY DEF WarmInv, WarmBase, FitKept, ReservedLoadsFit, RushesGood, OnePassPerCooldown
<1> QED
    BY <1>1, <1>2

\* What a step may never do, from the marks of the late requests.
LEMMA WarmStepsSafe ==
    ASSUME WarmInv
    PROVE /\ \A l \in Loaders : loader[l].pc = "unload" /\ gpu' /= gpu /\ loader'[l] /= loader[l]
               => (loader[l].victim \in serving => loader[l].late)
          /\ \A l \in Loaders : loader[l].pc = "wait" /\ loader'[l].pc = "look"
               => (loader[l].model \in suppressed => loader[l].late)
BY DEF WarmInv, WarmBase, LoaderGood

\* The loads of a node fit and one pass unloads per cooldown.
THEOREM WarmKept == WarmSpec => [](WarmTypeOK /\ ReservedLoadsFit /\ OnePassPerCooldown)
<1>1. WarmInit => WarmInv
    BY WarmInitially
<1>2. WarmInv /\ [WarmNext]_warmVars => WarmInv'
    BY WarmMoves
<1>3. WarmInv => WarmTypeOK /\ ReservedLoadsFit /\ OnePassPerCooldown
    BY WarmShown
<1> QED
    BY <1>1, <1>2, <1>3, PTL DEF WarmSpec

\* No step unloads a model that serves, or loads one that is suppressed, but late
\* (evictForHeadroom, runWarmup).
THEOREM WarmSafe == WarmSpec => ServingKept /\ SuppressedStaysCold
<1>1. WarmInit => WarmInv
    BY WarmInitially
<1>2. WarmInv /\ [WarmNext]_warmVars => WarmInv'
    BY WarmMoves
<1>3. WarmInv /\ [WarmNext]_warmVars =>
        /\ [\A l \in Loaders : loader[l].pc = "unload" /\ gpu' /= gpu /\ loader'[l] /= loader[l]
               => (loader[l].victim \in serving => loader[l].late)]_warmVars
        /\ [\A l \in Loaders : loader[l].pc = "wait" /\ loader'[l].pc = "look"
               => (loader[l].model \in suppressed => loader[l].late)]_warmVars
    BY WarmStepsSafe
<1> QED
    BY <1>1, <1>2, <1>3, PTL DEF WarmSpec, ServingKept, SuppressedStaysCold

-----------------------------------------------------------------------------
(* What a trimming drops. *)

StampedBook ==
    /\ book.at \in [Entries -> Nat] /\ book.keys = Entries /\ Entries \in SUBSET BookModels
    /\ book.count = Cardinality(Entries) /\ book.count <= MaxTracked
    /\ stamp \in 1..MaxStamp

LEMMA BeforeOrders ==
    ASSUME StampedBook, NEW shown
    PROVE /\ \A m \in Entries : ~Before(m, m, shown)
          /\ \A m, n, o \in Entries :
                Before(m, n, shown) /\ Before(n, o, shown) => Before(m, o, shown)
<1>1. \A m \in Entries : Keep(m, shown) \in Nat /\ book.at[m] \in Nat
    BY DEF Keep, StampedBook
<1> HIDE DEF Entries
<1> QED
    BY <1>1 DEF Before

\* Of a finite set of entries one is dropped last.
LEMMA LastDropped ==
    ASSUME StampedBook, NEW shown, NEW D \in SUBSET Entries, D # {}
    PROVE \E x \in D : \A m \in D : ~Before(x, m, shown)
<1> DEFINE Up(x) == {y \in D : Before(x, y, shown)}
           F == {Up(x) : x \in D}
<1>1. IsFiniteSet(D)
    BY BookAssumption, FS_Subset DEF StampedBook
<1>2. F \subseteq SUBSET D /\ F # {}
    OBVIOUS
<1>3. PICK U \in F : \A Y \in F : Y \subseteq U => Y = U
  <2> HIDE DEF F
  <2> QED
      BY <1>1, <1>2, SmallestSet
<1>4. PICK x \in D : U = Up(x)
    BY <1>3
<1>5. ASSUME NEW y \in Up(x) PROVE FALSE
  <2>1. Before(x, y, shown) /\ y \in D /\ ~Before(y, y, shown)
      BY <1>5, BeforeOrders
  <2>2. Up(y) \subseteq Up(x)
      BY <2>1, BeforeOrders
  <2>3. y \in Up(x) /\ y \notin Up(y) /\ Up(y) \in F
      BY <2>1
  <2> HIDE DEF F, Up
  <2> QED
      BY <1>3, <1>4, <2>2, <2>3
<1> QED
    BY <1>5

Droppable(d, S, k, shown) ==
    /\ Cardinality(d) = k
    /\ \A m \in d, n \in S \ d : ~Before(n, m, shown)

\* There is always a batch of any size to drop.
LEMMA SomeDroppable ==
    ASSUME StampedBook, NEW shown, NEW S \in SUBSET Entries, NEW k \in 0 .. Cardinality(S)
    PROVE \E d \in SUBSET S : Droppable(d, S, k, shown)
<1> DEFINE F == {d \in SUBSET S : /\ k <= Cardinality(d)
                                  /\ \A m \in d, n \in S \ d : ~Before(n, m, shown)}
<1>1. IsFiniteSet(S) /\ Cardinality(S) \in Nat
    BY BookAssumption, FS_Subset, FS_CardinalityType DEF StampedBook
<1>2. S \in F /\ F \subseteq SUBSET S
    BY <1>1
<1>3. PICK d \in F : \A Y \in F : Y \subseteq d => Y = d
  <2> HIDE DEF F
  <2> QED
      BY <1>1, <1>2, SmallestSet
<1>4. IsFiniteSet(d) /\ Cardinality(d) \in Nat /\ d \in SUBSET Entries /\ k <= Cardinality(d)
    BY <1>1, <1>3, FS_Subset, FS_CardinalityType
<1>5. CASE Cardinality(d) = k
    BY <1>3, <1>5 DEF Droppable
<1>6. CASE k < Cardinality(d)
  <2>1. d # {}
      BY <1>6, FS_EmptySet
  <2>2. PICK x \in d : \A m \in d : ~Before(x, m, shown)
      BY <1>4, <2>1, LastDropped
  <2>3. Cardinality(d \ {x}) = Cardinality(d) - 1
      BY <1>4, FS_RemoveElement
  <2>4. k <= Cardinality(d \ {x})
      BY <1>4, <1>6, <2>3
  <2>5. \A m \in d \ {x}, n \in S \ (d \ {x}) : ~Before(n, m, shown)
      BY <1>3, <2>2
  <2>6. d \ {x} \in F
      BY <1>3, <2>4, <2>5
  <2> HIDE DEF F
  <2> QED
      BY <1>3, <2>6
<1> QED
    BY <1>4, <1>5, <1>6

\* A trimming of a full book makes room and leaves map, index and counter agreed.
LEMMA TrimKeeps ==
    ASSUME StampedBook, NEW shown, NEW t, t = TrimNodeEntries(shown)
    PROVE /\ DOMAIN t.at \in SUBSET Entries /\ t.at \in [DOMAIN t.at -> Nat]
          /\ t.keys = DOMAIN t.at /\ t.count = Cardinality(t.keys)
          /\ t.count \in Nat /\ (Entries # {} => t.count < book.count)
<1> DEFINE k == IF TrimBatch < Cardinality(Entries) THEN TrimBatch ELSE Cardinality(Entries)
           drop == CHOOSE d \in SUBSET Entries : Droppable(d, Entries, k, shown)
<1>1. IsFiniteSet(Entries) /\ Cardinality(Entries) \in Nat /\ book.at \in [Entries -> Nat]
    BY BookAssumption, FS_Subset, FS_CardinalityType DEF StampedBook
<1>2. k \in 0 .. Cardinality(Entries) /\ (Entries # {} => k # 0)
    BY <1>1, BookAssumption, FS_EmptySet
<1>3. t = [at |-> [m \in Entries \ drop |-> book.at[m]], keys |-> Entries \ drop,
           count |-> Cardinality(Entries \ drop)]
  <2>1. book.keys \cap Entries = Entries
      BY DEF StampedBook
  <2> QED
      BY <2>1 DEF TrimNodeEntries, Droppable
<1> HIDE DEF k
<1>4. drop \in SUBSET Entries /\ Droppable(drop, Entries, k, shown)
    BY <1>1, <1>2, SomeDroppable
<1> HIDE DEF drop
<1>5. DOMAIN [m \in Entries \ drop |-> book.at[m]] = Entries \ drop
    OBVIOUS
<1>6. [m \in Entries \ drop |-> book.at[m]] \in [Entries \ drop -> Nat]
    BY <1>1
<1>7. /\ IsFiniteSet(Entries \ drop) /\ Cardinality(Entries \ drop) \in Nat
      /\ Cardinality(Entries \ drop) = Cardinality(Entries) - Cardinality(Entries \cap drop)
    BY <1>1, FS_Difference, FS_CardinalityType
<1>8. Entries \cap drop = drop
    BY <1>4
<1>9. Entries # {} => Cardinality(Entries \ drop) < Cardinality(Entries)
  <2>1. Cardinality(Entries \cap drop) = k
      BY <1>4, <1>8 DEF Droppable
  <2> HIDE DEF Entries
  <2> QED
      BY <1>1, <1>2, <1>7, <2>1
<1> QED
    BY <1>3, <1>4, <1>5, <1>6, <1>7, <1>9 DEF StampedBook
\* A stamped entry.
LEMMA StampKeeps ==
    ASSUME StampedBook, NEW shown, NEW m \in BookModels, NEW s, s = Stamp(m, shown)
    PROVE /\ s.at \in [DOMAIN s.at -> Nat] /\ DOMAIN s.at \in SUBSET BookModels
          /\ s.keys = DOMAIN s.at /\ s.count = Cardinality(DOMAIN s.at)
          /\ s.count <= MaxTracked
<1> DEFINE old == IF FullFor(m) THEN TrimNodeEntries(shown) ELSE book
<1>0. /\ Entries \in SUBSET BookModels /\ IsFiniteSet(Entries) /\ Cardinality(Entries) \in Nat
      /\ book.count = Cardinality(Entries) /\ book.keys = Entries /\ MaxTracked \in Nat \ {0}
      /\ book.count <= MaxTracked
    BY BookAssumption, FS_Subset, FS_CardinalityType DEF StampedBook
<1>1. /\ DOMAIN old.at \in SUBSET Entries /\ old.at \in [DOMAIN old.at -> Nat]
      /\ old.keys = DOMAIN old.at /\ old.count = Cardinality(old.keys) /\ old.count \in Nat
      /\ m \notin Entries => old.count < MaxTracked
      /\ m \in Entries => old.at = book.at /\ old.count <= MaxTracked
  <2>1. CASE FullFor(m)
    <3>1. m \notin Entries /\ book.count >= MaxTracked
        BY <2>1 DEF FullFor
    <3>2. Entries # {}
        BY <1>0, <3>1, FS_EmptySet
    <3>3. old = TrimNodeEntries(shown)
        BY <2>1
    <3>4. /\ DOMAIN old.at \in SUBSET Entries /\ old.at \in [DOMAIN old.at -> Nat]
          /\ old.keys = DOMAIN old.at /\ old.count = Cardinality(old.keys)
          /\ old.count \in Nat /\ (Entries # {} => old.count < book.count)
      <4> HIDE DEF old
      <4> QED
          BY <3>3, TrimKeeps
    <3>5. old.count < MaxTracked
        BY <1>0, <3>2, <3>4
    <3> QED
        BY <3>1, <3>4, <3>5
  <2>2. CASE ~FullFor(m)
    <3>1. old = book /\ DOMAIN book.at = Entries
        BY <2>2 DEF Entries
    <3>2. m \notin Entries => book.count < MaxTracked
        BY <1>0, <2>2 DEF FullFor
    <3>3. book.at \in [Entries -> Nat]
        BY DEF StampedBook
    <3> QED
        BY <1>0, <3>1, <3>2, <3>3
  <2> QED
      BY <2>1, <2>2
<1>2. s = [at |-> [n \in DOMAIN old.at \cup {m} |-> IF n = m THEN stamp ELSE old.at[n]],
           keys |-> old.keys \cup {m},
           count |-> IF m \in Entries THEN old.count ELSE old.count + 1]
    BY DEF Stamp
<1> HIDE DEF old
<1>3. /\ DOMAIN s.at = DOMAIN old.at \cup {m} /\ s.keys = DOMAIN old.at \cup {m}
      /\ s.at \in [DOMAIN old.at \cup {m} -> Nat]
    BY <1>1, <1>2 DEF StampedBook
<1>4. IsFiniteSet(DOMAIN old.at)
    BY <1>0, <1>1, FS_Subset
<1>5. s.count = Cardinality(DOMAIN old.at \cup {m}) /\ s.count <= MaxTracked
  <2>1. CASE m \in Entries
    <3>1. DOMAIN old.at = Entries
        BY <1>1, <2>1 DEF Entries
    <3>2. DOMAIN old.at \cup {m} = DOMAIN old.at /\ s.count = old.count
        BY <1>2, <2>1, <3>1
    <3> QED
        BY <1>1, <2>1, <3>2
  <2>2. CASE m \notin Entries
    <3>1. m \notin DOMAIN old.at /\ s.count = old.count + 1
        BY <1>1, <1>2, <2>2
    <3>2. Cardinality(DOMAIN old.at \cup {m}) = Cardinality(DOMAIN old.at) + 1
        BY <1>4, <3>1, FS_AddElement
    <3>3. old.count = Cardinality(DOMAIN old.at) /\ old.count < MaxTracked
        BY <1>1, <2>2
    <3> QED
        BY <1>0, <1>1, <3>1, <3>2, <3>3
  <2> QED
      BY <2>1, <2>2
<1> QED
    BY <1>0, <1>1, <1>3, <1>5

-----------------------------------------------------------------------------
(* The books. *)

Recordings == [at : {"idle", "stamp", "gather", "again", "check", "undo"},
               model : BookModels \cup {""}, loaded : SUBSET BookModels]

\* A removed node's entry is one some recording has still to look back at.
LastUndone ==
    ~pooled /\ lifecycle = "free" /\ Entries # {} =>
        \E r \in Recorders : rec[r].at \in {"check", "undo"}
BookInv ==
    /\ pooled \in BOOLEAN /\ lifecycle \in {"free", "remove"}
    /\ lifecycle = "remove" => ~pooled
    /\ loadedNow \subseteq BookModels
    /\ rec \in [Recorders -> Recordings]
    /\ \A r \in Recorders : rec[r].at \in {"stamp", "gather", "again"} => rec[r].model \in BookModels
    /\ StampedBook /\ LastUndone

LEMMA EmptyStamped ==
    ASSUME NEW b, b = EmptyBook
    PROVE /\ DOMAIN b.at = {} /\ b.at \in [{} -> Nat] /\ b.keys = {} /\ b.count = Cardinality({})
          /\ b.count <= MaxTracked
<1>1. DOMAIN b.at = {} /\ b.at \in [{} -> Nat] /\ b.keys = {} /\ b.count = 0
    BY DEF EmptyBook
<1> QED
    BY <1>1, FS_EmptySet, BookAssumption

LEMMA BookInitially == ASSUME BookInit PROVE BookInv
<1>1. StampedBook /\ Entries = {}
  <2>1. book = EmptyBook /\ stamp = 1
      BY DEF BookInit
  <2>2. Entries = {} /\ book.at \in [{} -> Nat] /\ book.keys = {} /\ book.count = Cardinality({})
        /\ book.count <= MaxTracked
      BY <2>1, EmptyStamped DEF Entries
  <2>3. stamp \in 1..MaxStamp
      BY <2>1, BookAssumption
  <2> QED
      BY <2>2, <2>3 DEF StampedBook
<1>2. rec \in [Recorders -> Recordings] /\ \A r \in Recorders : rec[r].at = "idle"
    BY DEF BookInit, NoStamping, Recordings
<1> QED
    BY <1>1, <1>2 DEF BookInit, BookInv, LastUndone

LEMMA BookMoves == ASSUME BookInv, [BookNext]_bookVars PROVE BookInv'
<1> USE DEF BookInv
<1>1. ASSUME NEW r \in Recorders, NEW m \in BookModels, Record(r, m) PROVE BookInv'
  <2> DEFINE s == [at |-> "stamp", model |-> m, loaded |-> {}]
  <2>1. rec' = [rec EXCEPT ![r] = s] /\ s \in Recordings /\ s.at = "stamp" /\ s.model = m
      BY <1>1 DEF Record, Recordings
  <2>2. UNCHANGED <<pooled, lifecycle, loadedNow, which, book, stamp>> /\ pooled
      BY <1>1 DEF Record
  <2> HIDE DEF s
  <2>3. StampedBook' /\ LastUndone'
      BY <2>2 DEF StampedBook, Entries, LastUndone
  <2>4. rec' \in [Recorders -> Recordings]
      BY <2>1
  <2>5. \A k \in Recorders : rec'[k].at \in {"stamp", "gather", "again"} => rec'[k].model \in BookModels
      BY <2>1
  <2> QED
      BY <2>2, <2>3, <2>4, <2>5
<1>2. ASSUME NEW r \in Recorders, TryStamp(r) PROVE BookInv'
  <2>1. /\ UNCHANGED <<pooled, lifecycle, loadedNow, which, stamp>>
        /\ rec[r].at \in {"stamp", "again"} /\ rec[r].model \in BookModels /\ rec[r] \in Recordings
      BY <1>2 DEF TryStamp
  <2>2. CASE rec' = [rec EXCEPT ![r].at = "gather"] /\ UNCHANGED book
    <3>1. rec' \in [Recorders -> Recordings]
        BY <2>1, <2>2 DEF Recordings
    <3>2. \A k \in Recorders : /\ rec'[k].model = rec[k].model
                               /\ rec'[k].at = rec[k].at \/ k = r
        BY <2>1, <2>2 DEF Recordings
    <3>3. StampedBook' /\ Entries' = Entries
        BY <2>1, <2>2 DEF StampedBook, Entries
    <3>4. LastUndone'
        BY <2>1, <3>2, <3>3 DEF LastUndone
    <3> QED
        BY <2>1, <3>1, <3>2, <3>3, <3>4
  <2>3. CASE book' = Stamp(rec[r].model, rec[r].loaded) /\ rec' = [rec EXCEPT ![r].at = "check"]
    <3>1. rec' \in [Recorders -> Recordings] /\ rec'[r].at = "check"
        BY <2>1, <2>3 DEF Recordings
    <3>2. \A k \in Recorders : /\ rec'[k].model = rec[k].model
                               /\ rec'[k].at = rec[k].at \/ k = r
        BY <2>1, <2>3 DEF Recordings
    <3>3. StampedBook'
        BY <2>1, <2>3, StampKeeps DEF StampedBook, Entries
    <3>4. LastUndone'
        BY <3>1 DEF LastUndone
    <3> QED
        BY <2>1, <3>1, <3>2, <3>3, <3>4
  <2> QED
      BY <1>2, <2>2, <2>3 DEF TryStamp
<1>3. ASSUME NEW r \in Recorders, LoadedModelSet(r) PROVE BookInv'
  <2> DEFINE s == [rec[r] EXCEPT !.at = "again", !.loaded = IF pooled THEN loadedNow ELSE {}]
  <2>1. /\ UNCHANGED <<pooled, lifecycle, loadedNow, which, book, stamp>>
        /\ rec[r].at = "gather" /\ rec[r].model \in BookModels /\ rec[r] \in Recordings
        /\ rec' = [rec EXCEPT ![r] = s]
      BY <1>3 DEF LoadedModelSet
  <2>2. s \in Recordings /\ s.at = "again" /\ s.model = rec[r].model
      BY <2>1 DEF Recordings
  <2> HIDE DEF s
  <2>3. rec' \in [Recorders -> Recordings] /\ \A k \in Recorders : rec'[k] = IF k = r THEN s ELSE rec[k]
      BY <2>1, <2>2
  <2>4. StampedBook' /\ Entries' = Entries
      BY <2>1 DEF StampedBook, Entries
  <2>5. LastUndone'
      BY <2>1, <2>3, <2>4 DEF LastUndone
  <2> QED
      BY <2>1, <2>2, <2>3, <2>4, <2>5
<1>4. ASSUME NEW r \in Recorders, LookForNode(r) PROVE BookInv'
  <2> DEFINE s == IF pooled THEN NoStamping ELSE [rec[r] EXCEPT !.at = "undo"]
  <2>1. /\ UNCHANGED <<pooled, lifecycle, loadedNow, which, book, stamp>>
        /\ rec[r].at = "check" /\ rec[r] \in Recordings /\ rec' = [rec EXCEPT ![r] = s]
      BY <1>4 DEF LookForNode
  <2>2. s \in Recordings /\ s.at \in {"idle", "undo"} /\ (pooled \/ s.at = "undo")
      BY <2>1 DEF Recordings, NoStamping
  <2> HIDE DEF s
  <2>3. rec' \in [Recorders -> Recordings] /\ \A k \in Recorders : rec'[k] = IF k = r THEN s ELSE rec[k]
      BY <2>1, <2>2
  <2>4. StampedBook' /\ Entries' = Entries
      BY <2>1 DEF StampedBook, Entries
  <2>5. LastUndone'
      BY <2>1, <2>2, <2>3, <2>4 DEF LastUndone
  <2> QED
      BY <2>1, <2>2, <2>3, <2>4, <2>5
<1>5. ASSUME NEW r \in Recorders, UndoIfNodeRemoved(r) PROVE BookInv'
  <2>1. /\ UNCHANGED <<pooled, lifecycle, loadedNow, which, stamp>>
        /\ rec[r].at = "undo" /\ lifecycle = "free" /\ rec' = [rec EXCEPT ![r] = NoStamping]
        /\ book' = IF pooled THEN book ELSE EmptyBook
      BY <1>5 DEF UndoIfNodeRemoved
  <2>2. NoStamping \in Recordings /\ NoStamping.at = "idle"
      BY DEF NoStamping, Recordings
  <2>3. rec' \in [Recorders -> Recordings]
        /\ \A k \in Recorders : rec'[k] = IF k = r THEN NoStamping ELSE rec[k]
      BY <2>1, <2>2
  <2>4. StampedBook' /\ (pooled \/ Entries' = {})
    <3>1. CASE pooled
        BY <2>1, <3>1 DEF StampedBook, Entries
    <3>2. CASE ~pooled
        BY <2>1, <3>2, EmptyStamped DEF StampedBook, Entries
    <3> QED
        BY <3>1, <3>2
  <2>5. LastUndone'
      BY <2>1, <2>4 DEF LastUndone
  <2> QED
      BY <2>1, <2>2, <2>3, <2>4, <2>5
<1>6. ASSUME RemoveBookNode PROVE BookInv'
    BY <1>6 DEF RemoveBookNode, StampedBook, Entries, LastUndone
<1>7. ASSUME ForgetNode PROVE BookInv'
  <2>1. UNCHANGED <<pooled, rec, stamp>> /\ lifecycle' = "free" /\ loadedNow' = {}
        /\ book' = EmptyBook
      BY <1>7 DEF ForgetNode
  <2>2. StampedBook' /\ Entries' = {}
      BY <2>1, EmptyStamped DEF StampedBook, Entries
  <2> QED
      BY <2>1, <2>2 DEF LastUndone
<1>8. ASSUME AddBookNode \/ PollLoaded PROVE BookInv'
  <2>1. /\ UNCHANGED <<lifecycle, book, rec>> /\ pooled' = TRUE /\ stamp' = stamp + 1
        /\ stamp < MaxStamp /\ loadedNow' \subseteq BookModels /\ lifecycle = "free"
      BY <1>8 DEF AddBookNode, PollLoaded
  <2>2. StampedBook'
      BY <2>1, BookAssumption DEF StampedBook, Entries
  <2> QED
      BY <2>1, <2>2 DEF LastUndone
<1>9. CASE UNCHANGED bookVars
    BY <1>9 DEF bookVars, StampedBook, Entries, LastUndone
<1> QED
    BY <1>1, <1>2, <1>3, <1>4, <1>5, <1>6, <1>7, <1>8, <1>9 DEF BookNext

LEMMA BookShown == ASSUME BookInv PROVE BookTypeOK /\ BooksBalanced
<1>1. BookTypeOK
  <2>1. book.count \in Nat
      BY BookAssumption, FS_Subset, FS_CardinalityType DEF BookInv, StampedBook
  <2> QED
      BY <2>1 DEF BookInv, StampedBook, BookTypeOK
<1>2. BooksBalanced
    BY DEF BookInv, StampedBook, LastUndone, BooksBalanced
<1> QED
    BY <1>1, <1>2

\* The books of a node agree with their counters and keep within their limit.
THEOREM BooksKept == BookSpec => [](BookTypeOK /\ BooksBalanced)
<1>1. BookInit => BookInv
    BY BookInitially
<1>2. BookInv /\ [BookNext]_bookVars => BookInv'
    BY BookMoves
<1>3. BookInv => BookTypeOK /\ BooksBalanced
    BY BookShown
<1> QED
    BY <1>1, <1>2, <1>3, PTL DEF BookSpec

JobRecord ==
    [kind : Kinds, node : JobNodes \cup {""}, model : JobModels \cup {""}, verify : BOOLEAN,
     status : Statuses, cold : 0..SampleCount, warm : 0..SampleCount, passed : BOOLEAN]

PullSteps == {"download", "complete", "storeKey", "liveKey", "probe", "revoke", "dropKey",
              "outcome", "unload", "ended"}
BenchSteps == {"storeKey", "liveKey", "begin", "evict", "settle", "sample", "warmPhase", "save",
               "revoke", "dropKey", "ended"}
PullStatuses == {"downloading", "verifying", "success", "failed", "load_failed", "cancelled"}

\* An id that was never given out.
UnusedJob(j) ==
    jobs[j].kind = "none" =>
        step[j] = "none" /\ j \notin jobRows \cup fetching \cup witness.acked
\* A pull that is past its download has it; one that passed its probe was answered.
PullPath(j) ==
    jobs[j].kind = "pull" =>
        /\ jobs[j].node \in JobNodes /\ jobs[j].model \in JobModels
        /\ step[j] \in PullSteps /\ jobs[j].status \in PullStatuses
        /\ step[j] \notin {"download", "ended"} => j \in witness.fetched
        /\ jobs[j].passed => j \in witness.answered
        /\ jobs[j].status = "success" =>
              j \in witness.fetched /\ (jobs[j].verify => j \in witness.answered)
        /\ j \in witness.acked => jobs[j].status = "cancelled"
        /\ ActiveJob(j) /\ Working(j) => j \in jobRows
\* A benchmark takes its cold samples, then its warm ones.
BenchPath(j) ==
    jobs[j].kind = "bench" =>
        /\ jobs[j].node \in JobNodes /\ jobs[j].model \in JobModels
        /\ step[j] \in BenchSteps
        /\ step[j] \in {"storeKey", "liveKey", "begin"} => jobs[j].cold = 0 /\ jobs[j].warm = 0
        /\ step[j] \in {"evict", "settle"} => jobs[j].cold < SampleCount /\ jobs[j].warm = 0
        /\ step[j] = "warmPhase" => jobs[j].cold = SampleCount /\ jobs[j].warm = 0
        /\ step[j] = "sample" =>
              \/ jobs[j].cold < SampleCount /\ jobs[j].warm = 0
              \/ jobs[j].cold = SampleCount /\ jobs[j].warm < SampleCount

JobGood(j) ==
    /\ jobs[j] \in JobRecord /\ step[j] \in JobSteps
    /\ UnusedJob(j) /\ PullPath(j) /\ BenchPath(j)

\* The table lists one pull of a node and a model.
RowsUnique ==
    \A j, k \in jobRows :
        /\ jobs[j].kind = "pull" /\ jobs[k].kind = "pull"
        /\ jobs[j].node = jobs[k].node /\ jobs[j].model = jobs[k].model
        => j = k

JobSets ==
    /\ gone \subseteq JobIds /\ jobRows \subseteq JobIds
    /\ keysLive \subseteq JobIds /\ keysStored \subseteq JobIds /\ orphans \subseteq JobIds
    /\ reload \in [phase : {"idle", "read"}, read : SUBSET JobIds]
    /\ files \subseteq JobNodes \X JobModels
    /\ inMemory \subseteq JobNodes \X JobModels
    /\ fetching \subseteq JobIds /\ nodeUp \subseteq JobNodes
    /\ serverUp \in BOOLEAN
    /\ witness \in [acked : SUBSET JobIds, fetched : SUBSET JobIds, answered : SUBSET JobIds]

JobsInv ==
    /\ jobs \in [JobIds -> JobRecord] /\ step \in [JobIds -> JobSteps]
    /\ JobSets /\ RowsUnique /\ \A j \in JobIds : JobGood(j)

-----------------------------------------------------------------------------
LEMMA JobsInvHolds ==
    ASSUME JobsInv
    PROVE JobsTypeOK /\ PullOutcomeTrue
<1>1. JobsTypeOK
    BY DEF JobsInv, JobSets, JobsTypeOK, JobRecord
<1>2. PullOutcomeTrue
  <2> SUFFICES ASSUME NEW j \in JobIds, jobs[j].kind = "pull"
               PROVE  /\ jobs[j].status = "success" =>
                            j \in witness.fetched /\ (jobs[j].verify => j \in witness.answered)
                      /\ j \in witness.acked => jobs[j].status = "cancelled"
                      /\ ActiveJob(j) /\ Working(j) =>
                            ListedPull(jobRows, jobs[j].node, jobs[j].model) = {j}
      BY DEF PullOutcomeTrue
  <2>1. PullPath(j)
      BY DEF JobsInv, JobGood
  <2>2. ASSUME ActiveJob(j), Working(j)
        PROVE ListedPull(jobRows, jobs[j].node, jobs[j].model) = {j}
    <3>1. j \in jobRows
        BY <2>1, <2>2 DEF PullPath
    <3> QED
        BY <3>1 DEF JobsInv, RowsUnique, ListedPull
  <2> QED
      BY <2>1, <2>2 DEF PullPath
<1> QED
    BY <1>1, <1>2

\* What is said of a job stays true while nobody works on it.
LEMMA JobUntouched ==
    ASSUME NEW k \in JobIds, JobGood(k), jobs'[k] = jobs[k], step'[k] = step[k],
           k \in jobRows' <=> k \in jobRows, k \in fetching' => k \in fetching,
           k \in witness'.acked <=> k \in witness.acked,
           k \in witness.fetched => k \in witness'.fetched,
           k \in witness.answered => k \in witness'.answered
    PROVE JobGood(k)'
BY DEF JobGood, UnusedJob, PullPath, BenchPath, ActiveJob, Working

LEMMA RowsStayUnique ==
    ASSUME RowsUnique, jobRows \subseteq JobIds, jobRows' \subseteq jobRows,
           \A k \in JobIds : /\ jobs'[k].kind = jobs[k].kind
                             /\ jobs'[k].node = jobs[k].node
                             /\ jobs'[k].model = jobs[k].model
    PROVE RowsUnique'
BY DEF RowsUnique

LEMMA JobsInitially == ASSUME JobsInit PROVE JobsInv
<1>1. NoRecord \in JobRecord /\ SampleCount \in Nat
    BY ModelJobsAssumption DEF NoRecord, JobRecord, Kinds, Statuses
<1>2. jobs \in [JobIds -> JobRecord] /\ step \in [JobIds -> JobSteps]
    BY <1>1 DEF JobsInit, JobSteps
<1>3. JobSets /\ RowsUnique
    BY DEF JobsInit, JobSets, RowsUnique, NoReload
<1>4. \A j \in JobIds : JobGood(j)
    BY <1>2 DEF JobsInit, JobGood, UnusedJob, PullPath, BenchPath, NoRecord
<1> QED
    BY <1>2, <1>3, <1>4 DEF JobsInv

\* A step of one job: its record and its place, and what it may add to the sets.
LEMMA OneJobMoves ==
    ASSUME JobsInv, NEW j \in JobIds,
           jobs' \in [JobIds -> JobRecord], step' \in [JobIds -> JobSteps], JobSets',
           \A k \in JobIds \ {j} : jobs'[k] = jobs[k] /\ step'[k] = step[k],
           jobs'[j].kind = jobs[j].kind, jobs'[j].node = jobs[j].node,
           jobs'[j].model = jobs[j].model,
           jobRows' \in {jobRows, jobRows \ {j}},
           fetching' \subseteq fetching \cup {j},
           witness'.acked \in {witness.acked, witness.acked \cup {j}},
           witness.fetched \subseteq witness'.fetched,
           witness.answered \subseteq witness'.answered,
           JobGood(j)'
    PROVE JobsInv'
<1>1. \A k \in JobIds : /\ jobs'[k].kind = jobs[k].kind
                        /\ jobs'[k].node = jobs[k].node
                        /\ jobs'[k].model = jobs[k].model
    OBVIOUS
<1>2. RowsUnique'
    BY <1>1, RowsStayUnique DEF JobsInv, JobSets
<1>3. ASSUME NEW k \in JobIds, k # j PROVE JobGood(k)'
    BY <1>3, JobUntouched DEF JobsInv
<1> QED
    BY <1>2, <1>3 DEF JobsInv

\* A step of a goroutine that leaves the sets alone.
LEMMA GoroutineMoves ==
    ASSUME JobsInv, NEW j \in JobIds, NEW s \in JobSteps, Goto(j, s),
           jobs' \in [JobIds -> JobRecord],
           \A k \in JobIds \ {j} : jobs'[k] = jobs[k],
           jobs'[j].kind = jobs[j].kind, jobs'[j].node = jobs[j].node,
           jobs'[j].model = jobs[j].model,
           UNCHANGED <<gone, jobRows, fetching, nodeUp, serverUp, witness, keysLive,
                       keysStored, reload, orphans, files>>,
           inMemory' \subseteq JobNodes \X JobModels,
           JobGood(j)'
    PROVE JobsInv'
<1>1. step' \in [JobIds -> JobSteps] /\ \A k \in JobIds \ {j} : step'[k] = step[k]
    BY DEF JobsInv, Goto
<1>2. JobSets'
    BY DEF JobsInv, JobSets
<1> QED
    BY <1>1, <1>2, OneJobMoves

\* The record a status is written to.
LEMMA StatusWritten ==
    ASSUME JobsInv, NEW j \in JobIds, NEW s \in Statuses, jobs' = SetStatus(j, s)
    PROVE /\ jobs' \in [JobIds -> JobRecord]
          /\ \A k \in JobIds \ {j} : jobs'[k] = jobs[k]
          /\ jobs'[j] = [jobs[j] EXCEPT !.status = s]
          /\ jobs'[j].kind = jobs[j].kind /\ jobs'[j].node = jobs[j].node
          /\ jobs'[j].model = jobs[j].model /\ jobs'[j].verify = jobs[j].verify
          /\ jobs'[j].passed = jobs[j].passed
          /\ jobs'[j].cold = jobs[j].cold /\ jobs'[j].warm = jobs[j].warm
          /\ jobs'[j].status = s
<1>1. jobs \in [JobIds -> JobRecord]
    BY DEF JobsInv
<1> QED
    BY <1>1 DEF SetStatus, JobRecord

LEMMA StatusFinished ==
    ASSUME JobsInv, NEW j \in JobIds, NEW s \in Statuses, jobs' = Finish(j, s)
    PROVE /\ jobs' \in [JobIds -> JobRecord]
          /\ \A k \in JobIds \ {j} : jobs'[k] = jobs[k]
          /\ jobs'[j].kind = jobs[j].kind /\ jobs'[j].node = jobs[j].node
          /\ jobs'[j].model = jobs[j].model /\ jobs'[j].verify = jobs[j].verify
          /\ jobs'[j].passed = jobs[j].passed
          /\ jobs'[j].cold = jobs[j].cold /\ jobs'[j].warm = jobs[j].warm
          /\ jobs'[j].status = IF ActiveJob(j) THEN s ELSE jobs[j].status
<1>1. CASE ActiveJob(j)
    BY <1>1, StatusWritten DEF Finish
<1>2. CASE ~ActiveJob(j)
    BY <1>2 DEF Finish, JobsInv
<1> QED
    BY <1>1, <1>2

-----------------------------------------------------------------------------
LEMMA PullFailsWell ==
    ASSUME JobsInv, NEW j \in JobIds, Runs(j, "download"), PullFails(j), PullKeep
    PROVE JobsInv'
<1>1. "failed" \in Statuses /\ "ended" \in JobSteps
    BY DEF Statuses, JobSteps
<1>2. step'[j] = "ended" /\ jobs' = Finish(j, "failed")
    BY DEF PullFails, Goto, JobsInv
<1>3. JobGood(j) /\ step[j] = "download"
    BY DEF JobsInv, Runs
<1>4. UNCHANGED <<jobRows, fetching, keysLive, witness>>
    BY DEF PullKeep, KeepKeys, KeepNode
<1>5. /\ jobs' \in [JobIds -> JobRecord]
      /\ jobs'[j].kind = jobs[j].kind /\ jobs'[j].node = jobs[j].node
      /\ jobs'[j].model = jobs[j].model /\ jobs'[j].verify = jobs[j].verify
      /\ jobs'[j].passed = jobs[j].passed
      /\ jobs'[j].status = IF ActiveJob(j) THEN "failed" ELSE jobs[j].status
    BY <1>1, <1>2, StatusFinished
<1>6. jobs[j].kind = "pull"
    BY <1>3 DEF JobGood, UnusedJob, BenchPath, BenchSteps, JobRecord, Kinds
<1>7. PullPath(j)' /\ UnusedJob(j)' /\ BenchPath(j)'
    BY <1>2, <1>3, <1>4, <1>5, <1>6
       DEF JobGood, UnusedJob, BenchPath, PullPath, PullSteps, PullStatuses, ActiveJob, Working,
           PullJobActive, BenchPhaseActive
<1>9. JobGood(j)'
    BY <1>1, <1>2, <1>5, <1>7 DEF JobGood
<1> QED
    BY <1>1, <1>9, StatusFinished, GoroutineMoves
       DEF PullFails, PullKeep, KeepKeys, KeepNode, KeepServer, JobsInv, JobSets
LEMMA PullViaAgentKeeps ==
    ASSUME JobsInv, NEW j \in JobIds, PullViaAgent(j) \/ RunDirectPull(j)
    PROVE JobsInv'
<1>1. CASE PullFails(j)
    BY <1>1, PullFailsWell DEF PullViaAgent, RunDirectPull
<1>2. CASE j \in witness.fetched /\ Goto(j, "complete") /\ UNCHANGED jobs
  <2>1. /\ JobGood(j) /\ step[j] = "download" /\ step'[j] = "complete" /\ jobs'[j] = jobs[j]
        /\ UNCHANGED <<jobRows, fetching, keysLive, witness>>
      BY <1>2 DEF JobsInv, PullViaAgent, RunDirectPull, Runs, Goto, PullKeep, KeepKeys, KeepNode
  <2>2. jobs[j].kind = "pull"
      BY <2>1 DEF JobGood, UnusedJob, BenchPath, BenchSteps, JobRecord, Kinds
  <2>3. PullPath(j)'
      BY <1>2, <2>1, <2>2 DEF JobGood, PullPath, PullSteps, ActiveJob, Working
  <2>5. JobGood(j)'
      BY <2>1, <2>2, <2>3 DEF JobGood, UnusedJob, BenchPath, JobSteps
  <2> QED
      BY <1>2, <2>5, GoroutineMoves
         DEF PullViaAgent, RunDirectPull, PullKeep, KeepKeys, KeepNode, KeepServer, JobsInv,
             JobSets, JobSteps
<1> QED
    BY <1>1, <1>2 DEF PullViaAgent, RunDirectPull

LEMMA CompletePullKeeps ==
    ASSUME JobsInv, NEW j \in JobIds, CompletePull(j)
    PROVE JobsInv'
<1>1. /\ JobGood(j) /\ step[j] = "complete"
      /\ UNCHANGED <<jobRows, fetching, keysLive, witness>>
    BY DEF JobsInv, CompletePull, Runs, KeepKeys, KeepNode
<1>2. PICK s \in {"ended", "storeKey"} :
        /\ Goto(j, s)
        /\ \/ s = "ended" /\ ~jobs[j].verify /\ jobs' = Finish(j, "success")
           \/ s = "storeKey" /\ jobs[j].status = "downloading" /\ jobs' = SetStatus(j, "verifying")
           \/ s = "ended" /\ jobs' = jobs
    BY DEF CompletePull
<1>3. step'[j] = s
    BY <1>2 DEF Goto, JobsInv
<1>4. jobs[j].kind = "pull"
    BY <1>1 DEF JobGood, UnusedJob, BenchPath, BenchSteps, JobRecord, Kinds
<1>5. {"success", "verifying"} \subseteq Statuses /\ jobs \in [JobIds -> JobRecord]
    BY DEF Statuses, JobsInv
<1>6. /\ jobs' \in [JobIds -> JobRecord]
      /\ \A k \in JobIds \ {j} : jobs'[k] = jobs[k]
      /\ jobs'[j].kind = jobs[j].kind /\ jobs'[j].node = jobs[j].node
      /\ jobs'[j].model = jobs[j].model /\ jobs'[j].verify = jobs[j].verify
      /\ jobs'[j].passed = jobs[j].passed
      /\ \/ s = "ended" /\ jobs'[j].status = jobs[j].status
         \/ s = "ended" /\ ~jobs[j].verify /\ ActiveJob(j) /\ jobs'[j].status = "success"
         \/ s = "storeKey" /\ jobs[j].status = "downloading" /\ jobs'[j].status = "verifying"
    BY <1>2, <1>5, StatusWritten, StatusFinished
<1>7. PullPath(j)'
    BY <1>1, <1>3, <1>4, <1>6
       DEF JobGood, PullPath, PullSteps, PullStatuses, ActiveJob, Working, PullJobActive,
           BenchPhaseActive
<1>9. JobGood(j)'
    BY <1>1, <1>3, <1>4, <1>6, <1>7 DEF JobGood, UnusedJob, BenchPath, JobSteps
<1> QED
    BY <1>2, <1>6, <1>9, GoroutineMoves
       DEF CompletePull, KeepKeys, KeepNode, KeepServer, JobsInv, JobSets, JobSteps

LEMMA PullOutcomeKeeps ==
    ASSUME JobsInv, NEW j \in JobIds, PullOutcome(j)
    PROVE JobsInv'
<1>1. /\ JobGood(j) /\ step[j] = "outcome" /\ jobs[j].kind = "pull"
      /\ UNCHANGED <<jobRows, fetching, keysLive, witness>>
    BY DEF JobsInv, PullOutcome, Runs, KeepKeys, KeepNode
<1>2. PICK s \in {"ended", "unload"} :
        /\ Goto(j, s)
        /\ \/ s = "unload" /\ jobs[j].passed /\ jobs' = Finish(j, "success")
           \/ s = "ended" /\ jobs' = Finish(j, "load_failed")
    BY DEF PullOutcome
<1>3. step'[j] = s
    BY <1>2 DEF Goto, JobsInv
<1>4. {"success", "load_failed"} \subseteq Statuses
    BY DEF Statuses
<1>5. /\ jobs' \in [JobIds -> JobRecord]
      /\ \A k \in JobIds \ {j} : jobs'[k] = jobs[k]
      /\ jobs'[j].kind = jobs[j].kind /\ jobs'[j].node = jobs[j].node
      /\ jobs'[j].model = jobs[j].model /\ jobs'[j].verify = jobs[j].verify
      /\ jobs'[j].passed = jobs[j].passed
      /\ \/ ~ActiveJob(j) /\ jobs'[j].status = jobs[j].status
         \/ jobs[j].passed /\ ActiveJob(j) /\ jobs'[j].status = "success"
         \/ ActiveJob(j) /\ jobs'[j].status = "load_failed"
    BY <1>2, <1>4, StatusFinished
<1>6. PullPath(j)'
    BY <1>1, <1>2, <1>3, <1>5
       DEF JobGood, PullPath, PullSteps, PullStatuses, ActiveJob, Working, PullJobActive,
           BenchPhaseActive
<1>8. JobGood(j)'
    BY <1>1, <1>3, <1>5, <1>6 DEF JobGood, UnusedJob, BenchPath, JobSteps
<1> QED
    BY <1>2, <1>5, <1>8, GoroutineMoves
       DEF PullOutcome, KeepKeys, KeepNode, KeepServer, JobsInv, JobSets, JobSteps
LEMMA UnloadKeeps ==
    ASSUME JobsInv, NEW j \in JobIds, UnloadAfterVerify(j)
    PROVE JobsInv'
<1>1. /\ JobGood(j) /\ step[j] = "unload" /\ step'[j] = "ended" /\ jobs'[j] = jobs[j]
      /\ UNCHANGED <<jobRows, fetching, keysLive, witness>>
    BY DEF JobsInv, UnloadAfterVerify, Runs, Goto, KeepKeys
<1>2. jobs[j].kind = "pull"
    BY <1>1 DEF JobGood, UnusedJob, BenchPath, BenchSteps, JobRecord, Kinds
<1>3. PullPath(j)'
    BY <1>1, <1>2 DEF JobGood, PullPath, PullSteps, ActiveJob, Working
<1>5. JobGood(j)'
    BY <1>1, <1>2, <1>3 DEF JobGood, UnusedJob, BenchPath, JobSteps
<1> QED
    BY <1>5, GoroutineMoves
       DEF UnloadAfterVerify, NodeUnloads, KeepKeys, KeepServer, JobsInv, JobSets, JobSteps

LEMMA PullProbeKeeps ==
    ASSUME JobsInv, NEW j \in JobIds, PullProbe(j)
    PROVE JobsInv'
<1>1. /\ JobGood(j) /\ step[j] = "probe" /\ step'[j] = "revoke" /\ jobs[j].kind = "pull"
      /\ UNCHANGED <<jobRows, fetching, keysLive, keysStored, reload, orphans, gone, files,
                     nodeUp, serverUp>>
    BY DEF JobsInv, PullProbe, Runs, Goto, KeepKeys, KeepServer
<1>2. step' \in [JobIds -> JobSteps] /\ \A k \in JobIds \ {j} : step'[k] = step[k]
    BY DEF JobsInv, PullProbe, Goto, JobSteps
<1>3. PICK p \in BOOLEAN :
        /\ jobs' = [jobs EXCEPT ![j].passed = p]
        /\ p => witness' = [witness EXCEPT !.answered = @ \cup {j}]
        /\ ~p => witness' = witness
    BY DEF PullProbe
<1>4. /\ witness \in [acked : SUBSET JobIds, fetched : SUBSET JobIds, answered : SUBSET JobIds]
      /\ jobs \in [JobIds -> JobRecord]
    BY DEF JobsInv, JobSets
<1>5. /\ witness' \in [acked : SUBSET JobIds, fetched : SUBSET JobIds, answered : SUBSET JobIds]
      /\ witness'.acked = witness.acked /\ witness'.fetched = witness.fetched
      /\ witness.answered \subseteq witness'.answered
      /\ p => j \in witness'.answered
    BY <1>3, <1>4
<1>6. /\ jobs' \in [JobIds -> JobRecord]
      /\ \A k \in JobIds \ {j} : jobs'[k] = jobs[k]
      /\ jobs'[j].kind = jobs[j].kind /\ jobs'[j].node = jobs[j].node
      /\ jobs'[j].model = jobs[j].model /\ jobs'[j].verify = jobs[j].verify
      /\ jobs'[j].passed = p /\ jobs'[j].status = jobs[j].status
  <2> DEFINE b == [jobs[j] EXCEPT !.passed = p]
  <2>1. jobs[j] \in JobRecord
      BY <1>4
  <2>2. b \in JobRecord
      BY <2>1, <1>3 DEF JobRecord
  <2>3. b.passed = p
      BY <2>1 DEF JobRecord
  <2>4. /\ b.kind = jobs[j].kind /\ b.node = jobs[j].node /\ b.model = jobs[j].model
        /\ b.verify = jobs[j].verify /\ b.status = jobs[j].status
      BY <2>1 DEF JobRecord
  <2>5. jobs'[j] = b /\ \A k \in JobIds \ {j} : jobs'[k] = jobs[k]
      BY <1>3, <1>4
  <2>6. jobs' \in [JobIds -> JobRecord]
      BY <1>3, <1>4, <2>2
  <2> QED
      BY <2>3, <2>4, <2>5, <2>6
<1>7. inMemory' \subseteq JobNodes \X JobModels
  <2>1. jobs[j].model \in JobModels /\ nodeUp \subseteq JobNodes
        /\ inMemory \subseteq JobNodes \X JobModels
      BY <1>1 DEF JobGood, PullPath, JobsInv, JobSets
  <2>2. CASE inMemory' = inMemory
      BY <2>1, <2>2
  <2>3. CASE inMemory' # inMemory
    <3>1. PICK n \in nodeUp : inMemory' = inMemory \cup {<<n, jobs[j].model>>}
        BY <2>3 DEF PullProbe
    <3> QED
        BY <2>1, <3>1
  <2> QED
      BY <2>2, <2>3
<1>8. JobSets'
    BY <1>1, <1>5, <1>7 DEF JobsInv, JobSets
<1>9. PullPath(j)'
    BY <1>1, <1>5, <1>6
       DEF JobGood, PullPath, PullSteps, ActiveJob, Working
<1>11. JobGood(j)'
    BY <1>1, <1>2, <1>6, <1>9 DEF JobGood, UnusedJob, BenchPath, JobSteps
<1> QED
    BY <1>1, <1>2, <1>5, <1>6, <1>8, <1>11, OneJobMoves

LEMMA StoreProbeKeyKeeps ==
    ASSUME JobsInv, NEW j \in JobIds, StoreProbeKey(j)
    PROVE JobsInv'
<1>1. /\ JobGood(j) /\ step[j] = "storeKey" /\ UNCHANGED jobs
      /\ UNCHANGED <<fetching, keysLive, reload, orphans, files, inMemory, nodeUp, serverUp,
                     witness>>
    BY DEF JobsInv, StoreProbeKey, Runs, KeepNode
<1>2. PICK s \in {"liveKey", "outcome", "ended"} :
        /\ Goto(j, s)
        /\ s = "outcome" => jobs[j].kind = "pull"
        /\ s = "ended" => jobs[j].kind # "pull"
        /\ s # "ended" => jobRows' = jobRows /\ gone' = gone
        /\ s = "ended" => jobRows' = jobRows \ {j} /\ gone' = gone \cup {j}
        /\ keysStored' \in {keysStored, keysStored \cup {j}}
    BY DEF StoreProbeKey
<1>3. s \in JobSteps
    BY <1>2 DEF JobSteps
<1>4. step'[j] = s /\ step' \in [JobIds -> JobSteps]
      /\ \A k \in JobIds \ {j} : step'[k] = step[k]
    BY <1>2, <1>3 DEF JobsInv, Goto
<1>5. PullPath(j)'
    BY <1>1, <1>2, <1>4 DEF JobGood, PullPath, PullSteps, ActiveJob, Working
<1>6. BenchPath(j)'
    BY <1>1, <1>2, <1>4 DEF JobGood, BenchPath, BenchSteps
<1>7. UnusedJob(j)'
    BY <1>1, <1>2, <1>4 DEF JobGood, UnusedJob
<1>8. JobGood(j)'
    BY <1>1, <1>3, <1>4, <1>5, <1>6, <1>7 DEF JobGood
<1>9. JobSets' /\ jobRows' \in {jobRows, jobRows \ {j}}
    BY <1>1, <1>2 DEF JobsInv, JobSets
<1>10. jobs' \in [JobIds -> JobRecord]
    BY <1>1 DEF JobsInv
<1> QED
    BY <1>1, <1>4, <1>8, <1>9, <1>10, OneJobMoves

LEMMA LiveProbeKeyKeeps ==
    ASSUME JobsInv, NEW j \in JobIds, LiveProbeKey(j)
    PROVE JobsInv'
<1>1. /\ JobGood(j) /\ step[j] = "liveKey" /\ UNCHANGED jobs
      /\ step'[j] = IF jobs[j].kind = "pull" THEN "probe" ELSE "begin"
      /\ keysLive' = keysLive \cup {j}
      /\ UNCHANGED <<fetching, keysStored, reload, orphans, files, inMemory, nodeUp, serverUp,
                     witness, jobRows, gone>>
    BY DEF JobsInv, LiveProbeKey, Runs, Goto, KeepNode, KeepServer
<1>2. step' \in [JobIds -> JobSteps] /\ \A k \in JobIds \ {j} : step'[k] = step[k]
    BY DEF JobsInv, LiveProbeKey, Goto, JobSteps
<1>3. PullPath(j)'
    BY <1>1 DEF JobGood, PullPath, PullSteps, ActiveJob, Working
<1>4. BenchPath(j)'
    BY <1>1 DEF JobGood, BenchPath, BenchSteps
<1>5. UnusedJob(j)'
    BY <1>1 DEF JobGood, UnusedJob
<1>6. JobGood(j)' /\ jobs' \in [JobIds -> JobRecord]
    BY <1>1, <1>2, <1>3, <1>4, <1>5 DEF JobGood, JobsInv
<1>7. JobSets'
    BY <1>1 DEF JobsInv, JobSets
<1> QED
    BY <1>1, <1>2, <1>6, <1>7, OneJobMoves

LEMMA ProbeKeyGoes ==
    ASSUME JobsInv, NEW j \in JobIds, RevokeProbeKey(j) \/ DropProbeKey(j)
    PROVE JobsInv'
<1>1. /\ JobGood(j) /\ UNCHANGED jobs
      /\ \/ step[j] = "revoke" /\ step'[j] = "dropKey"
         \/ step[j] = "dropKey" /\ step'[j] = IF jobs[j].kind = "pull" THEN "outcome" ELSE "ended"
      /\ keysLive' \subseteq keysLive /\ keysStored' \subseteq keysStored
      /\ orphans' \subseteq orphans \cup {j}
      /\ UNCHANGED <<fetching, reload, files, inMemory, nodeUp, serverUp, witness, jobRows, gone>>
    BY DEF JobsInv, RevokeProbeKey, DropProbeKey, Runs, Goto, KeepNode, KeepServer
<1>2. step' \in [JobIds -> JobSteps] /\ \A k \in JobIds \ {j} : step'[k] = step[k]
    BY DEF JobsInv, RevokeProbeKey, DropProbeKey, Goto, JobSteps
<1>3. PullPath(j)'
    BY <1>1 DEF JobGood, PullPath, PullSteps, ActiveJob, Working
<1>4. BenchPath(j)'
    BY <1>1 DEF JobGood, BenchPath, BenchSteps
<1>5. UnusedJob(j)'
    BY <1>1 DEF JobGood, UnusedJob
<1>6. JobGood(j)' /\ jobs' \in [JobIds -> JobRecord]
    BY <1>1, <1>2, <1>3, <1>4, <1>5 DEF JobGood, JobsInv
<1>7. JobSets'
    BY <1>1 DEF JobsInv, JobSets
<1> QED
    BY <1>1, <1>2, <1>6, <1>7, OneJobMoves
-----------------------------------------------------------------------------
LEMMA BenchMoves ==
    ASSUME JobsInv, NEW j \in JobIds, NEW s \in BenchSteps, Goto(j, s),
           jobs[j].kind = "bench",
           jobs' \in [JobIds -> JobRecord],
           \A k \in JobIds \ {j} : jobs'[k] = jobs[k],
           jobs'[j].kind = "bench", jobs'[j].node = jobs[j].node,
           jobs'[j].model = jobs[j].model,
           UNCHANGED <<gone, jobRows, fetching, nodeUp, serverUp, witness, keysLive,
                       keysStored, reload, orphans, files>>,
           inMemory' \subseteq JobNodes \X JobModels,
           BenchPath(j)'
    PROVE JobsInv'
<1>1. step'[j] = s /\ s \in JobSteps
    BY DEF Goto, JobsInv, BenchSteps, JobSteps
<1>2. JobGood(j)'
    BY <1>1 DEF JobGood, UnusedJob, PullPath
<1> QED
    BY <1>1, <1>2, GoroutineMoves

\* Where a benchmark's goroutine stands, it is the benchmark's.
LEMMA AtBenchStep ==
    ASSUME JobsInv, NEW j \in JobIds,
           step[j] \in {"begin", "evict", "settle", "sample", "warmPhase", "save"}
    PROVE /\ jobs[j].kind = "bench" /\ BenchPath(j) /\ jobs[j] \in JobRecord
          /\ jobs[j].node \in JobNodes /\ jobs[j].model \in JobModels
          /\ SampleCount \in Nat \ {0}
<1>1. JobGood(j)
    BY DEF JobsInv
<1>2. jobs[j].kind = "bench"
    BY <1>1 DEF JobGood, UnusedJob, PullPath, PullSteps, JobRecord, Kinds
<1> QED
    BY <1>1, <1>2, ModelJobsAssumption DEF JobGood, BenchPath

LEMMA BenchBeginKeeps ==
    ASSUME JobsInv, NEW j \in JobIds, BenchBegin(j)
    PROVE JobsInv'
<1>1. /\ step[j] = "begin" /\ step'[j] = "evict" /\ Goto(j, "evict")
      /\ jobs' = SetStatus(j, "evicting")
      /\ UNCHANGED <<gone, jobRows, fetching, nodeUp, serverUp, witness, keysLive,
                     keysStored, reload, orphans, files, inMemory>>
    BY DEF JobsInv, BenchBegin, SetPhase, Runs, Goto, BenchKeep, KeepKeys, KeepServer
<1>2. "evicting" \in Statuses /\ "evict" \in BenchSteps
    BY DEF Statuses, BenchSteps
<1>3. /\ jobs' \in [JobIds -> JobRecord]
      /\ \A k \in JobIds \ {j} : jobs'[k] = jobs[k]
      /\ jobs'[j].kind = jobs[j].kind /\ jobs'[j].node = jobs[j].node
      /\ jobs'[j].model = jobs[j].model
      /\ jobs'[j].cold = jobs[j].cold /\ jobs'[j].warm = jobs[j].warm
    BY <1>1, <1>2, StatusWritten
<1>4. BenchPath(j)'
    BY <1>1, <1>2, <1>3, AtBenchStep DEF BenchPath, BenchSteps
<1> QED
    BY <1>1, <1>2, <1>3, <1>4, AtBenchStep, BenchMoves DEF JobsInv, JobSets

LEMMA BenchEvictKeeps ==
    ASSUME JobsInv, NEW j \in JobIds, BenchEvict(j)
    PROVE JobsInv'
<1>1. /\ step[j] = "evict"
      /\ UNCHANGED <<gone, jobRows, fetching, nodeUp, serverUp, witness, keysLive,
                     keysStored, reload, orphans, files>>
      /\ inMemory' \subseteq JobNodes \X JobModels
    BY DEF JobsInv, JobSets, BenchEvict, Runs, BenchKeep, KeepKeys, KeepServer
<1>2. "error" \in Statuses /\ {"settle", "revoke"} \subseteq BenchSteps
    BY DEF Statuses, BenchSteps
<1>3. PICK s \in {"settle", "revoke"} :
        Goto(j, s) /\ (s = "settle" => jobs' = jobs) /\ (s = "revoke" => jobs' = Finish(j, "error"))
    BY DEF BenchEvict
<1>4. step'[j] = s /\ jobs \in [JobIds -> JobRecord]
    BY <1>3 DEF JobsInv, Goto
<1>5. /\ jobs' \in [JobIds -> JobRecord]
      /\ \A k \in JobIds \ {j} : jobs'[k] = jobs[k]
      /\ jobs'[j].kind = jobs[j].kind /\ jobs'[j].node = jobs[j].node
      /\ jobs'[j].model = jobs[j].model
      /\ jobs'[j].cold = jobs[j].cold /\ jobs'[j].warm = jobs[j].warm
    BY <1>2, <1>3, <1>4, StatusFinished
<1>6. BenchPath(j)'
    BY <1>1, <1>2, <1>4, <1>5, AtBenchStep DEF BenchPath, BenchSteps
<1> QED
    BY <1>1, <1>2, <1>3, <1>5, <1>6, AtBenchStep, BenchMoves

LEMMA BenchSettleKeeps ==
    ASSUME JobsInv, NEW j \in JobIds, BenchSettle(j)
    PROVE JobsInv'
<1>1. /\ step[j] = "settle"
      /\ UNCHANGED <<gone, jobRows, fetching, nodeUp, serverUp, witness, keysLive,
                     keysStored, reload, orphans, files, inMemory>>
    BY DEF BenchSettle, Runs, BenchKeep, KeepKeys, KeepServer
<1>2. "cold" \in Statuses /\ {"sample", "revoke"} \subseteq BenchSteps
    BY DEF Statuses, BenchSteps
<1>3. PICK s \in {"sample", "revoke"} :
        Goto(j, s) /\ (jobs' = jobs \/ jobs' = SetStatus(j, "cold"))
    BY DEF BenchSettle, SetPhase
<1>4. step'[j] = s /\ jobs \in [JobIds -> JobRecord]
    BY <1>3 DEF JobsInv, Goto
<1>5. /\ jobs' \in [JobIds -> JobRecord]
      /\ \A k \in JobIds \ {j} : jobs'[k] = jobs[k]
      /\ jobs'[j].kind = jobs[j].kind /\ jobs'[j].node = jobs[j].node
      /\ jobs'[j].model = jobs[j].model
      /\ jobs'[j].cold = jobs[j].cold /\ jobs'[j].warm = jobs[j].warm
    BY <1>2, <1>3, <1>4, StatusWritten
<1>6. BenchPath(j)'
    BY <1>1, <1>2, <1>4, <1>5, AtBenchStep DEF BenchPath, BenchSteps
<1> QED
    BY <1>1, <1>2, <1>3, <1>5, <1>6, AtBenchStep, BenchMoves DEF JobsInv, JobSets

LEMMA BenchWarmPhaseKeeps ==
    ASSUME JobsInv, NEW j \in JobIds, BenchWarmPhase(j)
    PROVE JobsInv'
<1>1. /\ step[j] = "warmPhase" /\ jobs' = SetStatus(j, "warm")
      /\ UNCHANGED <<gone, jobRows, fetching, nodeUp, serverUp, witness, keysLive,
                     keysStored, reload, orphans, files, inMemory>>
    BY DEF BenchWarmPhase, SetPhase, Runs, BenchKeep, KeepKeys, KeepServer
<1>2. "warm" \in Statuses /\ {"sample", "revoke"} \subseteq BenchSteps
    BY DEF Statuses, BenchSteps
<1>3. PICK s \in {"sample", "revoke"} : Goto(j, s)
    BY DEF BenchWarmPhase
<1>4. step'[j] = s
    BY <1>3 DEF JobsInv, Goto
<1>5. /\ jobs' \in [JobIds -> JobRecord]
      /\ \A k \in JobIds \ {j} : jobs'[k] = jobs[k]
      /\ jobs'[j].kind = jobs[j].kind /\ jobs'[j].node = jobs[j].node
      /\ jobs'[j].model = jobs[j].model
      /\ jobs'[j].cold = jobs[j].cold /\ jobs'[j].warm = jobs[j].warm
    BY <1>1, <1>2, StatusWritten
<1>6. BenchPath(j)'
    BY <1>1, <1>2, <1>4, <1>5, AtBenchStep DEF BenchPath, BenchSteps
<1> QED
    BY <1>1, <1>2, <1>3, <1>5, <1>6, AtBenchStep, BenchMoves DEF JobsInv, JobSets

LEMMA BenchSaveKeeps ==
    ASSUME JobsInv, NEW j \in JobIds, BenchSave(j)
    PROVE JobsInv'
<1>1. /\ step[j] = "save" /\ Goto(j, "revoke") /\ step'[j] = "revoke"
      /\ UNCHANGED <<gone, jobRows, fetching, nodeUp, serverUp, witness, keysLive,
                     keysStored, reload, orphans, files, inMemory>>
    BY DEF JobsInv, BenchSave, Runs, Goto, KeepKeys, KeepNode
<1>2. {"done", "error"} \subseteq Statuses /\ "revoke" \in BenchSteps
    BY DEF Statuses, BenchSteps
<1>3. PICK o \in {"done", "error"} : jobs' = Finish(j, o)
    BY DEF BenchSave
<1>4. /\ jobs' \in [JobIds -> JobRecord]
      /\ \A k \in JobIds \ {j} : jobs'[k] = jobs[k]
      /\ jobs'[j].kind = jobs[j].kind /\ jobs'[j].node = jobs[j].node
      /\ jobs'[j].model = jobs[j].model
      /\ jobs'[j].cold = jobs[j].cold /\ jobs'[j].warm = jobs[j].warm
    BY <1>2, <1>3, StatusFinished
<1>5. BenchPath(j)'
    BY <1>1, <1>2, <1>4, AtBenchStep DEF BenchPath, BenchSteps
<1> QED
    BY <1>1, <1>2, <1>4, <1>5, AtBenchStep, BenchMoves DEF JobsInv, JobSets

\* A sample that was answered counts for its phase.
LEMMA SampleCounted ==
    ASSUME NEW N \in Nat, NEW c \in 0 .. N, NEW w \in 0 .. N,
           \/ c < N /\ w = 0
           \/ c = N /\ w < N
    PROVE IF c = N THEN w + 1 \in 0 .. N ELSE c + 1 \in 0 .. N
OBVIOUS

LEMMA BenchSampleKeeps ==
    ASSUME JobsInv, NEW j \in JobIds, BenchSample(j)
    PROVE JobsInv'
<1>1. /\ step[j] = "sample" /\ jobs \in [JobIds -> JobRecord]
      /\ UNCHANGED <<gone, jobRows, fetching, nodeUp, serverUp, witness, keysLive,
                     keysStored, reload, orphans, files>>
    BY DEF JobsInv, BenchSample, Runs, BenchKeep, KeepKeys, KeepServer
<1>2. /\ jobs[j].kind = "bench" /\ jobs[j] \in JobRecord
      /\ jobs[j].node \in JobNodes /\ jobs[j].model \in JobModels /\ SampleCount \in Nat
      /\ \/ jobs[j].cold < SampleCount /\ jobs[j].warm = 0
         \/ jobs[j].cold = SampleCount /\ jobs[j].warm < SampleCount
    BY <1>1, AtBenchStep DEF BenchPath
<1>3. inMemory' \subseteq JobNodes \X JobModels
    BY <1>2 DEF JobsInv, JobSets, BenchSample
<1>4. "error" \in Statuses
      /\ {"save", "warmPhase", "revoke", "sample", "evict"} \subseteq BenchSteps
    BY DEF Statuses, BenchSteps
<1>5. CASE jobs' = (IF j \in gone THEN jobs ELSE Finish(j, "error")) /\ Goto(j, "revoke")
  <2>1. /\ jobs' \in [JobIds -> JobRecord]
        /\ \A k \in JobIds \ {j} : jobs'[k] = jobs[k]
        /\ jobs'[j].kind = jobs[j].kind /\ jobs'[j].node = jobs[j].node
        /\ jobs'[j].model = jobs[j].model
      BY <1>1, <1>4, <1>5, StatusFinished
  <2>2. step'[j] = "revoke"
      BY <1>5 DEF Goto, JobsInv
  <2>3. BenchPath(j)'
      BY <1>2, <2>1, <2>2 DEF BenchPath, BenchSteps
  <2> QED
      BY <1>1, <1>2, <1>3, <1>4, <1>5, <2>1, <2>3, BenchMoves
<1> DEFINE done == IF jobs[j].cold = SampleCount
                   THEN [jobs EXCEPT ![j].warm = @ + 1]
                   ELSE [jobs EXCEPT ![j].cold = @ + 1]
           c == IF jobs[j].cold = SampleCount THEN jobs[j].cold ELSE jobs[j].cold + 1
           w == IF jobs[j].cold = SampleCount THEN jobs[j].warm + 1 ELSE jobs[j].warm
           next == IF w = SampleCount THEN "save"
                   ELSE IF w = 0 /\ c = SampleCount THEN "warmPhase"
                   ELSE IF j \in gone THEN "revoke"
                   ELSE IF w > 0 THEN "sample" ELSE "evict"
<1>6. /\ done \in [JobIds -> JobRecord]
      /\ \A k \in JobIds \ {j} : done[k] = jobs[k]
      /\ done[j].kind = jobs[j].kind /\ done[j].node = jobs[j].node
      /\ done[j].model = jobs[j].model /\ done[j].cold = c /\ done[j].warm = w
  <2> DEFINE b == [jobs[j] EXCEPT !.cold = c, !.warm = w]
  <2>1. c \in 0 .. SampleCount /\ w \in 0 .. SampleCount
      BY <1>2, SampleCounted DEF JobRecord
  <2>2. /\ b \in JobRecord /\ b.cold = c /\ b.warm = w
        /\ b.kind = jobs[j].kind /\ b.node = jobs[j].node /\ b.model = jobs[j].model
      BY <1>2, <2>1 DEF JobRecord
  <2>3. done = [jobs EXCEPT ![j] = b]
      BY <1>1, <1>2 DEF JobRecord
  <2> HIDE DEF b, done
  <2> QED
      BY <1>1, <2>2, <2>3
<1>7. CASE jobs' = done /\ Goto(j, next)
  <2>1. next \in BenchSteps
      BY <1>4
  <2>2. step'[j] = next
      BY <1>7 DEF Goto, JobsInv
  <2>3. /\ jobs'[j].kind = "bench" /\ jobs'[j].node = jobs[j].node
        /\ jobs'[j].model = jobs[j].model /\ jobs'[j].cold = c /\ jobs'[j].warm = w
      BY <1>2, <1>6, <1>7
  <2>4. c \in 0 .. SampleCount /\ w \in 0 .. SampleCount
      BY <1>2, SampleCounted DEF JobRecord
  <2>5. BenchPath(j)'
      BY <1>2, <2>1, <2>2, <2>3, <2>4 DEF BenchPath
  <2> QED
      BY <1>1, <1>2, <1>3, <1>6, <1>7, <2>1, <2>3, <2>5, BenchMoves
<1> QED
  <2>1. CASE jobs' = done
             /\ Goto(j, IF done[j].warm = SampleCount THEN "save"
                        ELSE IF done[j].warm = 0 /\ done[j].cold = SampleCount THEN "warmPhase"
                        ELSE IF j \in gone THEN "revoke"
                        ELSE IF done[j].warm > 0 THEN "sample" ELSE "evict")
    <3> HIDE DEF done
    <3> QED
        BY <1>6, <1>7, <2>1
  <2> QED
      BY <1>5, <2>1 DEF BenchSample
-----------------------------------------------------------------------------
\* What the sweeps keep, and the job a request is given.

LEMMA FreshIsFree ==
    ASSUME Free # {}
    PROVE Fresh \in JobIds /\ jobs[Fresh].kind = "none"
BY DEF Fresh, Free

LEMMA RowsSwept ==
    ASSUME JobsInv, NEW old
    PROVE Swept(old) \subseteq jobRows /\ \A k \in jobRows : ActiveJob(k) => k \in Swept(old)
BY DEF Swept

\* A job a sweep may drop is not at work, or is a benchmark.
LEMMA SweptAside ==
    ASSUME JobsInv, NEW k \in JobIds, JobGood(k), jobs'[k] = jobs[k], step'[k] = step[k],
           k \in jobRows' => k \in jobRows,
           jobs[k].kind = "pull" /\ ActiveJob(k) /\ Working(k) => k \in jobRows',
           UNCHANGED <<fetching, witness>>
    PROVE JobGood(k)'
BY DEF JobGood, UnusedJob, PullPath, BenchPath, ActiveJob, Working

\* A new job takes an id nobody used.
LEMMA NewJobTyped ==
    ASSUME NEW kind \in {"pull", "bench"}, NEW n \in JobNodes, NEW m \in JobModels,
           NEW v \in BOOLEAN, NEW b, b = NewJob(kind, n, m, v)
    PROVE /\ b \in JobRecord
          /\ b.kind = kind /\ b.node = n /\ b.model = m
          /\ ~b.passed
          /\ b.cold = 0 /\ b.warm = 0
          /\ b.status = IF kind = "pull" THEN "downloading" ELSE "evicting"
<1>1. 0 \in 0 .. SampleCount
    BY ModelJobsAssumption
<1>2. kind \in Kinds /\ (IF kind = "pull" THEN "downloading" ELSE "evicting") \in Statuses
    BY DEF Kinds, Statuses
<1>3. b \in JobRecord
    BY <1>1, <1>2 DEF NewJob, JobRecord
<1> QED
    BY <1>3 DEF NewJob

LEMMA JobAccepted ==
    ASSUME JobsInv, NEW f \in JobIds, jobs[f].kind = "none", NEW kind \in {"pull", "bench"},
           NEW n \in JobNodes, NEW m \in JobModels, NEW v \in BOOLEAN, NEW old, NEW live,
           NEW b, b = NewJob(kind, n, m, v),
           live \subseteq Swept(old),
           \A k \in Swept(old) : jobs[k].kind = "pull" /\ ActiveJob(k) => k \in live,
           kind = "pull" => ListedPull(live, n, m) = {},
           jobs' = [jobs EXCEPT ![f] = b],
           step' = [step EXCEPT ![f] = IF kind = "pull" THEN "download" ELSE "storeKey"],
           jobRows' = live \cup {f},
           UNCHANGED <<gone, keysLive, keysStored, reload, orphans, files, inMemory, fetching,
                     nodeUp, serverUp, witness>>
    PROVE JobsInv'
<1>1. jobs \in [JobIds -> JobRecord] /\ step \in [JobIds -> JobSteps]
    BY DEF JobsInv
<1>2. JobGood(f)
    BY DEF JobsInv
<1>3. f \notin jobRows \cup fetching \cup witness.acked
    BY <1>2 DEF JobGood, UnusedJob
<1>4. /\ b \in JobRecord /\ b.kind = kind /\ b.node = n /\ b.model = m /\ ~b.passed
      /\ b.cold = 0 /\ b.warm = 0
      /\ b.status = IF kind = "pull" THEN "downloading" ELSE "evicting"
    BY NewJobTyped
<1>5. /\ jobs' \in [JobIds -> JobRecord] /\ jobs'[f] = b
      /\ \A k \in JobIds \ {f} : jobs'[k] = jobs[k] /\ step'[k] = step[k]
      /\ step' \in [JobIds -> JobSteps]
      /\ step'[f] = IF kind = "pull" THEN "download" ELSE "storeKey"
    BY <1>1, <1>4 DEF JobSteps
<1>6. live \subseteq jobRows
    BY RowsSwept
<1>7. JobSets'
    BY <1>6 DEF JobsInv, JobSets
<1>8. RowsUnique'
  <2> SUFFICES ASSUME NEW j \in jobRows', NEW k \in jobRows',
                      jobs'[j].kind = "pull", jobs'[k].kind = "pull",
                      jobs'[j].node = jobs'[k].node, jobs'[j].model = jobs'[k].model
               PROVE j = k
      BY DEF RowsUnique
  <2>1. CASE j # f /\ k # f
      BY <1>5, <1>6, <2>1 DEF JobsInv, JobSets, RowsUnique
  <2>2. ASSUME NEW h \in live, kind = "pull", jobs[h].kind = "pull", jobs[h].node = n,
               jobs[h].model = m
        PROVE FALSE
      BY <2>2 DEF ListedPull
  <2>3. \A h \in live : jobs'[h] = jobs[h]
      BY <1>3, <1>5, <1>6 DEF JobsInv, JobSets
  <2> QED
      BY <1>4, <1>5, <2>1, <2>2, <2>3
<1>9. JobGood(f)'
  <2>1. UnusedJob(f)'
      BY <1>3, <1>4, <1>5 DEF UnusedJob
  <2>2. PullPath(f)'
      BY <1>3, <1>4, <1>5 DEF PullPath, PullSteps, PullStatuses
  <2>3. BenchPath(f)'
      BY <1>4, <1>5 DEF BenchPath, BenchSteps
  <2> QED
      BY <1>5, <2>1, <2>2, <2>3 DEF JobGood
<1>10. ASSUME NEW k \in JobIds, k # f PROVE JobGood(k)'
  <2>1. JobGood(k) /\ jobs'[k] = jobs[k] /\ step'[k] = step[k]
      BY <1>5, <1>10 DEF JobsInv
  <2>2. k \in jobRows' => k \in jobRows
      BY <1>6, <1>10
  <2>3. jobs[k].kind = "pull" /\ ActiveJob(k) /\ Working(k) => k \in jobRows'
      BY <2>1, RowsSwept DEF JobGood, PullPath
  <2> QED
      BY <2>1, <2>2, <2>3, SweptAside
<1> QED
    BY <1>5, <1>7, <1>8, <1>9, <1>10 DEF JobsInv

LEMMA PullAccepted ==
    ASSUME JobsInv, NEW n \in JobNodes, NEW m \in JobModels, NEW v \in BOOLEAN, NEW old,
           HandleNodePull(n, m, v, old)
    PROVE JobsInv'
<1> DEFINE live == Swept(old) \ ListedPull(Swept(old), n, m)
<1>1. ListedPull(live, n, m) = {} /\ live \subseteq Swept(old)
    BY DEF ListedPull
<1>2. \A k \in Swept(old) : jobs[k].kind = "pull" /\ ActiveJob(k) => k \in live
  <2>1. \A k \in Swept(old) : k \in JobIds /\ PullPath(k)
      BY RowsSwept DEF JobsInv, JobSets, JobGood
  <2>2. \A k \in ListedPull(Swept(old), n, m) : ~PullJobActive(jobs[k].status)
      BY DEF HandleNodePull
  <2> QED
      BY <2>1, <2>2 DEF PullPath, PullStatuses, ActiveJob, PullJobActive, BenchPhaseActive
<1>3. /\ Free # {}
      /\ jobs' = [jobs EXCEPT ![Fresh] = NewJob("pull", n, m, v)]
      /\ step' = [step EXCEPT ![Fresh] = "download"]
      /\ jobRows' = live \cup {Fresh}
      /\ UNCHANGED <<gone, keysLive, keysStored, reload, orphans, files, inMemory, fetching,
                     nodeUp, serverUp, witness>>
    BY DEF HandleNodePull, KeepKeys, KeepNode, KeepServer
<1> HIDE DEF live
<1> QED
    BY <1>1, <1>2, <1>3, FreshIsFree, JobAccepted

LEMMA BenchmarkAccepted ==
    ASSUME JobsInv, NEW n \in JobNodes, NEW m \in JobModels, NEW old,
           HandleRunBenchmark(n, m, old)
    PROVE JobsInv'
<1>1. /\ Free # {}
      /\ jobs' = [jobs EXCEPT ![Fresh] = NewJob("bench", n, m, FALSE)]
      /\ step' = [step EXCEPT ![Fresh] = "storeKey"]
      /\ jobRows' = Swept(old) \cup {Fresh}
      /\ UNCHANGED <<gone, keysLive, keysStored, reload, orphans, files, inMemory, fetching,
                     nodeUp, serverUp, witness>>
    BY DEF HandleRunBenchmark, KeepKeys, KeepNode, KeepServer
<1> QED
    BY <1>1, FreshIsFree, JobAccepted

LEMMA JobCancelled ==
    ASSUME JobsInv, NEW j \in JobIds, HandleCancel(j)
    PROVE JobsInv'
<1>1. /\ j \in jobRows /\ ActiveJob(j) /\ jobs' = SetStatus(j, "cancelled")
      /\ gone' = gone \cup {j} /\ witness' = [witness EXCEPT !.acked = @ \cup {j}]
      /\ UNCHANGED <<step, jobRows, keysLive, keysStored, reload, orphans, files, inMemory,
                     fetching, nodeUp, serverUp>>
    BY DEF HandleCancel, KeepKeys, KeepNode, KeepServer
<1>2. "cancelled" \in Statuses
    BY DEF Statuses
<1>3. /\ jobs' \in [JobIds -> JobRecord]
      /\ \A k \in JobIds \ {j} : jobs'[k] = jobs[k]
      /\ jobs'[j].kind = jobs[j].kind /\ jobs'[j].node = jobs[j].node
      /\ jobs'[j].model = jobs[j].model /\ jobs'[j].verify = jobs[j].verify
      /\ jobs'[j].passed = jobs[j].passed
      /\ jobs'[j].cold = jobs[j].cold /\ jobs'[j].warm = jobs[j].warm
      /\ jobs'[j].status = "cancelled"
    BY <1>1, <1>2, StatusWritten
<1>4. witness \in [acked : SUBSET JobIds, fetched : SUBSET JobIds, answered : SUBSET JobIds]
    BY DEF JobsInv, JobSets
<1>5. /\ witness' \in [acked : SUBSET JobIds, fetched : SUBSET JobIds, answered : SUBSET JobIds]
      /\ witness'.acked = witness.acked \cup {j} /\ witness'.fetched = witness.fetched
      /\ witness'.answered = witness.answered
    BY <1>1, <1>4
<1>6. JobSets' /\ step' \in [JobIds -> JobSteps]
    BY <1>1, <1>5 DEF JobsInv, JobSets
<1>7. JobGood(j)
    BY DEF JobsInv
<1>8. jobs[j].kind # "none"
    BY <1>1, <1>7 DEF JobGood, UnusedJob
<1>9. PullPath(j)'
    BY <1>1, <1>3, <1>5, <1>7
       DEF JobGood, PullPath, PullStatuses, ActiveJob, Working, PullJobActive, BenchPhaseActive
<1>10. BenchPath(j)' /\ UnusedJob(j)'
    BY <1>1, <1>3, <1>7, <1>8 DEF JobGood, BenchPath, UnusedJob
<1>11. JobGood(j)'
    BY <1>3, <1>6, <1>9, <1>10 DEF JobGood
<1> QED
    BY <1>1, <1>3, <1>5, <1>6, <1>11, OneJobMoves

\* The node's download of a pull.
LEMMA DownloadKeeps ==
    ASSUME JobsInv, NEW j \in JobIds,
           NodeStartsDownload(j) \/ NodeDownloads(j) \/ AgentKillsDownload(j)
    PROVE JobsInv'
<1>1. /\ JobGood(j) /\ fetching' \subseteq fetching \cup {j}
      /\ UNCHANGED <<jobs, step, gone, jobRows, keysLive, keysStored, reload, orphans, inMemory,
                     nodeUp, serverUp>>
      /\ jobs \in [JobIds -> JobRecord] /\ step \in [JobIds -> JobSteps]
    BY DEF JobsInv, NodeStartsDownload, NodeDownloads, AgentKillsDownload, KeepKeys, KeepServer
<1>2. witness \in [acked : SUBSET JobIds, fetched : SUBSET JobIds, answered : SUBSET JobIds]
    BY DEF JobsInv, JobSets
<1>3. /\ witness' \in [acked : SUBSET JobIds, fetched : SUBSET JobIds, answered : SUBSET JobIds]
      /\ witness'.acked = witness.acked /\ witness.fetched \subseteq witness'.fetched
      /\ witness'.answered = witness.answered
    BY <1>2 DEF NodeStartsDownload, NodeDownloads, AgentKillsDownload
<1>4. j \in fetching \cup fetching' => jobs[j].kind # "none"
    BY <1>1 DEF JobGood, UnusedJob, NodeStartsDownload, NodeDownloads, AgentKillsDownload, Runs
<1>5. jobs[j].kind # "none" => jobs[j].node \in JobNodes /\ jobs[j].model \in JobModels
    BY <1>1 DEF JobGood, PullPath, BenchPath, JobRecord, Kinds
<1>6. files' \subseteq JobNodes \X JobModels
    BY <1>4, <1>5 DEF JobsInv, JobSets, NodeStartsDownload, NodeDownloads, AgentKillsDownload
<1>7. JobSets'
    BY <1>1, <1>3, <1>6 DEF JobsInv, JobSets
<1>8. JobGood(j)'
    BY <1>1, <1>3, <1>4
       DEF JobGood, UnusedJob, PullPath, BenchPath, ActiveJob, Working
<1> QED
    BY <1>1, <1>3, <1>7, <1>8, OneJobMoves

\* A crash ends every goroutine and forgets the table; the next boot lets no key in.
LEMMA CrashKeeps ==
    ASSUME JobsInv, ServerCrash \/ ServerBoot
    PROVE JobsInv'
<1>1. /\ UNCHANGED <<jobs, gone, files, inMemory, fetching, nodeUp, witness>>
      /\ jobs \in [JobIds -> JobRecord]
      /\ keysLive' = {} /\ keysStored' \subseteq keysStored /\ jobRows' \subseteq jobRows
      /\ orphans' \subseteq keysStored /\ reload' \in {reload, NoReload}
      /\ serverUp' \in BOOLEAN
    BY DEF JobsInv, ServerCrash, ServerBoot, LoadStoredKeys, KeepNode
<1>2. /\ step' \in [JobIds -> JobSteps]
      /\ \A k \in JobIds : step'[k] = step[k] \/ (step'[k] = "ended" /\ step[k] # "none")
      /\ jobRows' = jobRows \/ \A k \in JobIds : ~Working(k)'
  <2>1. step \in [JobIds -> JobSteps] /\ "ended" \in JobSteps /\ "none" \in JobSteps
      BY DEF JobsInv, JobSteps
  <2>2. CASE ServerBoot
    <3>1. step' = step /\ jobRows' = jobRows
        BY <2>2 DEF ServerBoot
    <3> QED
        BY <2>1, <3>1
  <2>3. CASE ServerCrash
    <3>1. step' = [j \in JobIds |-> IF step[j] = "none" THEN "none" ELSE "ended"]
        BY <2>3 DEF ServerCrash
    <3>2. \A k \in JobIds : step'[k] = IF step[k] = "none" THEN "none" ELSE "ended"
        BY <3>1
    <3>3. \A k \in JobIds : ~Working(k)'
        BY <3>2 DEF Working
    <3>4. step' \in [JobIds -> JobSteps]
        BY <2>1, <3>1
    <3>5. \A k \in JobIds : step'[k] = step[k] \/ (step'[k] = "ended" /\ step[k] # "none")
        BY <3>2
    <3> QED
        BY <3>3, <3>4, <3>5
  <2> QED
      BY <2>2, <2>3
<1>3. JobSets'
    BY <1>1 DEF JobsInv, JobSets, NoReload
<1>4. RowsUnique'
    BY <1>1, RowsStayUnique DEF JobsInv, JobSets
<1>5. ASSUME NEW k \in JobIds PROVE JobGood(k)'
  <2>1. JobGood(k) /\ (step'[k] = step[k] \/ (step'[k] = "ended" /\ step[k] # "none"))
      BY <1>2 DEF JobsInv
  <2>2. UnusedJob(k)'
      BY <1>1, <2>1 DEF JobGood, UnusedJob
  <2>3. PullPath(k)'
      BY <1>1, <1>2, <2>1 DEF JobGood, PullPath, PullSteps, ActiveJob, Working
  <2>4. BenchPath(k)'
      BY <1>1, <2>1 DEF JobGood, BenchPath, BenchSteps
  <2> QED
      BY <1>1, <1>2, <2>1, <2>2, <2>3, <2>4 DEF JobGood
<1> QED
    BY <1>1, <1>2, <1>3, <1>4, <1>5 DEF JobsInv

\* Deletions, outages and reloads touch no job.
LEMMA NodesChange ==
    ASSUME JobsInv,
           UNCHANGED <<jobs, step, gone, jobRows, inMemory, fetching, serverUp, witness>>,
           keysLive' \subseteq JobIds, keysStored' \subseteq JobIds, orphans' \subseteq JobIds,
           reload' \in [phase : {"idle", "read"}, read : SUBSET JobIds],
           files' \subseteq files, nodeUp' \subseteq JobNodes
    PROVE JobsInv'
<1>1. JobSets' /\ RowsUnique'
    BY DEF JobsInv, JobSets, RowsUnique
<1>2. \A k \in JobIds : JobGood(k)'
    BY JobUntouched DEF JobsInv
<1> QED
    BY <1>1, <1>2 DEF JobsInv

LEMMA JobsNextKeeps ==
    ASSUME JobsInv, [JobsNext]_jobVars
    PROVE JobsInv'
<1>1. CASE UNCHANGED jobVars
    BY <1>1, NodesChange DEF jobVars, JobsInv, JobSets
<1>2. ASSUME NEW n \in JobNodes, NEW m \in JobModels, NEW v \in BOOLEAN,
             NEW old \in SUBSET jobRows,
             HandleNodePull(n, m, v, old) \/ HandleRunBenchmark(n, m, old)
      PROVE JobsInv'
    BY <1>2, PullAccepted, BenchmarkAccepted
<1>3. ASSUME NEW n \in JobNodes, NEW m \in JobModels, HandleNodeDeleteModel(n, m)
      PROVE JobsInv'
    BY <1>3, NodesChange DEF HandleNodeDeleteModel, KeepKeys, JobsInv, JobSets
<1>4. ASSUME NEW j \in JobIds, Goroutine(j) PROVE JobsInv'
    BY <1>4, PullViaAgentKeeps, CompletePullKeeps, PullProbeKeeps, PullOutcomeKeeps,
       UnloadKeeps,
       StoreProbeKeyKeeps, LiveProbeKeyKeeps, ProbeKeyGoes, BenchBeginKeeps, BenchEvictKeeps,
       BenchSettleKeeps, BenchSampleKeeps, BenchWarmPhaseKeeps, BenchSaveKeeps
       DEF Goroutine
<1>5. ASSUME NEW n \in JobNodes, DeleteOnMember(n) \/ NodeOutage(n)
      PROVE JobsInv'
    BY <1>5, NodesChange
       DEF DeleteOnMember, NodeOutage, AgentDeletes, KeepKeys, KeepServer, JobsInv, JobSets
<1>6. CASE DeleteReplies \/ ReloadReads \/ ReloadApplies
    BY <1>6, NodesChange
       DEF DeleteReplies, ReloadReads, ReloadApplies, NoReload, KeepKeys, KeepServer, KeepNode,
           JobsInv, JobSets
<1>7. ASSUME JobsNext PROVE JobsInv'
  <2>1. CASE \E j \in JobIds : HandleCancel(j) \/ Goroutine(j) \/ NodeStartsDownload(j)
                          \/ NodeDownloads(j) \/ AgentKillsDownload(j)
      BY <1>4, <2>1, JobCancelled, DownloadKeeps
  <2>2. CASE ServerCrash \/ ServerBoot
      BY <2>2, CrashKeeps
  <2>3. CASE \E n \in JobNodes, m \in JobModels :
         \/ \E v \in BOOLEAN, old \in SUBSET jobRows : HandleNodePull(n, m, v, old)
         \/ \E old \in SUBSET jobRows : HandleRunBenchmark(n, m, old)
         \/ HandleNodeDeleteModel(n, m)
      BY <1>2, <1>3, <2>3
  <2> QED
      BY <1>5, <1>6, <1>7, <2>1, <2>2, <2>3 DEF JobsNext
<1> QED
    BY <1>1, <1>7

-----------------------------------------------------------------------------
(* Probe keys beside reloads.  A row or a live key is that of a running probe, *)
(* of one that just revoked it, or an orphan; what a reload has read is a      *)
(* running probe's or, once that revoked it, an orphan.                        *)

KeyKnown(j) ==
    /\ j \in keysLive => Probing(j) \/ j \in orphans
    /\ serverUp /\ j \in keysStored => Probing(j) \/ step[j] = "dropKey" \/ j \in orphans
    /\ reload.phase = "read" /\ j \in reload.read => Probing(j) \/ j \in orphans
    /\ step[j] = "none" => j \notin keysLive \cup keysStored \cup reload.read \cup orphans

KeysInv ==
    /\ \A j \in JobIds : KeyKnown(j)
    /\ ~serverUp => keysLive = {} /\ reload = NoReload

AllJobsInv == JobsInv /\ KeysInv

LEMMA KeysInitially == ASSUME JobsInit PROVE KeysInv
BY DEF JobsInit, KeysInv, KeyKnown, NoReload

\* Keys nobody touches, of a job that stays where it is or goes on with its probe.
LEMMA KeysStay ==
    ASSUME KeysInv, UNCHANGED <<keysLive, keysStored, reload, orphans, serverUp>>,
           \A k \in JobIds : \/ step'[k] = step[k]
                             \/ /\ Probing(k) => Probing(k)'
                                /\ step[k] # "dropKey"
                                /\ step'[k] # "none"
    PROVE KeysInv'
BY DEF KeysInv, KeyKnown, Probing

LEMMA StepsAside ==
    ASSUME JobsInv, KeysInv, NEW j \in JobIds, NEW s, Goto(j, s), s # "none",
           UNCHANGED <<keysLive, keysStored, reload, orphans, serverUp>>,
           step[j] # "dropKey",
           Probing(j) => s \in {"begin", "evict", "settle", "sample", "warmPhase", "save", "revoke"}
    PROVE KeysInv'
<1>1. step'[j] = s /\ \A k \in JobIds \ {j} : step'[k] = step[k]
    BY DEF Goto, JobsInv
<1>2. Probing(j) => Probing(j)'
    BY <1>1 DEF Probing
<1> QED
    BY <1>1, <1>2, KeysStay

\* The steps of a goroutine that touch no key.
LEMMA WorkKeepsKeys ==
    ASSUME JobsInv, KeysInv, NEW j \in JobIds,
           \/ PullViaAgent(j) \/ RunDirectPull(j) \/ CompletePull(j) \/ PullProbe(j)
           \/ PullOutcome(j) \/ UnloadAfterVerify(j)
    PROVE KeysInv'
<1>1. UNCHANGED <<keysLive, keysStored, reload, orphans, serverUp>>
    BY DEF PullViaAgent, RunDirectPull, CompletePull, PullProbe, PullOutcome, UnloadAfterVerify,
           PullKeep, KeepKeys, KeepServer
<1>2. /\ step[j] \in {"download", "complete", "probe", "outcome", "unload"}
      /\ \E s \in {"complete", "ended", "storeKey", "revoke", "unload"} :
            Goto(j, s) /\ (step[j] = "probe" => s = "revoke")
    BY DEF PullViaAgent, RunDirectPull, PullFails, CompletePull, PullProbe, PullOutcome,
           UnloadAfterVerify, Runs
<1>3. PICK s \in {"complete", "ended", "storeKey", "revoke", "unload"} :
            Goto(j, s) /\ (step[j] = "probe" => s = "revoke")
    BY <1>2
<1>4. Probing(j) => s = "revoke"
    BY <1>2, <1>3 DEF Probing
<1> QED
    BY <1>1, <1>2, <1>3, <1>4, StepsAside

LEMMA BenchKeepsKeys ==
    ASSUME JobsInv, KeysInv, NEW j \in JobIds,
           \/ BenchBegin(j) \/ BenchEvict(j) \/ BenchSettle(j) \/ BenchSample(j)
           \/ BenchWarmPhase(j) \/ BenchSave(j)
    PROVE KeysInv'
<1>1. UNCHANGED <<keysLive, keysStored, reload, orphans, serverUp>>
    BY DEF BenchBegin, BenchEvict, BenchSettle, BenchSample, BenchWarmPhase, BenchSave, BenchKeep,
           KeepKeys, KeepServer
<1>2. step[j] \in {"begin", "evict", "settle", "sample", "warmPhase", "save"}
    BY DEF BenchBegin, BenchEvict, BenchSettle, BenchSample, BenchWarmPhase, BenchSave, Runs
<1>3. \E s \in {"evict", "settle", "sample", "warmPhase", "save", "revoke"} : Goto(j, s)
    BY DEF BenchBegin, BenchEvict, BenchSettle, BenchSample, BenchWarmPhase, BenchSave
<1> QED
    BY <1>1, <1>2, <1>3, StepsAside

\* The four steps of a probe's key.
LEMMA KeyStepsKeepKeys ==
    ASSUME JobsInv, KeysInv, NEW j \in JobIds,
           StoreProbeKey(j) \/ LiveProbeKey(j) \/ RevokeProbeKey(j) \/ DropProbeKey(j)
    PROVE KeysInv'
<1>1. serverUp /\ UNCHANGED <<reload, serverUp>>
    BY DEF StoreProbeKey, LiveProbeKey, RevokeProbeKey, DropProbeKey, Runs, KeepServer
<1>2. \A k \in JobIds \ {j} :
        /\ step'[k] = step[k]
        /\ k \in keysLive' <=> k \in keysLive
        /\ k \in keysStored' <=> k \in keysStored
        /\ k \in orphans' <=> k \in orphans
    BY DEF JobsInv, StoreProbeKey, LiveProbeKey, RevokeProbeKey, DropProbeKey, Goto
<1>3. ASSUME NEW k \in JobIds, k # j PROVE KeyKnown(k)'
    BY <1>1, <1>2, <1>3 DEF KeysInv, KeyKnown, Probing
<1>4. KeyKnown(j)'
  <2>1. CASE StoreProbeKey(j)
    <3>1. /\ step[j] = "storeKey" /\ UNCHANGED <<keysLive, orphans>>
          /\ \/ step'[j] = "liveKey" /\ keysStored' = keysStored \cup {j}
             \/ step'[j] \in {"outcome", "ended"} /\ keysStored' = keysStored
        BY <2>1 DEF StoreProbeKey, Runs, Goto, JobsInv
    <3> QED
        BY <1>1, <3>1 DEF KeysInv, KeyKnown, Probing
  <2>2. CASE LiveProbeKey(j)
    <3>1. /\ step[j] = "liveKey" /\ UNCHANGED <<keysStored, orphans>>
          /\ step'[j] \in {"probe", "begin"}
        BY <2>2 DEF LiveProbeKey, Runs, Goto, JobsInv
    <3> QED
        BY <1>1, <3>1 DEF KeysInv, KeyKnown, Probing
  <2>3. CASE RevokeProbeKey(j)
    <3>1. /\ step[j] = "revoke" /\ step'[j] = "dropKey" /\ j \notin keysLive'
          /\ orphans \subseteq orphans' /\ (reload.phase = "read" => j \in orphans')
        BY <2>3 DEF RevokeProbeKey, Runs, Goto, JobsInv
    <3> QED
        BY <1>1, <3>1 DEF KeysInv, KeyKnown, Probing
  <2>4. CASE DropProbeKey(j)
    <3>1. /\ step[j] = "dropKey" /\ step'[j] \in {"outcome", "ended"} /\ keysLive' = keysLive
          /\ orphans \subseteq orphans' /\ (j \notin keysStored' \/ j \in orphans')
        BY <2>4 DEF DropProbeKey, Runs, Goto, JobsInv
    <3> QED
        BY <1>1, <3>1 DEF KeysInv, KeyKnown, Probing
  <2> QED
      BY <2>1, <2>2, <2>3, <2>4
<1> QED
    BY <1>1, <1>3, <1>4 DEF KeysInv

\* A new job has no key yet.
LEMMA NewJobKeepsKeys ==
    ASSUME JobsInv, KeysInv, NEW s \in {"download", "storeKey"}, Free # {},
           step' = [step EXCEPT ![Fresh] = s], KeepKeys, KeepServer
    PROVE KeysInv'
<1>1. Fresh \in JobIds /\ step[Fresh] = "none"
    BY FreshIsFree DEF JobsInv, JobGood, UnusedJob
<1>2. \A k \in JobIds : step'[k] = IF k = Fresh THEN s ELSE step[k]
    BY DEF JobsInv
<1> QED
    BY <1>1, <1>2 DEF KeysInv, KeyKnown, Probing, KeepKeys, KeepServer

LEMMA ReloadKeepsKeys ==
    ASSUME KeysInv, ReloadReads \/ ReloadApplies \/ ServerCrash \/ ServerBoot
    PROVE KeysInv'
<1>1. CASE ReloadReads
  <2>1. /\ serverUp /\ serverUp' /\ UNCHANGED <<step, keysLive, keysStored>>
        /\ reload' = [phase |-> "read", read |-> keysStored]
        /\ orphans' = orphans \cup {j \in JobIds : step[j] = "dropKey"}
      BY <1>1 DEF ReloadReads
  <2> QED
      BY <2>1 DEF KeysInv, KeyKnown, Probing
<1>2. CASE ReloadApplies
  <2>1. /\ serverUp /\ serverUp' /\ UNCHANGED <<step, keysStored>>
        /\ reload.phase = "read" /\ keysLive' = reload.read /\ reload' = NoReload
        /\ orphans' = orphans \cap (reload.read \cup keysStored)
      BY <1>2 DEF ReloadApplies, KeepServer
  <2> QED
      BY <2>1 DEF KeysInv, KeyKnown, Probing, NoReload
<1>3. CASE ServerCrash
  <2>1. /\ ~serverUp' /\ keysLive' = {} /\ reload' = NoReload /\ orphans' = {}
        /\ keysStored' = keysStored
        /\ \A j \in JobIds : step'[j] = "none" => step[j] = "none"
      BY <1>3 DEF ServerCrash
  <2> QED
      BY <2>1 DEF KeysInv, KeyKnown, Probing, NoReload
<1>4. CASE ServerBoot
  <2>1. /\ ~serverUp /\ UNCHANGED <<step, reload>> /\ keysLive' = {}
        /\ keysStored' \subseteq keysStored /\ orphans' = keysStored' /\ serverUp'
      BY <1>4 DEF ServerBoot, LoadStoredKeys
  <2> QED
      BY <2>1 DEF KeysInv, KeyKnown, Probing, NoReload
<1> QED
    BY <1>1, <1>2, <1>3, <1>4

LEMMA KeysMove ==
    ASSUME JobsInv, KeysInv, [JobsNext]_jobVars
    PROVE KeysInv'
<1>1. ASSUME UNCHANGED <<step, keysLive, keysStored, reload, orphans, serverUp>> PROVE KeysInv'
    BY <1>1, KeysStay
<1>2. ASSUME NEW n \in JobNodes, NEW m \in JobModels, NEW v \in BOOLEAN, NEW old,
             HandleNodePull(n, m, v, old) \/ HandleRunBenchmark(n, m, old)
      PROVE KeysInv'
    BY <1>2, NewJobKeepsKeys DEF HandleNodePull, HandleRunBenchmark
<1>3. ASSUME NEW j \in JobIds, Goroutine(j) PROVE KeysInv'
    BY <1>3, WorkKeepsKeys, BenchKeepsKeys, KeyStepsKeepKeys DEF Goroutine
<1>4. ASSUME NEW j \in JobIds,
             \/ HandleCancel(j) \/ NodeStartsDownload(j) \/ NodeDownloads(j)
             \/ AgentKillsDownload(j)
      PROVE KeysInv'
    BY <1>1, <1>4
       DEF HandleCancel, NodeStartsDownload, NodeDownloads, AgentKillsDownload, KeepKeys, KeepServer
<1>5. ASSUME NEW n \in JobNodes, NEW m \in JobModels, HandleNodeDeleteModel(n, m)
      PROVE KeysInv'
    BY <1>1, <1>5 DEF HandleNodeDeleteModel, KeepKeys
<1>6. CASE UNCHANGED jobVars
    BY <1>1, <1>6 DEF jobVars
<1>7. CASE \E n \in JobNodes : DeleteOnMember(n) \/ NodeOutage(n)
    BY <1>1, <1>7 DEF DeleteOnMember, NodeOutage, KeepKeys, KeepServer
<1>8. CASE DeleteReplies
    BY <1>1, <1>8 DEF DeleteReplies, KeepKeys, KeepServer
<1>9. CASE ReloadReads \/ ReloadApplies \/ ServerCrash \/ ServerBoot
    BY <1>9, ReloadKeepsKeys
<1> QED
    BY <1>2, <1>3, <1>4, <1>5, <1>6, <1>7, <1>8, <1>9 DEF JobsNext

LEMMA AllJobsInitially == ASSUME JobsInit PROVE AllJobsInv
BY JobsInitially, KeysInitially DEF AllJobsInv

LEMMA AllJobsMove == ASSUME AllJobsInv, [JobsNext]_jobVars PROVE AllJobsInv'
BY JobsNextKeeps, KeysMove DEF AllJobsInv

LEMMA AllJobsShown ==
    ASSUME AllJobsInv
    PROVE JobsTypeOK /\ ProbeKeysEphemeral /\ PullOutcomeTrue
<1>1. keysLive \subseteq JobIds
    BY DEF AllJobsInv, JobsInv, JobSets
<1> QED
    BY <1>1, JobsInvHolds DEF AllJobsInv, KeysInv, KeyKnown, ProbeKeysEphemeral

\* A pull's outcome is what the node did, and a probe's key ends with the probe but
\* for what a reload beside its removal or a row that stays may bring back
\* (runPullJob, runBenchmarkJob, ReloadFromStore).
THEOREM JobsKept == JobsSpec => [](JobsTypeOK /\ ProbeKeysEphemeral /\ PullOutcomeTrue)
<1>1. JobsInit => AllJobsInv
    BY AllJobsInitially
<1>2. AllJobsInv /\ [JobsNext]_jobVars => AllJobsInv'
    BY AllJobsMove
<1>3. AllJobsInv => JobsTypeOK /\ ProbeKeysEphemeral /\ PullOutcomeTrue
    BY AllJobsShown
<1> QED
    BY <1>1, <1>2, <1>3, PTL DEF JobsSpec

-----------------------------------------------------------------------------
(* Where a command is in its plan. *)

StepNames == {"token", "key", "cert", "unit", "reload", "enable", "restart", "unload", "start",
              "stop", "wait", "disable", "rmunit", "rmtoken", "rmbinary", "rmcert", "rmkey",
              "delete"}

Commands == {"install", "uninstall", "purge", "regen", "start", "stop"}
Plan(op) ==
    CASE op = "install" -> InstallSteps [] op = "uninstall" -> UninstallSteps(FALSE)
      [] op = "purge" -> UninstallSteps(TRUE) [] op = "regen" -> RegenSteps
      [] op = "start" -> <<"start">> [] OTHER -> <<"stop">>

\* How many of its steps are left, the one under way included.
Left == Len(command.steps)
Follows(plan) ==
    /\ Left \in 1 .. Len(plan)
    /\ \A i \in 1 .. Left : command.steps[i] = plan[Len(plan) - Left + i]

\* How many are left when the certificate is next, the token, the removal of the unit.
CertAt == IF command.op = "regen" THEN 3 ELSE IF platform = "linux" THEN 5
          ELSE IF platform = "darwin" THEN 4 ELSE 6
TokenAt == IF platform = "linux" THEN 7 ELSE IF platform = "darwin" THEN 3 ELSE 4
GoneAt == IF platform = "linux" THEN (IF command.op = "purge" THEN 6 ELSE 3)
            ELSE (IF command.op = "purge" THEN 4 ELSE 1)

ServiceTypes ==
    /\ platform \in {"linux", "darwin", "windows"}
    /\ made \in Nat /\ certFile \in 0 .. made /\ keyFile \in 0 .. made /\ pin \in 0 .. made
    /\ issued \in Nat \ {0} /\ tokenFile \in 0 .. issued
    /\ unit \in {"none", "partial", "whole"}
    /\ daemon \in [st : {"off", "up", "dead", "stopping"}, cert : 0 .. made, token : 0 .. issued]
    /\ told \in {"nothing", "ok", "failed", "killed"}
OnPlan ==
    \/ command = NoCommand
    \/ /\ command \in [op : Commands, steps : Seq(StepNames), token : 0 .. issued,
                       root : BOOLEAN, missed : BOOLEAN]
       /\ Follows(Plan(command.op))
       /\ command.op \in {"regen", "purge"} => rotated
       /\ command.op = "install" => command.token # 0

\* The pinned pair, and that of an agent one may pin.
PairLasts ==
    /\ expired => rotated
    /\ PinSurvives
    /\ daemon.st = "up" /\ ~rotated =>
          daemon.cert = certFile /\ certFile = keyFile /\ certFile # 0

\* What the steps behind a command have done.
Making == command.op \in {"install", "regen"}
StepsDone ==
    /\ Making /\ Left = CertAt => keyFile # 0
    /\ Making /\ Left < CertAt => certFile = keyFile /\ certFile # 0
    /\ command.op = "install" /\ Left < TokenAt => tokenFile = command.token
    /\ command.op \in {"uninstall", "purge"} /\ platform # "windows" /\ Left < GoneAt =>
          unit = "none"
    /\ command.op = "regen" /\ Left = 1 /\ ~command.missed /\ platform # "windows" =>
          daemon.st = "off"
ServiceInv ==
    /\ ServiceTypes /\ OnPlan /\ PairLasts /\ UnitHasPair
    /\ (command # NoCommand => StepsDone)

LEMMA PlansKnown ==
    /\ platform = "linux" =>
         /\ Plan("install") = <<"token", "key", "cert", "unit", "reload", "enable", "restart">>
         /\ Plan("uninstall") = <<"stop", "disable", "rmunit", "rmtoken", "reload">>
         /\ Plan("purge") = <<"stop", "disable", "rmunit", "rmtoken", "reload",
                              "rmbinary", "rmcert", "rmkey">>
    /\ platform = "darwin" =>
         /\ Plan("install") = <<"key", "cert", "unit", "unload", "start">>
         /\ Plan("uninstall") = <<"unload", "rmunit">>
         /\ Plan("purge") = <<"unload", "rmunit", "rmbinary", "rmcert", "rmkey">>
    /\ platform = "windows" =>
         /\ Plan("install") = <<"key", "cert", "unit", "token", "stop", "wait", "start">>
         /\ Plan("uninstall") = <<"stop", "delete">>
         /\ Plan("purge") = <<"stop", "delete", "rmbinary", "rmcert", "rmkey">>
    /\ Plan("regen") = <<"key", "cert", "stop", "start">>
    /\ Plan("start") = <<"start">> /\ Plan("stop") = <<"stop">>
<1>1. /\ <<"unload", "rmunit">> \o <<>> = <<"unload", "rmunit">>
      /\ <<"stop", "delete">> \o <<>> = <<"stop", "delete">>
      /\ <<"stop", "disable", "rmunit", "rmtoken", "reload">> \o <<>>
           = <<"stop", "disable", "rmunit", "rmtoken", "reload">>
  <2>1. <<"unload", "rmunit">> \in Seq(StepNames) /\ <<"stop", "delete">> \in Seq(StepNames)
        /\ <<"stop", "disable", "rmunit", "rmtoken", "reload">> \in Seq(StepNames)
      BY DEF StepNames
  <2> QED
      BY <2>1, ConcatEmptySeq
<1>2. ASSUME NEW x \in StepNames, NEW y \in StepNames, NEW a \in StepNames, NEW b \in StepNames,
             NEW c \in StepNames
      PROVE <<x, y>> \o <<a, b, c>> = <<x, y, a, b, c>>
  <2> DEFINE s == <<x, y>>
             t == <<a, b, c>>
             r == <<x, y, a, b, c>>
  <2>1. s \in Seq(StepNames) /\ t \in Seq(StepNames) /\ r \in Seq(StepNames)
        /\ Len(s) = 2 /\ Len(t) = 3 /\ Len(r) = 5
      OBVIOUS
  <2>2. /\ s \o t \in Seq(StepNames) /\ Len(s \o t) = 5
        /\ \A i \in 1 .. 5 : (s \o t)[i] = IF i <= 2 THEN s[i] ELSE t[i - 2]
      BY <2>1, ConcatProperties
  <2>3. \A i \in 1 .. 5 : r[i] = IF i <= 2 THEN s[i] ELSE t[i - 2]
      OBVIOUS
  <2> HIDE DEF s, t, r
  <2>4. s \o t = r
      BY <2>1, <2>2, <2>3, SeqEqual
  <2> QED
      BY <2>4 DEF s, t, r
<1>7. ASSUME NEW x \in StepNames, NEW y \in StepNames, NEW z \in StepNames, NEW u \in StepNames,
             NEW v \in StepNames, NEW a \in StepNames, NEW b \in StepNames, NEW c \in StepNames
      PROVE <<x, y, z, u, v>> \o <<a, b, c>> = <<x, y, z, u, v, a, b, c>>
  <2> DEFINE s == <<x, y, z, u, v>>
             t == <<a, b, c>>
             r == <<x, y, z, u, v, a, b, c>>
  <2>1. s \in Seq(StepNames) /\ t \in Seq(StepNames) /\ r \in Seq(StepNames)
        /\ Len(s) = 5 /\ Len(t) = 3 /\ Len(r) = 8
      OBVIOUS
  <2>2. /\ s \o t \in Seq(StepNames) /\ Len(s \o t) = 8
        /\ \A i \in 1 .. 8 : (s \o t)[i] = IF i <= 5 THEN s[i] ELSE t[i - 5]
      BY <2>1, ConcatProperties
  <2>3. \A i \in 1 .. 8 : r[i] = IF i <= 5 THEN s[i] ELSE t[i - 5]
      OBVIOUS
  <2> HIDE DEF s, t, r
  <2>4. s \o t = r
    <3>1. Len(s \o t) = Len(r) /\ \A i \in 1 .. Len(r) : (s \o t)[i] = r[i]
        BY <2>1, <2>2, <2>3
    <3> QED
        BY <2>1, <2>2, <3>1, SeqEqual
  <2> QED
      BY <2>4 DEF s, t, r
<1>3. ASSUME platform = "linux"
      PROVE /\ Plan("install") = <<"token", "key", "cert", "unit", "reload", "enable", "restart">>
            /\ Plan("uninstall") = <<"stop", "disable", "rmunit", "rmtoken", "reload">>
            /\ Plan("purge") = <<"stop", "disable", "rmunit", "rmtoken", "reload",
                                 "rmbinary", "rmcert", "rmkey">>
  <2>1. Plan("install") = LinuxInstall
      BY <1>3 DEF Plan, InstallSteps
  <2>2. Plan("uninstall") = LinuxUninstall(FALSE) /\ Plan("purge") = LinuxUninstall(TRUE)
      BY <1>3 DEF Plan, UninstallSteps
  <2>3. LinuxUninstall(FALSE) = <<"stop", "disable", "rmunit", "rmtoken", "reload">>
      BY <1>1 DEF LinuxUninstall
  <2>4. LinuxUninstall(TRUE) = <<"stop", "disable", "rmunit", "rmtoken", "reload",
                                 "rmbinary", "rmcert", "rmkey">>
    <3>1. /\ "stop" \in StepNames /\ "disable" \in StepNames /\ "rmunit" \in StepNames
          /\ "rmtoken" \in StepNames /\ "reload" \in StepNames /\ "rmbinary" \in StepNames
          /\ "rmcert" \in StepNames /\ "rmkey" \in StepNames
        BY DEF StepNames
    <3>2. <<"stop", "disable", "rmunit", "rmtoken", "reload">> \o <<"rmbinary", "rmcert", "rmkey">>
            = <<"stop", "disable", "rmunit", "rmtoken", "reload", "rmbinary", "rmcert", "rmkey">>
        BY <1>7, <3>1
    <3> QED
        BY <3>2 DEF LinuxUninstall
  <2> QED
      BY <2>1, <2>2, <2>3, <2>4 DEF LinuxInstall
<1>4. ASSUME platform = "darwin"
      PROVE /\ Plan("install") = <<"key", "cert", "unit", "unload", "start">>
            /\ Plan("uninstall") = <<"unload", "rmunit">>
            /\ Plan("purge") = <<"unload", "rmunit", "rmbinary", "rmcert", "rmkey">>
  <2>1. Plan("install") = DarwinInstall
      BY <1>4 DEF Plan, InstallSteps
  <2>2. Plan("uninstall") = DarwinUninstall(FALSE) /\ Plan("purge") = DarwinUninstall(TRUE)
      BY <1>4 DEF Plan, UninstallSteps
  <2>3. DarwinUninstall(FALSE) = <<"unload", "rmunit">>
      BY <1>1 DEF DarwinUninstall
  <2>4. DarwinUninstall(TRUE) = <<"unload", "rmunit", "rmbinary", "rmcert", "rmkey">>
    <3>1. /\ "unload" \in StepNames /\ "rmunit" \in StepNames /\ "rmbinary" \in StepNames
          /\ "rmcert" \in StepNames /\ "rmkey" \in StepNames
        BY DEF StepNames
    <3>2. <<"unload", "rmunit">> \o <<"rmbinary", "rmcert", "rmkey">>
            = <<"unload", "rmunit", "rmbinary", "rmcert", "rmkey">>
        BY <1>2, <3>1
    <3> QED
        BY <3>2 DEF DarwinUninstall
  <2> QED
      BY <2>1, <2>2, <2>3, <2>4 DEF DarwinInstall
<1>5. ASSUME platform = "windows"
      PROVE /\ Plan("install") = <<"key", "cert", "unit", "token", "stop", "wait", "start">>
            /\ Plan("uninstall") = <<"stop", "delete">>
            /\ Plan("purge") = <<"stop", "delete", "rmbinary", "rmcert", "rmkey">>
  <2>1. Plan("install") = WindowsInstall
      BY <1>5 DEF Plan, InstallSteps
  <2>2. Plan("uninstall") = WindowsUninstall(FALSE) /\ Plan("purge") = WindowsUninstall(TRUE)
      BY <1>5 DEF Plan, UninstallSteps
  <2>3. WindowsUninstall(FALSE) = <<"stop", "delete">>
      BY <1>1 DEF WindowsUninstall
  <2>4. WindowsUninstall(TRUE) = <<"stop", "delete", "rmbinary", "rmcert", "rmkey">>
    <3>1. /\ "stop" \in StepNames /\ "delete" \in StepNames /\ "rmbinary" \in StepNames
          /\ "rmcert" \in StepNames /\ "rmkey" \in StepNames
        BY DEF StepNames
    <3>2. <<"stop", "delete">> \o <<"rmbinary", "rmcert", "rmkey">>
            = <<"stop", "delete", "rmbinary", "rmcert", "rmkey">>
        BY <1>2, <3>1
    <3> QED
        BY <3>2 DEF WindowsUninstall
  <2> QED
      BY <2>1, <2>2, <2>3, <2>4 DEF WindowsInstall
<1>6. /\ Plan("regen") = <<"key", "cert", "stop", "start">>
      /\ Plan("start") = <<"start">> /\ Plan("stop") = <<"stop">>
    BY DEF Plan, RegenSteps
<1> QED
    BY <1>3, <1>4, <1>5, <1>6
LEMMA PlansTyped ==
    ASSUME platform \in {"linux", "darwin", "windows"}, NEW op \in Commands
    PROVE Plan(op) \in Seq(StepNames) /\ Len(Plan(op)) \in 1 .. 8
<1> DEFINE Good(p) == p \in Seq(StepNames) /\ Len(p) \in 1 .. 8
<1>1. /\ Good(<<"token", "key", "cert", "unit", "reload", "enable", "restart">>)
      /\ Good(<<"stop", "disable", "rmunit", "rmtoken", "reload">>)
      /\ Good(<<"stop", "disable", "rmunit", "rmtoken", "reload", "rmbinary", "rmcert", "rmkey">>)
    BY DEF StepNames
<1>2. /\ Good(<<"key", "cert", "unit", "unload", "start">>) /\ Good(<<"unload", "rmunit">>)
      /\ Good(<<"unload", "rmunit", "rmbinary", "rmcert", "rmkey">>)
    BY DEF StepNames
<1>3. /\ Good(<<"key", "cert", "unit", "token", "stop", "wait", "start">>)
      /\ Good(<<"stop", "delete">>)
      /\ Good(<<"stop", "delete", "rmbinary", "rmcert", "rmkey">>)
    BY DEF StepNames
<1>4. Good(<<"key", "cert", "stop", "start">>) /\ Good(<<"start">>) /\ Good(<<"stop">>)
    BY DEF StepNames
<1> HIDE DEF Good
<1>5. Good(Plan(op))
    BY <1>1, <1>2, <1>3, <1>4, PlansKnown DEF Commands
<1> QED
    BY <1>5 DEF Good

LEMMA PlansStay ==
    ASSUME platform' = platform, NEW op
    PROVE Plan(op)' = Plan(op)
BY DEF Plan, InstallSteps, UninstallSteps, RegenSteps

\* The step a command is at.
LEMMA StepAt ==
    ASSUME ServiceTypes, OnPlan, command # NoCommand
    PROVE /\ command.op \in Commands /\ command.steps \in Seq(StepNames) /\ command.steps # <<>>
          /\ Left \in 1 .. 8 /\ Left <= Len(Plan(command.op))
          /\ Step = Plan(command.op)[Len(Plan(command.op)) - Left + 1]
<1> DEFINE p == Plan(command.op)
           s == command.steps
<1>1. command.op \in Commands /\ s \in Seq(StepNames) /\ Follows(p)
    BY DEF OnPlan
<1>2. p \in Seq(StepNames) /\ Len(p) \in 1 .. 8
    BY <1>1, PlansTyped DEF ServiceTypes
<1> HIDE DEF p
<1>3. Len(s) \in 1 .. Len(p) /\ \A i \in 1 .. Len(s) : s[i] = p[Len(p) - Len(s) + i]
    BY <1>1 DEF Follows, Left
<1> HIDE DEF s
<1>4. Len(s) \in 1 .. 8 /\ Len(s) <= Len(p)
  <2>1. \A n \in 1 .. 8 : \A k \in 1 .. n : k \in 1 .. 8 /\ k <= n
      OBVIOUS
  <2> QED
      BY <1>2, <1>3, <2>1
<1>5. s # <<>>
  <2>1. SUFFICES ASSUME s = <<>> PROVE FALSE
      OBVIOUS
  <2>2. Len(s) = 0
      BY <2>1
  <2> QED
      BY <1>4, <2>2
<1>6. Head(s) = s[1] /\ s[1] = p[Len(p) - Len(s) + 1]
    BY <1>1, <1>3, <1>4, <1>5
<1> QED
    BY <1>1, <1>4, <1>5, <1>6 DEF p, s, Left, Step

LEMMA InstallAt ==
    ASSUME ServiceTypes, OnPlan, command # NoCommand, command.op = "install"
    PROVE /\ Left > CertAt => Step \in {"token", "key"}
          /\ Step = "key" <=> Left = CertAt + 1
          /\ Step = "cert" <=> Left = CertAt
          /\ Step = "token" /\ platform # "darwin" => Left = TokenAt
          /\ Left = TokenAt => Step = IF platform = "darwin" THEN "unit" ELSE "token"
          /\ Step = "token" => platform # "darwin"
          /\ Step = "unit" /\ platform = "darwin" => Left = TokenAt
          /\ Step = "unit" /\ platform # "windows" => Left < CertAt
          /\ Step \in {"start", "restart"} <=> Left = 1
          /\ Step = "start" => platform # "linux"
          /\ Step \in {"token", "key", "cert", "unit", "reload", "enable", "restart", "unload",
                       "stop", "wait", "start"}
          /\ CertAt \in 4 .. 6 /\ TokenAt \in 3 .. 7
<1>1. /\ Left \in 1 .. 8 /\ Left <= Len(Plan("install"))
      /\ Step = Plan("install")[Len(Plan("install")) - Left + 1]
    BY StepAt
<1>2. CASE platform = "linux"
  <2>0. Plan("install") = <<"token", "key", "cert", "unit", "reload", "enable", "restart">>
      BY <1>1, <1>2, PlansKnown
  <2>1. Len(Plan("install")) = 7
      BY <2>0
  <2>2. Left \in 1 .. 7 /\ Step = Plan("install")[8 - Left]
    <3>1. Left \in 1 .. 7
      <4>1. Left <= 7 /\ Left \in 1 .. 8
          BY <1>1, <2>1
      <4> QED
          BY <4>1
    <3>2. 7 - Left + 1 = 8 - Left
        BY <3>1
    <3> QED
        BY <1>1, <2>1, <3>1, <3>2
  <2>3. Step = <<"token", "key", "cert", "unit", "reload", "enable", "restart">>[8 - Left]
      BY <2>0, <2>2
  <2>4. CertAt = 5 /\ TokenAt = 7
      BY <1>2 DEF CertAt, TokenAt
  <2> QED
      BY <1>2, <2>2, <2>3, <2>4
<1>3. CASE platform = "darwin"
  <2>0. Plan("install") = <<"key", "cert", "unit", "unload", "start">>
      BY <1>1, <1>3, PlansKnown
  <2>1. Len(Plan("install")) = 5
      BY <2>0
  <2>2. Left \in 1 .. 5 /\ Step = Plan("install")[6 - Left]
    <3>1. Left \in 1 .. 5
      <4>1. Left <= 5 /\ Left \in 1 .. 8
          BY <1>1, <2>1
      <4> QED
          BY <4>1
    <3>2. 5 - Left + 1 = 6 - Left
        BY <3>1
    <3> QED
        BY <1>1, <2>1, <3>1, <3>2
  <2>3. Step = <<"key", "cert", "unit", "unload", "start">>[6 - Left]
      BY <2>0, <2>2
  <2>4. CertAt = 4 /\ TokenAt = 3
      BY <1>3 DEF CertAt, TokenAt
  <2> QED
      BY <1>3, <2>2, <2>3, <2>4
<1>4. CASE platform = "windows"
  <2>0. Plan("install") = <<"key", "cert", "unit", "token", "stop", "wait", "start">>
      BY <1>1, <1>4, PlansKnown
  <2>1. Len(Plan("install")) = 7
      BY <2>0
  <2>2. Left \in 1 .. 7 /\ Step = Plan("install")[8 - Left]
    <3>1. Left \in 1 .. 7
      <4>1. Left <= 7 /\ Left \in 1 .. 8
          BY <1>1, <2>1
      <4> QED
          BY <4>1
    <3>2. 7 - Left + 1 = 8 - Left
        BY <3>1
    <3> QED
        BY <1>1, <2>1, <3>1, <3>2
  <2>3. Step = <<"key", "cert", "unit", "token", "stop", "wait", "start">>[8 - Left]
      BY <2>0, <2>2
  <2>4. CertAt = 6 /\ TokenAt = 4
      BY <1>4 DEF CertAt, TokenAt
  <2> QED
      BY <1>4, <2>2, <2>3, <2>4
<1> QED
    BY <1>2, <1>3, <1>4 DEF ServiceTypes

LEMMA RegenAt ==
    ASSUME ServiceTypes, OnPlan, command # NoCommand, command.op = "regen"
    PROVE /\ Left \in 1 .. 4 /\ CertAt = 3
          /\ Step = IF Left = 4 THEN "key" ELSE IF Left = 3 THEN "cert"
                    ELSE IF Left = 2 THEN "stop" ELSE "start"
<1>1. /\ Left \in 1 .. 8 /\ Left <= Len(Plan("regen"))
      /\ Step = Plan("regen")[Len(Plan("regen")) - Left + 1]
    BY StepAt
<1>2. Plan("regen") = <<"key", "cert", "stop", "start">>
    BY PlansKnown
<1>3. Len(Plan("regen")) = 4
    BY <1>2
<1>4. Left \in 1 .. 4 /\ Step = Plan("regen")[5 - Left]
  <2>1. Left \in 1 .. 4
    <3>1. Left <= 4 /\ Left \in 1 .. 8
        BY <1>1, <1>3
    <3> QED
        BY <3>1
  <2>2. 4 - Left + 1 = 5 - Left
      BY <2>1
  <2> QED
      BY <1>1, <1>3, <2>1, <2>2
<1>5. Step = <<"key", "cert", "stop", "start">>[5 - Left]
    BY <1>2, <1>4
<1> QED
    BY <1>4, <1>5 DEF CertAt

LEMMA RemovalAt ==
    ASSUME ServiceTypes, OnPlan, command # NoCommand, command.op \in {"uninstall", "purge"}
    PROVE /\ Step \in {"stop", "disable", "rmunit", "rmtoken", "reload", "rmbinary", "rmcert",
                       "rmkey", "unload", "delete"}
          /\ Step \in {"rmcert", "rmkey"} => command.op = "purge"
          /\ platform # "windows" =>
                /\ Step \in {"rmcert", "rmkey"} => Left < GoneAt
                /\ Left = GoneAt => Step = "rmunit"
                /\ GoneAt \in 1 .. 6
<1>1. /\ Left \in 1 .. 8 /\ Left <= Len(Plan(command.op))
      /\ Step = Plan(command.op)[Len(Plan(command.op)) - Left + 1]
    BY StepAt
<1>2. CASE platform = "linux" /\ command.op = "uninstall"
  <2>0. Plan(command.op) = <<"stop", "disable", "rmunit", "rmtoken", "reload">>
      BY <1>1, <1>2, PlansKnown
  <2>1. Len(Plan(command.op)) = 5
      BY <2>0
  <2>2. Left \in 1 .. 5 /\ Step = Plan(command.op)[6 - Left]
    <3>1. Left \in 1 .. 5
      <4>1. Left <= 5 /\ Left \in 1 .. 8
          BY <1>1, <2>1
      <4> QED
          BY <4>1
    <3>2. 5 - Left + 1 = 6 - Left
        BY <3>1
    <3> QED
        BY <1>1, <2>1, <3>1, <3>2
  <2>3. Step = <<"stop", "disable", "rmunit", "rmtoken", "reload">>[6 - Left]
      BY <2>0, <2>2
  <2>4. GoneAt = 3
      BY <1>2 DEF GoneAt
  <2> QED
      BY <1>2, <2>2, <2>3, <2>4
<1>3. CASE platform = "linux" /\ command.op = "purge"
  <2>0. Plan(command.op) = <<"stop", "disable", "rmunit", "rmtoken", "reload", "rmbinary", "rmcert",
                 "rmkey">>
      BY <1>1, <1>3, PlansKnown
  <2>1. Len(Plan(command.op)) = 8
      BY <2>0
  <2>2. Left \in 1 .. 8 /\ Step = Plan(command.op)[9 - Left]
    <3>1. Left \in 1 .. 8
      <4>1. Left <= 8 /\ Left \in 1 .. 8
          BY <1>1, <2>1
      <4> QED
          BY <4>1
    <3>2. 8 - Left + 1 = 9 - Left
        BY <3>1
    <3> QED
        BY <1>1, <2>1, <3>1, <3>2
  <2>3. Step = <<"stop", "disable", "rmunit", "rmtoken", "reload", "rmbinary", "rmcert",
                 "rmkey">>[9 - Left]
      BY <2>0, <2>2
  <2>4. GoneAt = 6
      BY <1>3 DEF GoneAt
  <2> QED
      BY <1>3, <2>2, <2>3, <2>4
<1>4. CASE platform = "darwin" /\ command.op = "uninstall"
  <2>0. Plan(command.op) = <<"unload", "rmunit">>
      BY <1>1, <1>4, PlansKnown
  <2>1. Len(Plan(command.op)) = 2
      BY <2>0
  <2>2. Left \in 1 .. 2 /\ Step = Plan(command.op)[3 - Left]
    <3>1. Left \in 1 .. 2
      <4>1. Left <= 2 /\ Left \in 1 .. 8
          BY <1>1, <2>1
      <4> QED
          BY <4>1
    <3>2. 2 - Left + 1 = 3 - Left
        BY <3>1
    <3> QED
        BY <1>1, <2>1, <3>1, <3>2
  <2>3. Step = <<"unload", "rmunit">>[3 - Left]
      BY <2>0, <2>2
  <2>4. GoneAt = 1
      BY <1>4 DEF GoneAt
  <2> QED
      BY <1>4, <2>2, <2>3, <2>4
<1>5. CASE platform = "darwin" /\ command.op = "purge"
  <2>0. Plan(command.op) = <<"unload", "rmunit", "rmbinary", "rmcert", "rmkey">>
      BY <1>1, <1>5, PlansKnown
  <2>1. Len(Plan(command.op)) = 5
      BY <2>0
  <2>2. Left \in 1 .. 5 /\ Step = Plan(command.op)[6 - Left]
    <3>1. Left \in 1 .. 5
      <4>1. Left <= 5 /\ Left \in 1 .. 8
          BY <1>1, <2>1
      <4> QED
          BY <4>1
    <3>2. 5 - Left + 1 = 6 - Left
        BY <3>1
    <3> QED
        BY <1>1, <2>1, <3>1, <3>2
  <2>3. Step = <<"unload", "rmunit", "rmbinary", "rmcert", "rmkey">>[6 - Left]
      BY <2>0, <2>2
  <2>4. GoneAt = 4
      BY <1>5 DEF GoneAt
  <2> QED
      BY <1>5, <2>2, <2>3, <2>4
<1>6. CASE platform = "windows" /\ command.op = "uninstall"
  <2>0. Plan(command.op) = <<"stop", "delete">>
      BY <1>1, <1>6, PlansKnown
  <2>1. Len(Plan(command.op)) = 2
      BY <2>0
  <2>2. Left \in 1 .. 2 /\ Step = Plan(command.op)[3 - Left]
    <3>1. Left \in 1 .. 2
      <4>1. Left <= 2 /\ Left \in 1 .. 8
          BY <1>1, <2>1
      <4> QED
          BY <4>1
    <3>2. 2 - Left + 1 = 3 - Left
        BY <3>1
    <3> QED
        BY <1>1, <2>1, <3>1, <3>2
  <2>3. Step = <<"stop", "delete">>[3 - Left]
      BY <2>0, <2>2
  <2> QED
      BY <1>6, <2>2, <2>3
<1>7. CASE platform = "windows" /\ command.op = "purge"
  <2>0. Plan(command.op) = <<"stop", "delete", "rmbinary", "rmcert", "rmkey">>
      BY <1>1, <1>7, PlansKnown
  <2>1. Len(Plan(command.op)) = 5
      BY <2>0
  <2>2. Left \in 1 .. 5 /\ Step = Plan(command.op)[6 - Left]
    <3>1. Left \in 1 .. 5
      <4>1. Left <= 5 /\ Left \in 1 .. 8
          BY <1>1, <2>1
      <4> QED
          BY <4>1
    <3>2. 5 - Left + 1 = 6 - Left
        BY <3>1
    <3> QED
        BY <1>1, <2>1, <3>1, <3>2
  <2>3. Step = <<"stop", "delete", "rmbinary", "rmcert", "rmkey">>[6 - Left]
      BY <2>0, <2>2
  <2> QED
      BY <1>7, <2>2, <2>3
<1> QED
    BY <1>2, <1>3, <1>4, <1>5, <1>6, <1>7 DEF ServiceTypes

LEMMA ControlAt ==
    ASSUME ServiceTypes, OnPlan, command # NoCommand, command.op \in {"start", "stop"}
    PROVE Left = 1 /\ Step = command.op
<1>1. /\ Left \in 1 .. 8 /\ Left <= Len(Plan(command.op))
      /\ Step = Plan(command.op)[Len(Plan(command.op)) - Left + 1]
    BY StepAt
<1>2. Len(Plan(command.op)) = 1 /\ Plan(command.op)[1] = command.op
    BY PlansKnown
<1> QED
    BY <1>1, <1>2

\* The command goes on after a step, or skips the one that follows.
Command ==
    [op : Commands, steps : Seq(StepNames), token : Nat, root : BOOLEAN, missed : BOOLEAN]

LEMMA RestKnown ==
    ASSUME ServiceTypes, OnPlan, command # NoCommand
    PROVE /\ Rest \in Seq(StepNames) /\ Len(Rest) = Left - 1
          /\ (Rest = <<>>) <=> (Left = 1)
          /\ \A i \in 1 .. Left - 1 : Rest[i] = command.steps[i + 1]
          /\ Left > 2 => /\ Tail(Rest) \in Seq(StepNames) /\ Len(Tail(Rest)) = Left - 2
                         /\ \A i \in 1 .. Left - 2 : Tail(Rest)[i] = command.steps[i + 2]
<1> DEFINE s == command.steps
           r == Tail(s)
<1>1. s \in Seq(StepNames) /\ s # <<>> /\ Len(s) \in 1 .. 8
    BY StepAt DEF Left
<1> HIDE DEF s
<1>2. /\ r \in Seq(StepNames) /\ Len(r) = Len(s) - 1
      /\ \A i \in 1 .. Len(r) : r[i] = s[i + 1]
    BY <1>1, HeadTailProperties
<1> HIDE DEF r
<1>3. (r = <<>>) <=> (Len(s) = 1)
  <2>1. r = <<>> => Len(r) = 0
      OBVIOUS
  <2>2. r # <<>> => Len(r) # 0
      BY <1>2, EmptySeq
  <2> QED
      BY <1>1, <1>2, <2>1, <2>2
<1>4. ASSUME Len(s) > 2
      PROVE /\ Tail(r) \in Seq(StepNames) /\ Len(Tail(r)) = Len(s) - 2
            /\ \A i \in 1 .. Len(s) - 2 : Tail(r)[i] = s[i + 2]
  <2>1. r # <<>> /\ Len(r) \in 1 .. 7
    <3>1. \A n \in 1 .. 8 : n > 2 => n # 1 /\ n - 1 \in 1 .. 7
        OBVIOUS
    <3>2. Len(s) # 1 /\ Len(s) - 1 \in 1 .. 7
        BY <1>1, <1>4, <3>1
    <3> QED
        BY <1>2, <1>3, <3>2
  <2>2. /\ Tail(r) \in Seq(StepNames) /\ Len(Tail(r)) = Len(r) - 1
        /\ \A i \in 1 .. Len(Tail(r)) : Tail(r)[i] = r[i + 1]
      BY <1>2, <2>1, HeadTailProperties
  <2>3. ASSUME NEW i \in 1 .. Len(s) - 2 PROVE Tail(r)[i] = s[i + 2]
    <3>1. i \in 1 .. Len(Tail(r)) /\ i + 1 \in 1 .. Len(r) /\ (i + 1) + 1 = i + 2
        BY <1>1, <1>2, <2>2
    <3> QED
        BY <1>2, <2>2, <3>1
  <2> QED
      BY <1>1, <1>2, <2>2, <2>3
<1> QED
    BY <1>1, <1>2, <1>3, <1>4 DEF r, s, Left, Rest

LEMMA GoesOn ==
    ASSUME ServiceTypes, OnPlan, command # NoCommand, UNCHANGED <<platform, issued>>,
           rotated => rotated', NEW k \in 1 .. 2, Left > k, NEW c \in Command, command' = c,
           c.op = command.op, c.token = command.token, Len(c.steps) = Left - k,
           \A i \in 1 .. Left - k : c.steps[i] = command.steps[i + k]
    PROVE OnPlan' /\ Left' = Left - k /\ command' # NoCommand
<1> DEFINE p == Plan(command.op)
           s == command.steps
<1>1. /\ command.op \in Commands /\ Left \in 1 .. 8 /\ Left <= Len(p)
    BY StepAt
<1>2. p \in Seq(StepNames) /\ Len(p) \in 1 .. 8 /\ Plan(c.op)' = p
    BY <1>1, PlansTyped, PlansStay DEF ServiceTypes
<1> HIDE DEF p
<1>3. \A i \in 1 .. Left : s[i] = p[Len(p) - Left + i]
    BY DEF OnPlan, Follows, p
<1> HIDE DEF s
<1>4. Len(c.steps) \in 1 .. Len(p)
  <2>1. \A n \in 1 .. 8, m \in 1 .. 8 : n <= m /\ n > k => n - k \in 1 .. m
      OBVIOUS
  <2> QED
      BY <1>1, <1>2, <2>1
<1>5. ASSUME NEW i \in 1 .. Left - k PROVE c.steps[i] = p[Len(p) - (Left - k) + i]
  <2>1. i + k \in 1 .. Left /\ Len(p) - Left + (i + k) = Len(p) - (Left - k) + i
      BY <1>1, <1>2
  <2> QED
      BY <1>3, <2>1 DEF s
<1>6. Left' = Left - k
    BY DEF Left
<1>7. Follows(Plan(command.op))'
  <2>1. Plan(command.op)' = p
      BY <1>2
  <2>2. Left' \in 1 .. Len(p) /\ \A i \in 1 .. Left' : c.steps[i] = p[Len(p) - Left' + i]
      BY <1>4, <1>5, <1>6
  <2> QED
      BY <2>1, <2>2 DEF Follows
<1>8. command' # NoCommand
    BY DEF NoCommand, Commands, Command
<1>9. /\ command'.op \in {"regen", "purge"} => rotated'
      /\ command'.op = "install" => command'.token # 0
      /\ c.token \in 0 .. issued'
    BY DEF OnPlan
<1>10. OnPlan'
  <2>1. c \in [op : Commands, steps : Seq(StepNames), token : 0 .. issued',
               root : BOOLEAN, missed : BOOLEAN]
      BY <1>9 DEF Command
  <2> QED
      BY <1>7, <1>9, <2>1 DEF OnPlan
<1> QED
    BY <1>6, <1>8, <1>10

\* What the end of a step makes of the command.
LEMMA Advanced ==
    ASSUME ServiceTypes, OnPlan, command # NoCommand, UNCHANGED <<platform, issued, rotated>>,
           NEW missed \in BOOLEAN, Advance(missed)
    PROVE /\ Left = 1 => command' = NoCommand /\ told' = "ok"
          /\ Left # 1 => /\ OnPlan' /\ Left' = Left - 1 /\ command' # NoCommand
                         /\ command'.op = command.op /\ command'.token = command.token
                         /\ command'.missed <=> (command.missed \/ missed)
                         /\ told' = told
<1>1. Left \in 1 .. 8 /\ (Rest = <<>> <=> Left = 1)
    BY StepAt, RestKnown
<1>2. CASE Left = 1
    BY <1>1, <1>2 DEF Advance, Ends
<1>3. CASE Left # 1
  <2> DEFINE c == [command EXCEPT !.steps = Rest, !.missed = @ \/ missed]
  <2>1. command' = c /\ told' = told
      BY <1>1, <1>3 DEF Advance
  <2>2. command \in Command
      BY DEF OnPlan, Command, ServiceTypes
  <2>3. c \in Command /\ c.op = command.op /\ c.token = command.token /\ c.steps = Rest
      BY <2>2, RestKnown DEF Command
  <2>4. c.missed = (command.missed \/ missed)
      BY <2>2 DEF Command
  <2> HIDE DEF c
  <2>5. Left > 1
      BY <1>1, <1>3
  <2>6. OnPlan' /\ Left' = Left - 1 /\ command' # NoCommand
      BY <2>1, <2>3, <2>5, RestKnown, GoesOn
  <2> QED
      BY <1>3, <2>1, <2>3, <2>4, <2>6
<1> QED
    BY <1>2, <1>3
-----------------------------------------------------------------------------
(* What the steps and the host do to the pair, the unit and the promises. *)

LEMMA ServiceInitially == ASSUME ServiceInit PROVE ServiceInv
<1>1. ServiceTypes
  <2>1. platform \in {"linux", "darwin", "windows"}
      BY ServiceAssumption DEF ServiceInit
  <2>2. daemon \in [st : {"off", "up", "dead", "stopping"}, cert : 0 .. made, token : 0 .. issued]
      BY DEF ServiceInit, Off
  <2> QED
      BY <2>1, <2>2 DEF ServiceInit, ServiceTypes
<1>2. OnPlan /\ command = NoCommand
    BY DEF ServiceInit, OnPlan
<1>3. PairLasts /\ UnitHasPair
    BY DEF ServiceInit, PairLasts, PinSurvives, UnitHasPair, Off
<1> QED
    BY <1>1, <1>2, <1>3 DEF ServiceInv

\* A command that begins has done nothing yet.
LEMMA BeginsWell ==
    ASSUME ServiceInv, NEW op \in Commands, NEW steps, steps = Plan(op),
           NEW token \in 0 .. issued, NEW root \in BOOLEAN,
           BeginCommand(op, steps, token, root), rotated => rotated',
           op \in {"regen", "purge"} => rotated', op = "install" => token # 0
    PROVE ServiceInv'
<1> DEFINE c == [op |-> op, steps |-> steps, token |-> token, root |-> root, missed |-> FALSE]
<1>1. /\ UNCHANGED <<certFile, keyFile, expired, unit, tokenFile, atBoot, daemon>>
      /\ UNCHANGED <<platform, issued, pin, made>> /\ command' = c /\ told' = "nothing"
    BY DEF BeginCommand, SameHost, hostVars
<1>2. /\ c.op = op /\ c.steps = steps /\ c.token = token
      /\ c \in [op : Commands, steps : Seq(StepNames), token : 0 .. issued,
                root : BOOLEAN, missed : BOOLEAN]
  <2>1. steps \in Seq(StepNames)
      BY PlansTyped DEF ServiceInv, ServiceTypes
  <2> QED
      BY <2>1
<1>3. Len(steps) \in 1 .. 8 /\ Plan(op)' = steps
    BY <1>1, PlansTyped, PlansStay DEF ServiceInv, ServiceTypes
<1> HIDE DEF c
<1>4. Follows(Plan(c.op))' /\ Left' = Len(steps)
  <2>1. /\ Len(steps) \in 1 .. Len(steps)
        /\ \A i \in 1 .. Len(steps) : Len(steps) - Len(steps) + i = i
      BY <1>3
  <2>2. Plan(c.op)' = steps
      BY <1>2, <1>3
  <2> QED
      BY <1>1, <1>2, <2>1, <2>2 DEF Follows, Left
<1>5. OnPlan'
    BY <1>1, <1>2, <1>4 DEF OnPlan
<1>6. StepsDone'
  <2>1. platform' = platform /\ command'.op = op /\ platform \in {"linux", "darwin", "windows"}
      BY <1>1, <1>2 DEF ServiceInv, ServiceTypes
  <2>2. CASE op \in {"start", "stop"}
      BY <2>1, <2>2 DEF StepsDone, Making
  <2>3. CASE op = "regen"
    <3>1. Len(steps) = 4
        BY <2>3, PlansKnown
    <3>2. Left' = 4
        BY <1>4, <3>1
    <3> QED
        BY <2>1, <2>3, <3>2 DEF StepsDone, Making, CertAt
  <2>4. CASE op = "install"
    <3>1. Len(steps) = IF platform = "darwin" THEN 5 ELSE 7
        BY <2>1, <2>4, PlansKnown
    <3>2. Left' = IF platform = "darwin" THEN 5 ELSE 7
        BY <1>4, <3>1
    <3> QED
        BY <2>1, <2>4, <3>2 DEF StepsDone, Making, CertAt, TokenAt
  <2>5. CASE op = "uninstall"
    <3>1. platform # "windows" => Len(steps) = IF platform = "linux" THEN 5 ELSE 2
        BY <2>1, <2>5, PlansKnown
    <3>2. platform # "windows" => Left' = IF platform = "linux" THEN 5 ELSE 2
        BY <1>4, <3>1
    <3> QED
        BY <2>1, <2>5, <3>2 DEF StepsDone, Making, GoneAt
  <2>6. CASE op = "purge"
    <3>1. platform # "windows" => Len(steps) = IF platform = "linux" THEN 8 ELSE 5
        BY <2>1, <2>6, PlansKnown
    <3>2. platform # "windows" => Left' = IF platform = "linux" THEN 8 ELSE 5
        BY <1>4, <3>1
    <3> QED
        BY <2>1, <2>6, <3>2 DEF StepsDone, Making, GoneAt
  <2> QED
      BY <2>2, <2>3, <2>4, <2>5, <2>6 DEF Commands
<1>7. ServiceTypes'
    BY <1>1 DEF ServiceInv, ServiceTypes
<1>8. PairLasts' /\ UnitHasPair'
    BY <1>1 DEF ServiceInv, PairLasts, PinSurvives, UnitHasPair
<1> QED
    BY <1>5, <1>6, <1>7, <1>8 DEF ServiceInv

\* The agent that is launched.
LEMMA Launched ==
    ASSUME ServiceTypes, NEW d, d = Launch(certFile, keyFile, tokenFile)
    PROVE /\ d \in [st : {"off", "up", "dead", "stopping"}, cert : 0 .. made, token : 0 .. issued]
          /\ d.st \in {"up", "dead"}
          /\ d.st = "up" => d.cert = certFile /\ certFile = keyFile /\ certFile # 0
          /\ tokenFile # 0 /\ certFile # 0 /\ certFile = keyFile => d.st = "up" /\ d.token = tokenFile
BY DEF Launch, Off, ServiceTypes

LEMMA OffTyped ==
    ASSUME ServiceTypes
    PROVE /\ Off \in [st : {"off", "up", "dead", "stopping"}, cert : 0 .. made, token : 0 .. issued]
          /\ Off.st = "off"
BY DEF Off, ServiceTypes

\* The steps that take the pair away belong to a purge, those that make it to an
\* install or a regeneration.
LEMMA StepsOwned ==
    ASSUME ServiceTypes, OnPlan, command # NoCommand
    PROVE /\ Step \in {"key", "cert", "unit", "token", "restart", "enable"} => Making
          /\ Step \in {"rmcert", "rmkey"} => command.op = "purge" /\ rotated
          /\ Step \in {"rmunit", "rmtoken", "delete", "rmcert", "rmkey"} =>
                command.op \in {"uninstall", "purge"}
          /\ command.op = "regen" => rotated
          /\ command.op \in Commands
<1>1. command.op \in Commands
    BY StepAt
<1>2. CASE command.op = "install"
  <2>1. Step \in {"token", "key", "cert", "unit", "reload", "enable", "restart", "unload",
                  "stop", "wait", "start"}
      BY <1>2, InstallAt
  <2> QED
      BY <1>1, <1>2, <2>1 DEF Making
<1>3. CASE command.op = "regen"
    BY <1>3, RegenAt DEF Making, OnPlan
<1>4. CASE command.op \in {"uninstall", "purge"}
    BY <1>4, RemovalAt DEF OnPlan
<1>5. CASE command.op \in {"start", "stop"}
  <2>1. Step \in {"start", "stop"}
      BY <1>5, ControlAt
  <2> QED
      BY <1>1, <1>5, <2>1
<1> QED
    BY <1>1, <1>2, <1>3, <1>4, <1>5 DEF Commands
\* A step of a plan other than the making of the key, done.
LEMMA EffectPair ==
    ASSUME ServiceInv, command # NoCommand, Step # "key", Possible(Step), Effect(Step),
           UNCHANGED <<platform, issued, pin, made, rotated>>
    PROVE /\ PairLasts' /\ UnitHasPair'
          /\ daemon' \in [st : {"off", "up", "dead", "stopping"}, cert : 0 .. made, token : 0 .. issued]
          /\ certFile' \in 0 .. made /\ keyFile' \in 0 .. made /\ tokenFile' \in 0 .. issued
          /\ unit' \in {"none", "partial", "whole"}
<1>1. ServiceTypes /\ OnPlan /\ StepsDone /\ PairLasts /\ UnitHasPair
    BY DEF ServiceInv
<1>2. /\ certFile' = CASE Step = "cert" -> keyFile [] Step = "rmcert" -> 0 [] OTHER -> certFile
      /\ keyFile' = IF Step = "rmkey" THEN 0 ELSE keyFile
      /\ expired' => expired
      /\ unit' = CASE Step = "unit" -> "whole" [] Step \in {"rmunit", "delete"} -> "none"
                   [] OTHER -> unit
    BY DEF Effect
<1>3. Step \in {"rmcert", "rmkey"} => rotated
    BY <1>1, StepsOwned
<1>4. /\ certFile' \in 0 .. made /\ keyFile' \in 0 .. made
      /\ unit' \in {"none", "partial", "whole"}
    BY <1>1, <1>2 DEF ServiceTypes
<1>5. tokenFile' \in {command.token, 0, tokenFile}
    BY DEF Effect
<1>6. tokenFile' \in 0 .. issued
    BY <1>1, <1>5 DEF ServiceTypes, OnPlan
<1>7. \/ daemon' = daemon
      \/ daemon' = Launch(certFile, keyFile, tokenFile) /\ Step \in {"start", "restart"}
      \/ daemon' = Off
      \/ daemon.st = "up" /\ daemon' = [daemon EXCEPT !.st = "stopping"]
    BY DEF Effect
<1>8. daemon' \in [st : {"off", "up", "dead", "stopping"}, cert : 0 .. made, token : 0 .. issued]
    BY <1>1, <1>7, Launched, OffTyped DEF ServiceTypes
<1>9. PairLasts'
  <2>1. expired' => rotated'
      BY <1>1, <1>2 DEF PairLasts
  <2>2. ASSUME ~rotated PROVE /\ certFile' = IF Step = "cert" THEN keyFile ELSE certFile
                              /\ keyFile' = keyFile
      BY <1>2, <1>3, <2>2
  <2>3. PinSurvives'
      BY <1>1, <2>2 DEF PairLasts, PinSurvives
  <2>4. ASSUME daemon'.st = "up", ~rotated
        PROVE daemon'.cert = certFile' /\ certFile' = keyFile' /\ certFile' # 0
    <3>1. CASE daemon' = daemon
        BY <1>1, <2>2, <2>4, <3>1 DEF PairLasts
    <3>2. CASE daemon' = Launch(certFile, keyFile, tokenFile) /\ Step \in {"start", "restart"}
        BY <1>1, <2>2, <2>4, <3>2, Launched
    <3>3. CASE daemon' = Off
        BY <1>1, <2>4, <3>3, OffTyped
    <3>4. CASE daemon.st = "up" /\ daemon' = [daemon EXCEPT !.st = "stopping"]
        BY <1>1, <2>4, <3>4 DEF ServiceTypes
    <3> QED
        BY <1>7, <3>1, <3>2, <3>3, <3>4
  <2> QED
      BY <2>1, <2>3, <2>4 DEF PairLasts
<1>10. UnitHasPair'
  <2>1. SUFFICES ASSUME platform # "windows", unit' = "whole"
                 PROVE certFile' # 0 /\ keyFile' # 0
      BY DEF UnitHasPair
  <2>2. CASE Step \in {"rmcert", "rmkey"}
    <3>1. command.op = "purge" /\ Left < GoneAt
        BY <1>1, <2>1, <2>2, StepsOwned, RemovalAt
    <3>2. unit = "none"
        BY <1>1, <2>1, <3>1 DEF StepsDone
    <3>3. unit' = unit
        BY <1>2, <2>2
    <3> QED
        BY <2>1, <3>2, <3>3
  <2>3. CASE Step = "cert"
    <3>1. Making /\ Left = CertAt
        BY <1>1, <2>3, StepsOwned, InstallAt, RegenAt DEF Making
    <3>2. keyFile # 0
        BY <1>1, <3>1 DEF StepsDone
    <3> QED
        BY <1>2, <2>3, <3>2
  <2>4. CASE Step = "unit"
    <3>1. command.op = "install"
        BY <1>1, <2>4, StepsOwned, RegenAt DEF Making
    <3>2. Left < CertAt
        BY <1>1, <2>1, <2>4, <3>1, InstallAt
    <3>3. certFile = keyFile /\ certFile # 0
        BY <1>1, <3>1, <3>2 DEF StepsDone, Making
    <3> QED
        BY <1>2, <2>4, <3>3
  <2>5. CASE Step \notin {"rmcert", "rmkey", "cert", "unit"}
    <3>1. unit = "whole" /\ certFile' = certFile /\ keyFile' = keyFile
        BY <1>2, <2>1, <2>5
    <3> QED
        BY <1>1, <2>1, <3>1 DEF UnitHasPair
  <2> QED
      BY <2>2, <2>3, <2>4, <2>5
<1> QED
    BY <1>4, <1>6, <1>8, <1>9, <1>10

\* What the steps behind a command have done, after one more that succeeded.
LEMMA EffectDone ==
    ASSUME ServiceInv, command # NoCommand, Step # "key", Possible(Step), Effect(Step),
           UNCHANGED <<platform, issued, pin, made, rotated>>,
           Left # 1, Left' = Left - 1, command'.op = command.op, command'.token = command.token,
           command'.missed <=> command.missed
    PROVE StepsDone'
<1>1. ServiceTypes /\ OnPlan /\ StepsDone /\ Left \in 1 .. 8 /\ command.op \in Commands
    BY StepAt DEF ServiceInv
<1>2. /\ certFile' = CASE Step = "cert" -> keyFile [] Step = "rmcert" -> 0 [] OTHER -> certFile
      /\ keyFile' = IF Step = "rmkey" THEN 0 ELSE keyFile
      /\ unit' = CASE Step = "unit" -> "whole" [] Step \in {"rmunit", "delete"} -> "none"
                   [] OTHER -> unit
    BY DEF Effect
<1>3. /\ CertAt' = CertAt /\ TokenAt' = TokenAt /\ GoneAt' = GoneAt
      /\ Left' = Left - 1 /\ Left' < Left
    BY <1>1 DEF CertAt, TokenAt, GoneAt
<1>4. CASE command.op = "install"
  <2>1. /\ Step = "cert" <=> Left = CertAt
        /\ Step = "key" <=> Left = CertAt + 1
        /\ Step \notin {"rmcert", "rmkey", "rmtoken", "rmunit", "delete"}
        /\ CertAt \in 4 .. 6 /\ TokenAt \in 3 .. 7
      BY <1>1, <1>4, InstallAt
  <2>2. keyFile' = keyFile /\ (Left # CertAt => certFile' = certFile)
        /\ (Left = CertAt => certFile' = keyFile)
      BY <1>2, <2>1
  <2>3. Left' # CertAt
      BY <1>1, <1>3, <2>1
  <2>4. Left' < CertAt => certFile' = keyFile' /\ certFile' # 0
    <3>1. Left' < CertAt => Left = CertAt \/ Left < CertAt
        BY <1>1, <1>3, <2>1
    <3> QED
        BY <1>1, <1>4, <2>2, <3>1 DEF StepsDone, Making
  <2>5. Left' < TokenAt => tokenFile' = command.token
    <3>1. Left' < TokenAt => Left = TokenAt \/ Left < TokenAt
        BY <1>1, <1>3, <2>1
    <3>2. Left = TokenAt => Step = IF platform = "darwin" THEN "unit" ELSE "token"
        BY <1>1, <1>4, InstallAt
    <3>3. Left = TokenAt => tokenFile' = command.token
        BY <2>1, <3>2 DEF Effect
    <3>4. tokenFile' \in {command.token, tokenFile}
        BY <2>1 DEF Effect
    <3>5. Left < TokenAt => tokenFile = command.token
        BY <1>1, <1>4 DEF StepsDone
    <3> QED
        BY <3>1, <3>3, <3>4, <3>5
  <2> QED
      BY <1>3, <1>4, <2>3, <2>4, <2>5 DEF StepsDone, Making
<1>5. CASE command.op = "regen"
  <2>1. /\ Left \in 1 .. 4 /\ CertAt = 3
        /\ Step = IF Left = 4 THEN "key" ELSE IF Left = 3 THEN "cert"
                    ELSE IF Left = 2 THEN "stop" ELSE "start"
      BY <1>1, <1>5, RegenAt
  <2>2. Left \in {2, 3}
      BY <2>1
  <2>3. CASE Left = 3
    <3>1. keyFile # 0 /\ certFile' = keyFile /\ keyFile' = keyFile
        BY <1>1, <1>2, <1>5, <2>1, <2>3 DEF StepsDone, Making
    <3> QED
        BY <1>3, <1>5, <2>1, <2>3, <3>1 DEF StepsDone, Making
  <2>4. CASE Left = 2
    <3>1. certFile = keyFile /\ certFile # 0 /\ certFile' = certFile /\ keyFile' = keyFile
        BY <1>1, <1>2, <1>5, <2>1, <2>4 DEF StepsDone, Making
    <3>2. platform # "windows" => daemon'.st = "off"
        BY <1>1, <2>1, <2>4, OffTyped DEF Effect
    <3> QED
        BY <1>3, <1>5, <2>1, <2>4, <3>1, <3>2 DEF StepsDone, Making
  <2> QED
      BY <2>2, <2>3, <2>4
<1>6. CASE command.op \in {"uninstall", "purge"}
  <2>1. ASSUME platform # "windows", Left' < GoneAt PROVE unit' = "none"
    <3>1. (Left = GoneAt => Step = "rmunit") /\ GoneAt \in 1 .. 6 /\ Step # "unit"
        BY <1>1, <1>6, <2>1, RemovalAt
    <3>2. Left = GoneAt \/ Left < GoneAt
        BY <1>1, <1>3, <2>1, <3>1
    <3>3. Left < GoneAt => unit = "none"
        BY <1>1, <1>6, <2>1 DEF StepsDone
    <3> QED
        BY <1>2, <3>1, <3>2, <3>3
  <2> QED
      BY <1>3, <1>6, <2>1 DEF StepsDone, Making
<1>7. CASE command.op \in {"start", "stop"}
    BY <1>7 DEF StepsDone, Making
<1> QED
    BY <1>1, <1>4, <1>5, <1>6, <1>7 DEF Commands
\* A step that did not happen: it was not needed, or its failure is ignored.
LEMMA SkippedDone ==
    ASSUME ServiceInv, command # NoCommand,
           \/ Ignored(Step) /\ command'.missed
           \/ Needless(Step) /\ (command'.missed <=> command.missed),
           UNCHANGED <<certFile, keyFile, unit, tokenFile, daemon, platform>>,
           Left # 1, Left' = Left - 1, command'.op = command.op, command'.token = command.token
    PROVE StepsDone'
<1>1. ServiceTypes /\ OnPlan /\ StepsDone /\ Left \in 1 .. 8 /\ command.op \in Commands
    BY StepAt DEF ServiceInv
<1>2. /\ CertAt' = CertAt /\ TokenAt' = TokenAt /\ GoneAt' = GoneAt
      /\ Left' = Left - 1 /\ Left' < Left
    BY <1>1 DEF CertAt, TokenAt, GoneAt
<1>3. /\ Step \notin {"key", "cert", "unit", "token"}
      /\ Step = "rmunit" => unit = "none"
      /\ Step = "stop" => command'.missed
  <2>1. CASE Ignored(Step)
      BY <2>1 DEF Ignored, Needless
  <2>2. CASE Needless(Step)
      BY <2>2 DEF Needless
  <2> QED
      BY <2>1, <2>2
<1>4. CASE command.op = "install"
  <2>1. /\ Step = "cert" <=> Left = CertAt
        /\ Step = "key" <=> Left = CertAt + 1
        /\ Left = TokenAt => Step = IF platform = "darwin" THEN "unit" ELSE "token"
        /\ CertAt \in 4 .. 6 /\ TokenAt \in 3 .. 7
      BY <1>1, <1>4, InstallAt
  <2>2. Left # CertAt /\ Left # TokenAt /\ Left # CertAt + 1
      BY <1>3, <2>1
  <2>3. Left' # CertAt /\ (Left' < CertAt => Left < CertAt) /\ (Left' < TokenAt => Left < TokenAt)
      BY <1>1, <1>2, <2>1, <2>2
  <2>4. /\ Left < CertAt => certFile = keyFile /\ certFile # 0
        /\ Left < TokenAt => tokenFile = command.token
      BY <1>1, <1>4 DEF StepsDone, Making
  <2> QED
      BY <1>2, <1>4, <2>3, <2>4 DEF StepsDone, Making
<1>5. CASE command.op = "regen"
  <2>1. /\ Left \in 1 .. 4 /\ CertAt = 3
        /\ Step = IF Left = 4 THEN "key" ELSE IF Left = 3 THEN "cert"
                    ELSE IF Left = 2 THEN "stop" ELSE "start"
      BY <1>1, <1>5, RegenAt
  <2>2. Left = 2
      BY <1>3, <2>1
  <2>3. certFile = keyFile /\ certFile # 0
      BY <1>1, <1>5, <2>1, <2>2 DEF StepsDone, Making
  <2>4. command'.missed
      BY <1>3, <2>1, <2>2
  <2> QED
      BY <1>2, <1>5, <2>1, <2>2, <2>3, <2>4 DEF StepsDone, Making
<1>6. CASE command.op \in {"uninstall", "purge"}
  <2>1. ASSUME platform # "windows", Left' < GoneAt PROVE unit = "none"
    <3>1. (Left = GoneAt => Step = "rmunit") /\ GoneAt \in 1 .. 6
        BY <1>1, <1>6, <2>1, RemovalAt
    <3>2. Left = GoneAt \/ Left < GoneAt
        BY <1>1, <1>2, <2>1, <3>1
    <3>3. Left < GoneAt => unit = "none"
        BY <1>1, <1>6, <2>1 DEF StepsDone
    <3> QED
        BY <1>3, <3>1, <3>2, <3>3
  <2> QED
      BY <1>2, <1>6, <2>1 DEF StepsDone, Making
<1>7. CASE command.op \in {"start", "stop"}
    BY <1>7 DEF StepsDone, Making
<1> QED
    BY <1>1, <1>4, <1>5, <1>6, <1>7 DEF Commands

\* The making of the key, which takes the certificate with it when the pair is valid.
LEMMA KeyMade ==
    ASSUME ServiceInv, command # NoCommand, WriteKey,
           UNCHANGED <<platform, issued, pin, rotated>>
    PROVE ServiceInv'
<1>1. /\ ServiceTypes /\ OnPlan /\ StepsDone /\ PairLasts /\ UnitHasPair
      /\ Left \in 1 .. 8 /\ command.op \in Commands
    BY StepAt DEF ServiceInv
<1>2. Step = "key" /\ UNCHANGED <<certFile, expired, unit, tokenFile, atBoot, daemon, told>>
    BY DEF WriteKey
<1>3. command.op \in {"install", "regen"}
    BY <1>1, <1>2, StepsOwned DEF Making
<1>4. Left = CertAt + 1 /\ CertAt \in 3 .. 6
    BY <1>1, <1>2, <1>3, InstallAt, RegenAt
<1>5. command \in Command
    BY DEF ServiceInv, OnPlan, Command, ServiceTypes
<1>6. ASSUME command.op = "install", Left' < TokenAt, Left' = Left - 1 \/ Left' = Left - 2
      PROVE tokenFile = command.token
  <2>1. Left < TokenAt \/ (platform = "darwin" /\ Left = 5 /\ TokenAt = 3)
        \/ (platform = "windows" /\ Left = 7 /\ TokenAt = 4)
      BY <1>1, <1>4, <1>6 DEF CertAt, TokenAt, ServiceTypes
  <2>2. Left < TokenAt
      BY <1>6, <2>1
  <2> QED
      BY <1>1, <1>6, <2>2 DEF StepsDone
<1>7. ASSUME OnPlan', command' # NoCommand, UNCHANGED <<platform, issued, pin, rotated>>,
             Left' = Left - 1 \/ Left' = Left - 2, command'.op = command.op,
             command'.token = command.token,
             Left' = Left - 2 => certFile = keyFile' /\ certFile # 0, keyFile' # 0
      PROVE StepsDone'
  <2>1. /\ CertAt' = CertAt /\ TokenAt' = TokenAt
        /\ Left' < CertAt => Left' = Left - 2
        /\ command.op = "regen" => Left' # 1 \/ Left' = Left - 2
      BY <1>1, <1>4, <1>7 DEF CertAt, TokenAt
  <2>2. command.op = "regen" => Left = 4
      BY <1>4 DEF CertAt
  <2>3. Left' # 1
      BY <1>4, <1>7
  <2> QED
      BY <1>2, <1>3, <1>6, <1>7, <2>1, <2>3 DEF StepsDone, Making
<1>8. CASE EnsureAgentCert
  <2> DEFINE c == [command EXCEPT !.steps = Rest]
  <2>1. /\ made' = made + 1 /\ keyFile' = made + 1 /\ command' = c
      BY <1>8 DEF WriteKey
  <2>2. c \in Command /\ c.op = command.op /\ c.token = command.token /\ c.steps = Rest
      BY <1>1, <1>5, RestKnown DEF Command
  <2> HIDE DEF c
  <2>3. OnPlan' /\ Left' = Left - 1 /\ command' # NoCommand
    <3>1. Left > 1
        BY <1>4
    <3> QED
        BY <1>1, <2>1, <2>2, <3>1, RestKnown, GoesOn
  <2>4. keyFile' # 0 /\ made \in Nat /\ Left' # Left - 2
      BY <1>1, <2>1, <2>3 DEF ServiceTypes
  <2>5. StepsDone'
      BY <1>7, <2>1, <2>2, <2>3, <2>4
  <2>6. rotated \/ ~CertAndKeyValid
      BY <1>1, <1>3, <1>8 DEF EnsureAgentCert, OnPlan
  <2>7. PairLasts'
      BY <1>1, <1>2, <2>1, <2>6 DEF PairLasts, PinSurvives, CertAndKeyValid
  <2>8. UnitHasPair'
      BY <1>1, <1>2, <2>4 DEF UnitHasPair
  <2>9. ServiceTypes'
      BY <1>1, <1>2, <2>1 DEF ServiceTypes
  <2> QED
      BY <2>3, <2>5, <2>7, <2>8, <2>9 DEF ServiceInv
<1>9. CASE ~EnsureAgentCert
  <2> DEFINE c == [command EXCEPT !.steps = Tail(Rest)]
  <2>1. UNCHANGED <<made, keyFile>> /\ command' = c /\ CertAndKeyValid
      BY <1>9 DEF WriteKey, EnsureAgentCert
  <2>2. Left > 2
      BY <1>4
  <2>3. c \in Command /\ c.op = command.op /\ c.token = command.token /\ c.steps = Tail(Rest)
      BY <1>1, <1>5, <2>2, RestKnown DEF Command
  <2> HIDE DEF c
  <2>4. OnPlan' /\ Left' = Left - 2 /\ command' # NoCommand
      BY <1>1, <2>1, <2>2, <2>3, RestKnown, GoesOn
  <2>5. StepsDone'
      BY <1>7, <2>1, <2>3, <2>4 DEF CertAndKeyValid
  <2>6. PairLasts' /\ UnitHasPair' /\ ServiceTypes'
      BY <1>1, <1>2, <2>1 DEF PairLasts, PinSurvives, UnitHasPair, ServiceTypes
  <2> QED
      BY <2>4, <2>5, <2>6 DEF ServiceInv
<1> QED
    BY <1>8, <1>9
LEMMA EffectMoves ==
    ASSUME ServiceInv, command # NoCommand, Step # "key", Possible(Step), Effect(Step),
           Advance(FALSE), UNCHANGED <<platform, issued, pin, made, rotated>>
    PROVE ServiceInv'
<1>1. ServiceTypes /\ OnPlan /\ told \in {"nothing", "ok", "failed", "killed"}
    BY DEF ServiceInv, ServiceTypes
<1>2. /\ Left = 1 => command' = NoCommand /\ told' = "ok"
      /\ Left # 1 => /\ OnPlan' /\ Left' = Left - 1 /\ command' # NoCommand
                     /\ command'.op = command.op /\ command'.token = command.token
                     /\ command'.missed <=> command.missed
                     /\ told' = told
    BY <1>1, Advanced
<1>3. ServiceTypes' /\ PairLasts' /\ UnitHasPair'
    BY <1>1, <1>2, EffectPair DEF ServiceTypes
<1>4. CASE Left = 1
    BY <1>2, <1>3, <1>4 DEF ServiceInv, OnPlan
<1>5. CASE Left # 1
  <2>1. StepsDone'
      BY <1>2, <1>5, EffectDone
  <2> QED
      BY <1>2, <1>3, <1>5, <2>1 DEF ServiceInv
<1> QED
    BY <1>4, <1>5

\* A step that leaves the host as it is.
LEMMA SkipMoves ==
    ASSUME ServiceInv, command # NoCommand, NEW missed \in BOOLEAN, Advance(missed), SameHost,
           (Ignored(Step) /\ missed) \/ (Needless(Step) /\ ~missed),
           UNCHANGED <<platform, issued, pin, made, rotated>>
    PROVE ServiceInv'
<1>1. ServiceTypes /\ OnPlan /\ told \in {"nothing", "ok", "failed", "killed"}
    BY DEF ServiceInv, ServiceTypes
<1>2. /\ Left = 1 => command' = NoCommand /\ told' = "ok"
      /\ Left # 1 => /\ OnPlan' /\ Left' = Left - 1 /\ command' # NoCommand
                     /\ command'.op = command.op /\ command'.token = command.token
                     /\ command'.missed <=> (command.missed \/ missed)
                     /\ told' = told
    BY <1>1, Advanced
<1>3. UNCHANGED <<certFile, keyFile, expired, unit, tokenFile, atBoot, daemon>>
    BY DEF SameHost, hostVars
<1>4. ServiceTypes' /\ PairLasts' /\ UnitHasPair'
    BY <1>1, <1>2, <1>3 DEF ServiceInv, ServiceTypes, PairLasts, PinSurvives, UnitHasPair
<1>5. CASE Left = 1
    BY <1>2, <1>4, <1>5 DEF ServiceInv, OnPlan
<1>6. CASE Left # 1
  <2>1. StepsDone'
      BY <1>2, <1>3, <1>6, SkippedDone
  <2> QED
      BY <1>2, <1>4, <1>6, <2>1 DEF ServiceInv
<1> QED
    BY <1>5, <1>6

\* The command ends.
LEMMA EndMoves ==
    ASSUME ServiceInv, NEW res \in {"ok", "failed", "killed"}, Ends(res),
           UNCHANGED <<platform, issued, pin, made, rotated, certFile, keyFile, expired, daemon>>,
           tokenFile' \in {0, tokenFile}, unit' \in {"partial", unit}
    PROVE ServiceInv'
<1>1. command' = NoCommand /\ told' = res
    BY DEF Ends
<1>2. ServiceTypes'
    BY <1>1 DEF ServiceInv, ServiceTypes
<1>3. PairLasts' /\ UnitHasPair'
    BY DEF ServiceInv, PairLasts, PinSurvives, UnitHasPair
<1> QED
    BY <1>1, <1>2, <1>3 DEF ServiceInv, OnPlan

LEMMA DoMoves == ASSUME ServiceInv, DoStep PROVE ServiceInv'
<1>1. command # NoCommand /\ UNCHANGED <<platform, issued, code, pin, rotated>>
    BY DEF DoStep
<1>2. CASE WriteKey
    BY <1>1, <1>2, KeyMade
<1>3. CASE Step # "key" /\ Possible(Step) /\ Effect(Step) /\ Advance(FALSE) /\ UNCHANGED made
    BY <1>1, <1>3, EffectMoves
<1>4. CASE Needless(Step) /\ SameHost /\ Advance(FALSE) /\ UNCHANGED made
    BY <1>1, <1>4, SkipMoves
<1> QED
    BY <1>2, <1>3, <1>4 DEF DoStep

LEMMA StepFailMoves == ASSUME ServiceInv, FailStep PROVE ServiceInv'
<1>1. /\ command # NoCommand /\ SameHost /\ UNCHANGED <<platform, issued, pin, made, rotated>>
    BY DEF FailStep
<1>2. CASE Ignored(Step) /\ Advance(TRUE)
  <2>1. TRUE \in BOOLEAN /\ ((Ignored(Step) /\ TRUE) \/ (Needless(Step) /\ ~TRUE))
      BY <1>2
  <2> QED
      BY <1>1, <1>2, <2>1, SkipMoves
<1>3. CASE Ends("failed")
    BY <1>1, <1>3, EndMoves DEF SameHost, hostVars
<1> QED
    BY <1>2, <1>3 DEF FailStep

LEMMA KillMoves == ASSUME ServiceInv, KillCommand PROVE ServiceInv'
<1>1. /\ Ends("killed") /\ UNCHANGED <<platform, issued, pin, made, rotated>>
      /\ UNCHANGED <<certFile, keyFile, expired, daemon>>
      /\ tokenFile' \in {0, tokenFile} /\ unit' \in {"partial", unit}
    BY DEF KillCommand, SameHost, hostVars
<1> QED
    BY <1>1, EndMoves

\* A command that is asked for.
LEMMA CommandMoves ==
    ASSUME ServiceInv,
           \/ RunServiceInstall \/ ExchangeEnrollmentCode \/ RunServiceUninstall
           \/ RunServiceRegenCert \/ RunServiceControl
    PROVE ServiceInv'
<1> USE DEF Commands
<1>1. issued \in 0 .. issued /\ issued # 0 /\ 0 \in 0 .. issued
    BY DEF ServiceInv, ServiceTypes
<1>2. /\ InstallSteps = Plan("install") /\ RegenSteps = Plan("regen")
      /\ <<"start">> = Plan("start") /\ <<"stop">> = Plan("stop")
      /\ UninstallSteps(TRUE) = Plan("purge") /\ UninstallSteps(FALSE) = Plan("uninstall")
    BY DEF Plan
<1>3. ASSUME BeginCommand("install", InstallSteps, issued, TRUE), UNCHANGED rotated
      PROVE ServiceInv'
    BY <1>1, <1>2, <1>3, BeginsWell
<1>4. ASSUME RunServiceUninstall PROVE ServiceInv'
  <2>1. PICK purge \in BOOLEAN, root \in BOOLEAN :
            /\ BeginCommand(IF purge THEN "purge" ELSE "uninstall", UninstallSteps(purge), 0, root)
            /\ rotated' = (rotated \/ purge)
      BY <1>4 DEF RunServiceUninstall
  <2>2. CASE purge = TRUE
    <3>1. BeginCommand("purge", UninstallSteps(TRUE), 0, root) /\ rotated'
        BY <2>1, <2>2
    <3> QED
        BY <1>1, <1>2, <3>1, BeginsWell
  <2>3. CASE purge = FALSE
    <3>1. BeginCommand("uninstall", UninstallSteps(FALSE), 0, root) /\ (rotated => rotated')
        BY <2>1, <2>3
    <3> QED
        BY <1>1, <1>2, <3>1, BeginsWell
  <2> QED
      BY <2>2, <2>3
<1>5. ASSUME RunServiceRegenCert PROVE ServiceInv'
  <2>1. BeginCommand("regen", RegenSteps, 0, TRUE) /\ rotated'
      BY <1>5 DEF RunServiceRegenCert
  <2> QED
      BY <1>1, <1>2, <2>1, BeginsWell
<1>6. ASSUME RunServiceControl PROVE ServiceInv'
  <2>1. PICK op \in {"start", "stop"} : BeginCommand(op, <<op>>, 0, TRUE)
      BY <1>6 DEF RunServiceControl
  <2>2. op \in Commands /\ <<op>> = Plan(op) /\ op \notin {"regen", "purge", "install"}
      BY <1>2, <2>1
  <2>3. rotated' = rotated
      BY <1>6 DEF RunServiceControl
  <2> QED
      BY <1>1, <2>1, <2>2, <2>3, BeginsWell
<1>7. ASSUME command = NoCommand, told' = "failed", SameHost,
             UNCHANGED <<platform, issued, pin, made, command, rotated>>
      PROVE ServiceInv'
    BY <1>7 DEF ServiceInv, ServiceTypes, OnPlan, PairLasts, PinSurvives, UnitHasPair,
                SameHost, hostVars
<1> QED
    BY <1>3, <1>4, <1>5, <1>6, <1>7 DEF RunServiceInstall, ExchangeEnrollmentCode

\* The daemon changes by itself or with the host.
LEMMA DaemonMoves ==
    ASSUME ServiceInv, StopCompletes \/ AgentDies \/ HostReboots \/ SupervisorRestarts
    PROVE ServiceInv'
<1>1. UNCHANGED <<certFile, keyFile, expired, unit, tokenFile, atBoot, platform, issued, code,
                  pin, command, told, made, rotated>>
    BY DEF StopCompletes, AgentDies, HostReboots, SupervisorRestarts, DaemonOnly, HostOnly
<1>2. ServiceTypes /\ PairLasts
    BY DEF ServiceInv
<1>3. \/ daemon' = Off
      \/ daemon' = [Off EXCEPT !.st = "dead"]
      \/ daemon' = Launch(certFile, keyFile, tokenFile)
    BY DEF StopCompletes, AgentDies, HostReboots, SupervisorRestarts
<1>4. /\ daemon' \in [st : {"off", "up", "dead", "stopping"}, cert : 0 .. made, token : 0 .. issued]
      /\ daemon'.st = "up" => daemon'.cert = certFile /\ certFile = keyFile /\ certFile # 0
  <2>1. CASE daemon' = Off
      BY <1>2, <2>1, OffTyped
  <2>2. CASE daemon' = [Off EXCEPT !.st = "dead"]
      BY <1>2, <2>2 DEF Off, ServiceTypes
  <2>3. CASE daemon' = Launch(certFile, keyFile, tokenFile)
      BY <1>2, <2>3, Launched
  <2> QED
      BY <1>3, <2>1, <2>2, <2>3
<1>5. command # NoCommand /\ daemon.st = "off" => daemon'.st = "off"
    BY <1>2, OffTyped DEF StopCompletes, AgentDies, HostReboots, SupervisorRestarts
<1>6. ServiceTypes' /\ PairLasts' /\ UnitHasPair'
    BY <1>1, <1>4 DEF ServiceInv, ServiceTypes, PairLasts, PinSurvives, UnitHasPair
<1>7. OnPlan' /\ Left' = Left
  <2>1. \A op : Plan(op)' = Plan(op)
      BY <1>1, PlansStay
  <2> QED
      BY <1>1, <2>1 DEF ServiceInv, OnPlan, Follows, Left
<1>8. command' # NoCommand => StepsDone'
    BY <1>1, <1>5, <1>7 DEF ServiceInv, StepsDone, Making, CertAt, TokenAt, GoneAt
<1> QED
    BY <1>6, <1>7, <1>8 DEF ServiceInv

\* Expiry, a rotated token and a pinned certificate.
LEMMA ServerMoves ==
    ASSUME ServiceInv, CertExpires \/ RotateToken \/ PinCertificate \/ UNCHANGED serviceVars
    PROVE ServiceInv'
<1>1. /\ UNCHANGED <<certFile, keyFile, unit, tokenFile, daemon, platform, command, told, made>>
      /\ rotated => rotated'
      /\ issued' \in {issued, issued + 1}
      /\ expired' = expired \/ rotated'
      /\ pin' = pin \/ (daemon.st = "up" /\ ~rotated /\ pin' = daemon.cert)
      /\ rotated' \/ rotated' = rotated
    BY DEF CertExpires, RotateToken, PinCertificate, serviceVars, hostVars, SameHost
<1>2. ServiceTypes'
    BY <1>1 DEF ServiceInv, ServiceTypes
<1>3. PairLasts' /\ UnitHasPair'
    BY <1>1 DEF ServiceInv, PairLasts, PinSurvives, UnitHasPair
<1>4. OnPlan' /\ Left' = Left
  <2>1. \A op : Plan(op)' = Plan(op)
      BY <1>1, PlansStay
  <2>2. ServiceTypes /\ OnPlan
      BY DEF ServiceInv
  <2>3. \A t \in 0 .. issued : t \in 0 .. issued'
      BY <1>1, <2>2 DEF ServiceTypes
  <2> QED
      BY <1>1, <2>1, <2>2, <2>3 DEF OnPlan, Follows, Left
<1>5. command' # NoCommand => StepsDone'
    BY <1>1, <1>4 DEF ServiceInv, StepsDone, Making, CertAt, TokenAt, GoneAt
<1> QED
    BY <1>2, <1>3, <1>4, <1>5 DEF ServiceInv

LEMMA ServiceMoves == ASSUME ServiceInv, [ServiceNext]_serviceVars PROVE ServiceInv'
BY CommandMoves, DoMoves, StepFailMoves, KillMoves, DaemonMoves, ServerMoves DEF ServiceNext

LEMMA ServiceShown == ASSUME ServiceInv PROVE ServiceTypeOK /\ PinSurvives /\ UnitHasPair
BY DEF ServiceInv, ServiceTypes, PairLasts, ServiceTypeOK
\* The last step of a command that succeeds.
Succeeded ==
    /\ command.op = "install" \/ (command.op = "regen" /\ tokenFile # 0 /\ ~command.missed) =>
         daemon'.st = "up" /\ daemon'.cert = certFile /\ certFile = keyFile
    /\ command.op = "install" => daemon'.token = command.token
    /\ command.op \in {"uninstall", "purge"} /\ platform # "windows" => unit' = "none"

LEMMA LastStep ==
    ASSUME ServiceInv, command # NoCommand, Left = 1,
           \/ Possible(Step) /\ Effect(Step)
           \/ Needless(Step) /\ SameHost
           \/ Ignored(Step) /\ SameHost
    PROVE Succeeded
<1>1. ServiceTypes /\ OnPlan /\ StepsDone
    BY DEF ServiceInv
<1>2. ASSUME command.op \in {"install", "regen"} PROVE Possible(Step) /\ Effect(Step)
  <2>1. Step \in {"start", "restart"}
      BY <1>1, <1>2, InstallAt, RegenAt
  <2> QED
      BY <1>2, <2>1 DEF Ignored, Needless
<1>3. ASSUME command.op \in {"install", "regen"}, tokenFile # 0,
             command.op = "install" \/ ~command.missed
      PROVE /\ daemon'.st = "up" /\ daemon'.cert = certFile /\ certFile = keyFile
            /\ daemon'.token = tokenFile
  <2>1. certFile = keyFile /\ certFile # 0
      BY <1>1, <1>3, InstallAt, RegenAt DEF StepsDone, Making
  <2>2. Step \in {"start", "restart"} /\ (Step = "start" => daemon.st # "up")
    <3>1. CASE command.op = "install"
      <4>1. Step \in {"start", "restart"} /\ (Step = "start" => platform # "linux")
          BY <1>1, <3>1, InstallAt
      <4> QED
          BY <1>2, <3>1, <4>1 DEF Possible
    <3>2. CASE command.op = "regen"
      <4>1. Step = "start"
          BY <1>1, <3>2, RegenAt
      <4>2. CASE platform = "windows"
          BY <1>2, <3>2, <4>1, <4>2 DEF Possible
      <4>3. CASE platform # "windows"
        <5>1. daemon.st = "off"
            BY <1>1, <1>3, <3>2, <4>3 DEF StepsDone
        <5> QED
            BY <4>1, <5>1
      <4> QED
          BY <4>2, <4>3
    <3> QED
        BY <1>3, <3>1, <3>2
  <2>3. daemon' = Launch(certFile, keyFile, tokenFile)
    <3>1. Effect(Step)
        BY <1>2, <1>3
    <3> QED
        BY <2>2, <3>1 DEF Effect
  <2> QED
      BY <1>1, <1>3, <2>1, <2>3, Launched
<1>4. ASSUME command.op = "install" PROVE tokenFile = command.token /\ tokenFile # 0
  <2>1. TokenAt \in 3 .. 7
      BY <1>1, <1>4, InstallAt
  <2>2. tokenFile = command.token
      BY <1>1, <1>4, <2>1 DEF StepsDone
  <2>3. command.token # 0
      BY <1>1, <1>4 DEF OnPlan
  <2> QED
      BY <2>2, <2>3
<1>5. ASSUME command.op \in {"uninstall", "purge"}, platform # "windows" PROVE unit' = "none"
  <2>1. Left = GoneAt \/ Left < GoneAt
      BY <1>1, <1>5, RemovalAt
  <2>2. CASE Left < GoneAt
    <3>1. unit = "none" /\ Step # "unit"
        BY <1>1, <1>5, <2>2, RemovalAt DEF StepsDone
    <3> QED
        BY <3>1 DEF Effect, SameHost, hostVars
  <2>3. CASE Left = GoneAt
    <3>1. Step = "rmunit"
        BY <1>1, <1>5, <2>3, RemovalAt
    <3> QED
        BY <3>1 DEF Effect, SameHost, hostVars, Ignored, Needless
  <2> QED
      BY <2>1, <2>2, <2>3
<1> QED
    BY <1>3, <1>4, <1>5 DEF Succeeded

\* No other step reports a success.
LEMMA ServiceStepsSafe ==
    ASSUME ServiceInv, [ServiceNext]_serviceVars, told' = "ok", told # "ok"
    PROVE Succeeded
<1>1. command # NoCommand
      /\ \/ Possible(Step) /\ Effect(Step)
         \/ Needless(Step) /\ SameHost
         \/ Ignored(Step) /\ SameHost
      /\ \E missed \in BOOLEAN : Advance(missed)
      /\ UNCHANGED <<platform, issued, rotated>>
  <2>1. CASE RunServiceInstall \/ ExchangeEnrollmentCode \/ RunServiceUninstall
             \/ RunServiceRegenCert \/ RunServiceControl
      BY <2>1 DEF RunServiceInstall, ExchangeEnrollmentCode, RunServiceUninstall,
                  RunServiceRegenCert, RunServiceControl, BeginCommand
  <2>2. CASE DoStep
      BY <2>2 DEF DoStep, WriteKey
  <2>3. CASE FailStep
      BY <2>3 DEF FailStep, Ends
  <2>4. CASE KillCommand
      BY <2>4 DEF KillCommand, Ends
  <2>5. CASE StopCompletes \/ AgentDies \/ HostReboots \/ SupervisorRestarts
      BY <2>5 DEF StopCompletes, AgentDies, HostReboots, SupervisorRestarts, DaemonOnly,
         HostOnly
  <2>6. CASE CertExpires \/ RotateToken \/ PinCertificate \/ UNCHANGED serviceVars
      BY <2>6 DEF CertExpires, RotateToken, PinCertificate, serviceVars
  <2> QED
      BY <2>1, <2>2, <2>3, <2>4, <2>5, <2>6 DEF ServiceNext
<1>2. Left = 1
  <2>1. ServiceTypes /\ OnPlan
      BY DEF ServiceInv
  <2>2. PICK missed \in BOOLEAN : Advance(missed)
      BY <1>1
  <2> QED
      BY <1>1, <2>1, <2>2, Advanced
<1> QED
    BY <1>1, <1>2, LastStep

\* The pinned pair and the registration survive every command of the service
\* (install, uninstall, regen-cert).
THEOREM ServiceKept == ServiceSpec => [](ServiceTypeOK /\ PinSurvives /\ UnitHasPair)
<1>1. ServiceInit => ServiceInv
    BY ServiceInitially
<1>2. ServiceInv /\ [ServiceNext]_serviceVars => ServiceInv'
    BY ServiceMoves
<1>3. ServiceInv => ServiceTypeOK /\ PinSurvives /\ UnitHasPair
    BY ServiceShown
<1> QED
    BY <1>1, <1>2, <1>3, PTL DEF ServiceSpec

\* A command of the service that reports success has done its work.
THEOREM SuccessIsDone == ServiceSpec => ToldIsDone
<1>1. ServiceInit => ServiceInv
    BY ServiceInitially
<1>2. ServiceInv /\ [ServiceNext]_serviceVars => ServiceInv'
    BY ServiceMoves
<1>3. ServiceInv /\ [ServiceNext]_serviceVars =>
        [told' = "ok" /\ told # "ok" => Succeeded]_serviceVars
    BY ServiceStepsSafe
<1>4. ToldIsDone <=> [][told' = "ok" /\ told # "ok" => Succeeded]_serviceVars
    BY PTL DEF ToldIsDone, Succeeded
<1> QED
    BY <1>1, <1>2, <1>3, <1>4, PTL DEF ServiceSpec

-----------------------------------------------------------------------------
(* The walk over the candidates. *)

Visited == Candidates \ left
ScoreSets ==
    /\ node \in [Candidates -> Attributes] /\ prefixOn \in BOOLEAN
    /\ preferred \in Candidates \cup {NoNode} /\ left \subseteq Candidates
    /\ scored \in [Candidates -> Nat \cup {-1}] /\ outcomes \in 0 .. MaxOutcomes

\* The leader is the best of the nodes visited, and holds what is reserved.
Leads(b) ==
    /\ \A n \in Visited : /\ scored[n] <= scored[b]
                          /\ scored[n] = scored[b] => b <= n
    /\ booked = IF node[b].warm THEN {} ELSE {b}
ScoreInv ==
    /\ ScoreSets
    /\ \/ best \in Visited /\ Leads(best)
       \/ Visited = {} /\ best = NoNode /\ booked = {}
    /\ \A n \in Visited : scored[n] \in Nat
    /\ outcomes = 0 => \A n \in Visited : scored[n] = Score(n)

\* The two shares of a load.
LEMMA Shares ==
    ASSUME NEW l \in Loads
    PROVE 60 \div (1 + l) \in 1 .. 60 /\ 80 \div (1 + l) \in 0 .. 80
<1>1. l \in {0, 1, 3, 4, 9, 11, 14, 19, 29, 59}
    BY NodeScoreAssumption
<1>2. /\ 60 \div 1 = 60 /\ 60 \div 2 = 30 /\ 60 \div 4 = 15 /\ 60 \div 5 = 12 /\ 60 \div 10 = 6
      /\ 60 \div 12 = 5 /\ 60 \div 15 = 4 /\ 60 \div 20 = 3 /\ 60 \div 30 = 2 /\ 60 \div 60 = 1
    OBVIOUS
<1>3. /\ 80 \div 1 = 80 /\ 80 \div 2 = 40 /\ 80 \div 4 = 20 /\ 80 \div 5 = 16 /\ 80 \div 10 = 8
      /\ 80 \div 12 = 6 /\ 80 \div 15 = 5 /\ 80 \div 20 = 4 /\ 80 \div 30 = 2 /\ 80 \div 60 = 1
    OBVIOUS
<1> QED
    BY <1>1, <1>2, <1>3

\* What a node's terms add up to: a warm node without a penalty is above 200, one that
\* is cold and has no hint at most there.
LEMMA Scores ==
    ASSUME node \in [Candidates -> Attributes], NEW n \in Candidates
    PROVE /\ Score(n) \in Nat
          /\ ~prefixOn /\ node[n].warm /\ ~Penalised(n) => Score(n) > 200
          /\ ~prefixOn /\ ~node[n].warm => Score(n) <= 200
<1> DEFINE a == node[n]
           w == IF a.warm THEN 4 * 50 ELSE 0
           v == IF a.static THEN (4 * 20) \div (1 + a.load) ELSE 80 * a.free
           p == IF prefixOn /\ preferred = n THEN PrefixWeight ELSE 0
           base == w + v + InverseQueue(n) + 40 * a.health + 20 * a.success + p
           cooled == IF a.cooling THEN Floored(base - 200) ELSE base
<1>1. /\ a.load \in Loads /\ a.free \in 0 .. 1 /\ a.health \in 0 .. 1 /\ a.success \in 0 .. 1
    BY DEF Attributes
<1>2. w \in {0, 200} /\ (a.warm <=> w = 200)
    OBVIOUS
<1>3. v \in 0 .. 80
  <2>1. 80 * a.free \in 0 .. 80
      BY <1>1
  <2>2. (4 * 20) \div (1 + a.load) \in 0 .. 80
    <3>1. 4 * 20 = 80
        OBVIOUS
    <3> QED
        BY <1>1, <3>1, Shares
  <2> QED
      BY <2>1, <2>2
<1>4. InverseQueue(n) \in 1 .. 60
  <2>1. 4 * 15 = 60
      OBVIOUS
  <2> QED
      BY <1>1, <2>1, Shares DEF InverseQueue
<1>5. p \in Nat /\ (~prefixOn => p = 0)
    BY NodeScoreAssumption
<1>6. 40 * a.health \in 0 .. 40 /\ 20 * a.success \in 0 .. 20
    BY <1>1
<1>7. Score(n) = IF a.stale THEN Floored(cooled - 200) ELSE cooled
    BY DEF Score
<1> HIDE DEF w, v, p
<1>8. /\ base \in Nat /\ (~prefixOn /\ w = 200 => base > 200)
      /\ ~prefixOn /\ w = 0 => base <= 200
  <2>1. /\ base \in Nat /\ (p = 0 /\ w = 200 => base > 200)
        /\ p = 0 /\ w = 0 => base <= 200
    <3> DEFINE q == InverseQueue(n)
               h == 40 * a.health
               u == 20 * a.success
    <3>1. q \in 1 .. 60 /\ h \in 0 .. 40 /\ u \in 0 .. 20
        BY <1>4, <1>6
    <3>2. base = w + v + q + h + u + p
        OBVIOUS
    <3> HIDE DEF q, h, u, base
    <3>3. w \in 0 .. 200 /\ v \in 0 .. 80 /\ p \in Nat
        BY <1>2, <1>3, <1>5
    <3>4. base \in Nat
        BY <3>1, <3>2, <3>3
    <3>5. p = 0 /\ w = 200 => base > 200
        BY <3>1, <3>2, <3>3
    <3>6. p = 0 /\ w = 0 => base <= 200
        BY <3>1, <3>2, <3>3
    <3> QED
        BY <3>4, <3>5, <3>6
  <2> QED
      BY <1>5, <2>1
<1> HIDE DEF base
<1>9. cooled \in Nat /\ cooled <= base
    BY <1>8 DEF Floored
<1>10. Floored(cooled - 200) \in Nat /\ Floored(cooled - 200) <= cooled
    BY <1>9 DEF Floored
<1> QED
    BY <1>2, <1>7, <1>8, <1>9, <1>10 DEF Penalised

LEMMA ScoreInitially == ASSUME ScoreInit PROVE ScoreInv
<1>1. Visited = {} /\ best = NoNode /\ booked = {}
    BY DEF ScoreInit, Visited
<1>2. ScoreSets
    BY NodeScoreAssumption DEF ScoreInit, ScoreSets
<1> QED
    BY <1>1, <1>2 DEF ScoreInv

LEMMA VisitMoves ==
    ASSUME ScoreInv, NEW n \in Candidates, FindBestByScore(n)
    PROVE ScoreInv'
<1>1. /\ n \in left /\ n \notin Visited /\ Visited' = Visited \cup {n}
      /\ Visited \subseteq Candidates /\ NoNode \notin Candidates
      /\ UNCHANGED <<node, prefixOn, preferred, outcomes>>
    BY NodeScoreAssumption DEF FindBestByScore, Visited, ScoreInv, ScoreSets, NoNode
<1>2. Score(n) \in Nat /\ \A m \in Candidates : Score(m)' = Score(m)
    BY <1>1, Scores DEF ScoreInv, ScoreSets, Score, InverseQueue
<1>3. /\ scored'[n] = Score(n) /\ \A m \in Visited : scored'[m] = scored[m]
      /\ scored' \in [Candidates -> Nat \cup {-1}]
    BY <1>1, <1>2 DEF FindBestByScore, ScoreInv, ScoreSets
<1>4. ScoreSets' /\ (\A m \in Visited' : scored'[m] \in Nat)
    BY <1>1, <1>2, <1>3 DEF ScoreInv, ScoreSets, FindBestByScore
<1>5. outcomes' = 0 => \A m \in Visited' : scored'[m] = Score(m)'
    BY <1>1, <1>2, <1>3 DEF ScoreInv
<1>6. best' \in Visited' /\ Leads(best)'
  <2> DEFINE leads == \/ best = NoNode
                      \/ Score(n) > scored[best]
                      \/ Score(n) = scored[best] /\ n < best
  <2>1. CASE leads
    <3>1. best' = n /\ booked' = IF node[n].warm THEN {} ELSE {n}
        BY <2>1 DEF FindBestByScore
    <3>2. \A m \in Visited : scored[m] <= Score(n) /\ (scored[m] = Score(n) => n <= m)
      <4>1. CASE Visited = {}
          BY <4>1
      <4>2. CASE Visited # {}
        <5>1. best \in Visited /\ Leads(best)
            BY <4>2 DEF ScoreInv
        <5>2. \/ Score(n) > scored[best]
              \/ Score(n) = scored[best] /\ n < best
            BY <1>1, <2>1, <5>1
        <5>3. \A m \in Visited : /\ scored[m] \in Nat /\ m \in Nat
                                 /\ scored[m] <= scored[best]
                                 /\ scored[m] = scored[best] => best <= m
            BY <1>1, <5>1, NodeScoreAssumption DEF ScoreInv, Leads
        <5>4. n \in Nat /\ best \in Nat /\ scored[best] \in Nat
            BY <5>1, <5>3, NodeScoreAssumption
        <5> QED
            BY <1>2, <5>2, <5>3, <5>4
      <4> QED
          BY <4>1, <4>2
    <3>3. \A m \in Visited' : scored'[m] <= scored'[n] /\ (scored'[m] = scored'[n] => n <= m)
        BY <1>1, <1>2, <1>3, <3>2, NodeScoreAssumption
    <3> QED
        BY <1>1, <3>1, <3>3 DEF Leads
  <2>2. CASE ~leads
    <3>1. best' = best /\ booked' = booked /\ best \in Visited /\ Leads(best)
        BY <1>1, <2>2 DEF FindBestByScore, ScoreInv
    <3>2. best \in Nat /\ n \in Nat /\ scored[best] \in Nat
        BY <1>1, <3>1, NodeScoreAssumption DEF ScoreInv
    <3>3. Score(n) <= scored[best] /\ (Score(n) = scored[best] => best <= n)
        BY <1>2, <2>2, <3>2
    <3>4. \A m \in Visited' : /\ scored'[m] <= scored'[best]
                              /\ scored'[m] = scored'[best] => best <= m
        BY <1>1, <1>3, <3>1, <3>3 DEF Leads
    <3> QED
        BY <1>1, <3>1, <3>4 DEF Leads
  <2> QED
      BY <2>1, <2>2
<1> QED
    BY <1>4, <1>5, <1>6 DEF ScoreInv

LEMMA OutcomeMoves ==
    ASSUME ScoreInv, NEW n \in Candidates, NEW ok \in BOOLEAN, RecordRequestOutcome(n, ok)
    PROVE ScoreInv'
<1>1. /\ UNCHANGED <<prefixOn, preferred, left, scored, best, booked>>
      /\ outcomes' = outcomes + 1 /\ outcomes < MaxOutcomes
    BY DEF RecordRequestOutcome
<1>2. PICK l \in Loads : node' = [node EXCEPT ![n] = [node[n] EXCEPT
                            !.load = l, !.success = IF ok THEN @ ELSE 0, !.cooling = @ \/ ~ok]]
    BY DEF RecordRequestOutcome
<1> DEFINE a == [node[n] EXCEPT
                            !.load = l, !.success = IF ok THEN @ ELSE 0, !.cooling = @ \/ ~ok]
<1>3. a \in Attributes /\ (a.warm <=> node[n].warm)
  <2>1. node[n] \in Attributes
      BY DEF ScoreInv, ScoreSets
  <2>2. (node[n].cooling \/ ~ok) \in BOOLEAN
      BY Zenon
  <2>3. (IF ok THEN node[n].success ELSE 0) \in 0 .. 1
      BY <2>1 DEF Attributes
  <2> QED
      BY <2>1, <2>2, <2>3 DEF Attributes
<1>4. node' = [node EXCEPT ![n] = a]
    BY <1>2
<1> HIDE DEF a
<1>5. node' \in [Candidates -> Attributes] /\ \A m \in Candidates : node'[m].warm <=> node[m].warm
    BY <1>3, <1>4 DEF ScoreInv, ScoreSets
<1>6. ScoreSets' /\ Visited' = Visited /\ outcomes' # 0
    BY <1>1, <1>5, NodeScoreAssumption DEF ScoreInv, ScoreSets, Visited
<1>7. ASSUME best \in Visited, Leads(best) PROVE Leads(best)'
    BY <1>1, <1>5, <1>6, <1>7 DEF Leads, Visited
<1> QED
    BY <1>1, <1>6, <1>7 DEF ScoreInv

LEMMA ScoreMoves == ASSUME ScoreInv, [ScoreNext]_scoreVars PROVE ScoreInv'
<1>1. CASE UNCHANGED scoreVars
    BY <1>1 DEF scoreVars, ScoreInv, ScoreSets, Visited, Leads, Score, InverseQueue
<1> QED
    BY <1>1, VisitMoves, OutcomeMoves DEF ScoreNext

LEMMA ScoreShown == ASSUME ScoreInv PROVE ScoreTypeOK /\ PlacedOnBest /\ WarmBeatsCold
<1>1. \/ best \in Visited /\ Leads(best)
      \/ Visited = {} /\ best = NoNode /\ booked = {}
    BY DEF ScoreInv
<1>2. ScoreTypeOK
    BY <1>1 DEF ScoreInv, ScoreSets, ScoreTypeOK, Leads, Visited
<1>3. ASSUME left = {} PROVE Visited = Candidates /\ best \in Candidates /\ Leads(best)
    BY <1>1, <1>3, NodeScoreAssumption DEF Visited
<1>4. PlacedOnBest
    BY <1>3 DEF PlacedOnBest, Leads
<1>5. ASSUME left = {}, ~prefixOn, outcomes = 0, NEW n \in Candidates, node[n].warm, ~Penalised(n)
      PROVE node[best].warm
  <2>1. /\ Visited = Candidates /\ best \in Candidates /\ scored[n] <= scored[best]
        /\ scored[n] = Score(n) /\ scored[best] = Score(best)
      BY <1>3, <1>5 DEF ScoreInv, Leads
  <2>2. Score(n) > 200 /\ (~node[best].warm => Score(best) <= 200)
        /\ Score(n) \in Nat /\ Score(best) \in Nat
      BY <1>5, <2>1, Scores DEF ScoreInv, ScoreSets
  <2> QED
      BY <2>1, <2>2
<1> QED
    BY <1>2, <1>4, <1>5 DEF WarmBeatsCold

-----------------------------------------------------------------------------
(* Folds over finite sets. *)

Chooses(c, D) == \A s \in SUBSET D : s # {} => c[s] \in s
\* w folds G over the subsets of D from b, taking the element that c chooses.
FoldOf(D, G, b, c, w) ==
    /\ w[{}] = b
    /\ \A s \in SUBSET D : s # {} => w[s] = G[<<c[s], w[s \ {c[s]}]>>]

\* A function of the subsets of a finite set can be defined by what it does with one
\* element more.
LEMMA FoldExists ==
    ASSUME NEW D, IsFiniteSet(D), NEW V, NEW G \in [D \X V -> V], NEW b \in V,
           NEW c, Chooses(c, D)
    PROVE \E w \in [SUBSET D -> V] : FoldOf(D, G, b, c, w)
<1> USE DEF Chooses
<1> DEFINE Closed(Q) == /\ <<{}, b>> \in Q
                        /\ \A s \in SUBSET D, v \in V :
                              s # {} /\ <<s \ {c[s]}, v>> \in Q => <<s, G[<<c[s], v>>]>> \in Q
           All == (SUBSET D) \X V
           Least == {z \in All : \A Q \in SUBSET All : Closed(Q) => z \in Q}
           Val(s) == {v \in V : <<s, v>> \in Least}
           Bad == {s \in SUBSET D : ~\E v \in V : Val(s) = {v}}
<1>1. Closed(Least)
  <2>1. <<{}, b>> \in Least
      OBVIOUS
  <2>2. ASSUME NEW s \in SUBSET D, NEW v \in V, s # {}, <<s \ {c[s]}, v>> \in Least
        PROVE <<s, G[<<c[s], v>>]>> \in Least
    <3>1. c[s] \in D /\ G[<<c[s], v>>] \in V
        BY <2>2
    <3>2. ASSUME NEW Q \in SUBSET All, Closed(Q) PROVE <<s, G[<<c[s], v>>]>> \in Q
      <4>1. <<s \ {c[s]}, v>> \in Q
          BY <2>2, <3>2
      <4> QED
          BY <2>2, <3>2, <4>1
    <3> HIDE DEF Closed
    <3> QED
        BY <3>1, <3>2
  <2> HIDE DEF Least
  <2> QED
      BY <2>1, <2>2
<1>2. ASSUME NEW z \in Least, Closed(Least \ {z}) PROVE FALSE
  <2>1. Least \ {z} \in SUBSET All
      OBVIOUS
  <2> QED
      BY <1>2, <2>1
<1> HIDE DEF Least
<1>4. Val({}) = {b}
  <2>1. b \in Val({})
      BY <1>1
  <2>2. ASSUME NEW v \in Val({}), v # b PROVE FALSE
    <3>1. Closed(Least \ {<<{}, v>>})
        BY <1>1, <2>2
    <3> QED
        BY <1>2, <2>2, <3>1
  <2> QED
      BY <2>1, <2>2
<1>5. ASSUME NEW s \in SUBSET D, s # {}, NEW v \in V, Val(s \ {c[s]}) = {v}
      PROVE Val(s) = {G[<<c[s], v>>]}
  <2>1. c[s] \in D /\ G[<<c[s], v>>] \in V /\ s \ {c[s]} \in SUBSET D
      BY <1>5
  <2>2. G[<<c[s], v>>] \in Val(s)
      BY <1>1, <1>5, <2>1
  <2>3. ASSUME NEW u \in Val(s), u # G[<<c[s], v>>] PROVE FALSE
    <3>1. Closed(Least \ {<<s, u>>})
      <4>1. <<{}, b>> \in Least \ {<<s, u>>}
          BY <1>1, <1>5
      <4>2. ASSUME NEW t \in SUBSET D, NEW x \in V, t # {},
                   <<t \ {c[t]}, x>> \in Least \ {<<s, u>>}
            PROVE <<t, G[<<c[t], x>>]>> \in Least \ {<<s, u>>}
        <5>1. <<t, G[<<c[t], x>>]>> \in Least
            BY <1>1, <4>2
        <5>2. CASE t # s
            BY <5>1, <5>2
        <5>3. CASE t = s
          <6>1. x \in Val(s \ {c[s]})
              BY <4>2, <5>3
          <6> QED
              BY <1>5, <2>3, <5>1, <5>3, <6>1
        <5> QED
            BY <5>2, <5>3
      <4> QED
          BY <4>1, <4>2
    <3> QED
        BY <1>2, <2>3, <3>1
  <2> QED
      BY <2>2, <2>3
<1> HIDE DEF Val, Closed
<1>6. Bad = {}
  <2>1. SUFFICES ASSUME Bad # {} PROVE FALSE
      OBVIOUS
  <2>2. PICK X \in Bad : \A Y \in Bad : Y \subseteq X => Y = X
    <3>1. Bad \subseteq SUBSET D
        OBVIOUS
    <3> HIDE DEF Bad
    <3> QED
        BY <2>1, <3>1, SmallestSet
  <2>3. X # {}
      BY <1>4
  <2>4. X \ {c[X]} \in SUBSET D /\ X \ {c[X]} \notin Bad
      BY <2>2, <2>3
  <2>5. PICK v \in V : Val(X \ {c[X]}) = {v}
      BY <2>4
  <2>6. G[<<c[X], v>>] \in V
      BY <2>3
  <2> QED
      BY <1>5, <2>3, <2>5, <2>6
<1> DEFINE w == [s \in SUBSET D |-> CHOOSE v \in V : Val(s) = {v}]
<1>7. \A s \in SUBSET D : w[s] \in V /\ Val(s) = {w[s]}
    BY <1>6
<1>8. w \in [SUBSET D -> V]
    BY <1>7
<1> HIDE DEF w, Bad
<1>9. w[{}] = b
    BY <1>4, <1>7
<1>10. ASSUME NEW s \in SUBSET D, s # {} PROVE w[s] = G[<<c[s], w[s \ {c[s]}]>>]
  <2>1. s \ {c[s]} \in SUBSET D
      OBVIOUS
  <2>2. Val(s) = {G[<<c[s], w[s \ {c[s]}]>>]}
      BY <1>5, <1>7, <1>10, <2>1
  <2> QED
      BY <1>7, <2>2
<1> QED
    BY <1>8, <1>9, <1>10 DEF FoldOf

\* What holds of the empty set, and of a set when it holds without one element of it.
LEMMA FoldHolds ==
    ASSUME NEW D, IsFiniteSet(D), NEW c, NEW H, {} \in H,
           \A s \in SUBSET D : s # {} => c[s] \in s /\ (s \ {c[s]} \in H => s \in H)
    PROVE D \in H
<1> DEFINE Bad == {s \in SUBSET D : s \notin H}
<1>1. SUFFICES ASSUME Bad # {} PROVE FALSE
    OBVIOUS
<1>2. PICK X \in Bad : \A Y \in Bad : Y \subseteq X => Y = X
  <2>1. Bad \subseteq SUBSET D
      OBVIOUS
  <2> HIDE DEF Bad
  <2> QED
      BY <1>1, <2>1, SmallestSet
<1>3. X # {} /\ c[X] \in X
    BY <1>2
<1>4. X \ {c[X]} # X /\ X \ {c[X]} \subseteq X
    BY <1>3
<1>5. X \ {c[X]} \notin Bad
    BY <1>2, <1>4
<1> QED
    BY <1>2, <1>3, <1>5
-----------------------------------------------------------------------------
(* Union-find. *)

\* R gives the root of every name, and nothing else satisfies Find's equation.
RootEquation(p, f) == f = [y \in PeerNames |-> IF p[y] = y THEN y ELSE f[p[y]]]
Rooted(p, R) ==
    /\ p \in [PeerNames -> PeerNames] /\ R \in [PeerNames -> PeerNames]
    /\ RootEquation(p, R)
    /\ \A f : RootEquation(p, f) => f = R
    /\ \A y \in PeerNames : p[R[y]] = R[y]
Forest == {p \in [PeerNames -> PeerNames] : \E R : Rooted(p, R)}

LEMMA FindRoots ==
    ASSUME NEW p, NEW R, Rooted(p, R), NEW x \in PeerNames
    PROVE Find(p, x) = R[x]
<1> DEFINE g == CHOOSE Root : Root = [y \in PeerNames |-> IF p[y] = y THEN y ELSE Root[p[y]]]
<1>1. Find(p, x) = g[x]
    BY DEF Find
<1>2. RootEquation(p, g)
  <2>1. RootEquation(p, R)
      BY DEF Rooted
  <2> QED
      BY <2>1 DEF RootEquation
<1> HIDE DEF g
<1> QED
    BY <1>1, <1>2 DEF Rooted

\* Hanging the root of a under the root of b gives the names of the one that of the other.
LEMMA UnionRoots ==
    ASSUME NEW p, NEW R, Rooted(p, R), NEW a \in PeerNames, NEW b \in PeerNames, NoName \notin PeerNames
    PROVE Rooted(Union(p, a, b), [x \in PeerNames |-> IF R[x] = R[a] THEN R[b] ELSE R[x]])
<1> DEFINE q == [p EXCEPT ![R[a]] = R[b]]
           T == [x \in PeerNames |-> IF R[x] = R[a] THEN R[b] ELSE R[x]]
<1>1. Union(p, a, b) = q
    BY FindRoots DEF Union
<1>2. /\ p \in [PeerNames -> PeerNames] /\ R \in [PeerNames -> PeerNames]
      /\ \A y \in PeerNames : p[R[y]] = R[y] /\ R[y] = IF p[y] = y THEN y ELSE R[p[y]]
    BY DEF Rooted, RootEquation
<1>3. \A y \in PeerNames : R[R[y]] = R[y]
    BY <1>2
<1>4. /\ q \in [PeerNames -> PeerNames] /\ T \in [PeerNames -> PeerNames]
      /\ \A y \in PeerNames : q[y] = (IF y = R[a] THEN R[b] ELSE p[y])
                              /\ T[y] = IF R[y] = R[a] THEN R[b] ELSE R[y]
    BY <1>2
<1> HIDE DEF q, T
<1>5. \A y \in PeerNames : q[T[y]] = T[y]
    BY <1>2, <1>3, <1>4
<1>6. \A y \in PeerNames : T[y] = IF q[y] = y THEN y ELSE T[q[y]]
  <2> TAKE y \in PeerNames
  <2>1. CASE y = R[a]
      BY <1>2, <1>3, <1>4, <2>1
  <2>2. CASE y # R[a] /\ p[y] = y
      BY <1>2, <1>3, <1>4, <2>2
  <2>3. CASE y # R[a] /\ p[y] # y
      BY <1>2, <1>3, <1>4, <2>3
  <2> QED
      BY <2>1, <2>2, <2>3
<1>7. RootEquation(q, T)
  <2>1. T = [y \in PeerNames |-> T[y]]
      BY <1>4
  <2> QED
      BY <1>6, <2>1 DEF RootEquation
<1>8. ASSUME NEW f, RootEquation(q, f) PROVE f = T
  <2>1. \A y \in PeerNames : f[y] = IF q[y] = y THEN y ELSE f[q[y]]
      BY <1>8 DEF RootEquation
  <2>2. f = [y \in PeerNames |-> f[y]]
      BY <1>8 DEF RootEquation
  <2> DEFINE h == [y \in PeerNames |-> IF f[y] = T[y] THEN R[y] ELSE NoName]
  <2>3. \A y \in PeerNames : h[y] = IF p[y] = y THEN y ELSE h[p[y]]
    <3> TAKE y \in PeerNames
    <3>1. CASE p[y] = y
      <4>1. R[y] = y
          BY <1>2, <3>1
      <4>2. f[y] = T[y]
        <5>1. CASE y # R[a]
          <6>1. q[y] = y /\ T[y] = y
              BY <1>4, <3>1, <4>1, <5>1
          <6> QED
              BY <2>1, <6>1
        <5>2. CASE y = R[a]
          <6>1. q[y] = R[b] /\ R[b] \in PeerNames /\ T[y] = R[b]
              BY <1>2, <1>4, <4>1, <5>2
          <6>2. q[R[b]] = R[b]
              BY <1>2, <1>4
          <6>3. f[R[b]] = R[b]
              BY <2>1, <6>1, <6>2
          <6> QED
              BY <2>1, <6>1, <6>3
        <5> QED
            BY <5>1, <5>2
      <4> QED
          BY <3>1, <4>1, <4>2
    <3>2. CASE p[y] # y
      <4>1. y # R[a] /\ p[y] \in PeerNames
          BY <1>2, <3>2
      <4>2. q[y] = p[y]
          BY <1>4, <4>1
      <4>3. R[y] = R[p[y]] /\ f[y] = f[p[y]] /\ T[y] = T[p[y]]
          BY <1>2, <1>4, <2>1, <3>2, <4>1, <4>2
      <4> QED
          BY <3>2, <4>1, <4>3
    <3> QED
        BY <3>1, <3>2
  <2>4. h = [y \in PeerNames |-> h[y]]
      OBVIOUS
  <2>5. \A y \in PeerNames : h[y] = NoName => f[y] # T[y] \/ R[y] = NoName
      OBVIOUS
  <2>6. \A y \in PeerNames : f[y] # T[y] => h[y] = NoName
      OBVIOUS
  <2> HIDE DEF h
  <2>7. RootEquation(p, h)
      BY <2>3, <2>4 DEF RootEquation
  <2>8. h = R
      BY <2>7 DEF Rooted
  <2>9. \A y \in PeerNames : f[y] = T[y]
      BY <1>2, <2>6, <2>8
  <2> QED
      BY <1>4, <2>2, <2>9
<1> QED
    BY <1>1, <1>4, <1>5, <1>7, <1>8 DEF Rooted, T

LEMMA Unions ==
    ASSUME NEW p \in Forest, NEW a \in PeerNames, NEW b \in PeerNames
    PROVE /\ Union(p, a, b) \in Forest
          /\ \A x \in PeerNames : Find(Union(p, a, b), x)
                                    = IF Find(p, x) = Find(p, a) THEN Find(p, b) ELSE Find(p, x)
<1>1. PICK R : Rooted(p, R)
    BY DEF Forest
<1> DEFINE T == [x \in PeerNames |-> IF R[x] = R[a] THEN R[b] ELSE R[x]]
<1>2. Rooted(Union(p, a, b), T)
    BY <1>1, UnionRoots, RoutingAssumption
<1>3. \A x \in PeerNames : T[x] = IF R[x] = R[a] THEN R[b] ELSE R[x]
    OBVIOUS
<1> HIDE DEF T
<1>4. Union(p, a, b) \in Forest
    BY <1>2 DEF Forest, Rooted
<1>5. \A x \in PeerNames : Find(Union(p, a, b), x) = T[x] /\ Find(p, x) = R[x]
    BY <1>1, <1>2, FindRoots
<1> QED
    BY <1>3, <1>4, <1>5
\* C holds whole trees of p.
Sat(p, C) == \A x, y \in PeerNames : Find(p, x) = Find(p, y) /\ x \in C => y \in C
Ties(n) == {n} \cup decl[n].members
KeepsTie(C, n) == Ties(n) \cap C # {} => Ties(n) \subseteq C

LEMMA UnionJoins ==
    ASSUME NEW p \in Forest, NEW a \in PeerNames, NEW b \in PeerNames, NEW q, q = Union(p, a, b)
    PROVE /\ q \in Forest /\ Find(q, a) = Find(q, b)
          /\ \A x, y \in PeerNames : Find(p, x) = Find(p, y) => Find(q, x) = Find(q, y)
          /\ \A C \in SUBSET PeerNames : Sat(p, C) /\ (a \in C <=> b \in C) => Sat(q, C)
<1>1. /\ q \in Forest
      /\ \A x \in PeerNames : Find(q, x) = IF Find(p, x) = Find(p, a) THEN Find(p, b) ELSE Find(p, x)
    BY Unions
<1> HIDE DEF Find
<1>2. Find(q, a) = Find(q, b)
    BY <1>1
<1>3. \A x, y \in PeerNames : Find(p, x) = Find(p, y) => Find(q, x) = Find(q, y)
    BY <1>1
<1>4. ASSUME NEW C \in SUBSET PeerNames, Sat(p, C), a \in C <=> b \in C,
             NEW x \in PeerNames, NEW y \in PeerNames, Find(q, x) = Find(q, y), x \in C
      PROVE y \in C
  <2>1. CASE Find(p, x) = Find(p, y)
      BY <1>4, <2>1 DEF Sat
  <2>2. CASE Find(p, x) = Find(p, a) /\ Find(p, y) = Find(p, b)
      BY <1>4, <2>2 DEF Sat
  <2>3. CASE Find(p, x) = Find(p, b) /\ Find(p, y) = Find(p, a)
      BY <1>4, <2>3 DEF Sat
  <2> QED
      BY <1>1, <1>4, <2>1, <2>2, <2>3
<1> QED
    BY <1>1, <1>2, <1>3, <1>4 DEF Sat

\* What a node's own fold of unions has done to p once the names in s are united with it.
Joined(p, q, n, s) ==
    /\ q \in Forest
    /\ \A m \in s : Find(q, n) = Find(q, m)
    /\ \A x, y \in PeerNames : Find(p, x) = Find(p, y) => Find(q, x) = Find(q, y)
    /\ \A C \in SUBSET PeerNames : Sat(p, C) /\ KeepsTie(C, n) => Sat(q, C)

LEMMA JoinsOne ==
    ASSUME NEW p, NEW q, NEW n \in PeerNames, NEW s, NEW m \in PeerNames, m \in decl[n].members,
           Joined(p, q, n, s \ {m}), s \subseteq PeerNames
    PROVE Joined(p, Union(q, n, m), n, s)
<1> DEFINE t == Union(q, n, m)
<1>1. q \in Forest /\ t = Union(q, n, m)
    BY DEF Joined
<1> HIDE DEF t
<1>2. /\ t \in Forest /\ Find(t, n) = Find(t, m)
      /\ \A x, y \in PeerNames : Find(q, x) = Find(q, y) => Find(t, x) = Find(t, y)
      /\ \A C \in SUBSET PeerNames : Sat(q, C) /\ (n \in C <=> m \in C) => Sat(t, C)
    BY <1>1, UnionJoins
<1>3. \A x \in s : Find(t, n) = Find(t, x)
    BY <1>2 DEF Joined
<1>4. ASSUME NEW C \in SUBSET PeerNames, Sat(p, C), KeepsTie(C, n) PROVE Sat(t, C)
  <2>1. n \in C <=> m \in C
      BY <1>4 DEF KeepsTie, Ties
  <2> QED
      BY <1>2, <1>4, <2>1 DEF Joined
<1> QED
    BY <1>1, <1>2, <1>3, <1>4 DEF Joined

\* WithPeers unites a node with all its members and with nothing else.
LEMMA PeersUnited ==
    ASSUME NEW p \in Forest, NEW n \in PeerNames,
           decl[n].members \subseteq PeerNames, IsFiniteSet(decl[n].members)
    PROVE Joined(p, WithPeers(p, n), n, decl[n].members)
<1> DEFINE M == decl[n].members
           c == [s \in SUBSET M |-> CHOOSE x \in s : TRUE]
           G == [z \in M \X Forest |-> Union(z[2], n, z[1])]
           Unite(h) == [s \in SUBSET M |->
                           IF s = {} THEN p
                           ELSE Union(h[s \ {CHOOSE x \in s : TRUE}], n, CHOOSE x \in s : TRUE)]
           g == CHOOSE iter : iter = Unite(iter)
<1>1. WithPeers(p, n) = g[M]
    BY DEF WithPeers, FoldSet, MapThenFoldSet
<1>2. \A s \in SUBSET M : s # {} => c[s] \in s
    OBVIOUS
<1>3. G \in [M \X Forest -> Forest]
  <2>1. \A z \in M \X Forest : Union(z[2], n, z[1]) \in Forest
      BY Unions
  <2> QED
      BY <2>1
<1>4. PICK w \in [SUBSET M -> Forest] : FoldOf(M, G, p, c, w)
  <2>1. IsFiniteSet(M) /\ p \in Forest /\ Chooses(c, M)
      BY <1>2 DEF Chooses
  <2> HIDE DEF G, c, M
  <2> QED
      BY <1>3, <2>1, FoldExists
<1>5. w = Unite(w)
  <2>1. ASSUME NEW s \in SUBSET M, s # {} PROVE w[s] = Unite(w)[s]
    <3>1. c[s] \in M /\ s \ {c[s]} \in SUBSET M /\ c[s] = CHOOSE x \in s : TRUE
        BY <1>2, <2>1
    <3>2. w[s \ {c[s]}] \in Forest
        BY <1>4, <3>1
    <3>3. w[s] = Union(w[s \ {c[s]}], n, c[s])
        BY <1>4, <2>1, <3>1, <3>2 DEF FoldOf
    <3> QED
        BY <2>1, <3>1, <3>3
  <2>2. w[{}] = Unite(w)[{}]
      BY <1>4 DEF FoldOf
  <2>3. w = [s \in SUBSET M |-> w[s]] /\ Unite(w) = [s \in SUBSET M |-> Unite(w)[s]]
      BY <1>4
  <2> HIDE DEF Unite
  <2> QED
      BY <2>1, <2>2, <2>3
<1>6. g = Unite(g)
  <2> HIDE DEF Unite
  <2> QED
      BY <1>5
<1> HIDE DEF g
<1>7. g[{}] = p
    BY <1>6
<1>8. ASSUME NEW s \in SUBSET M, s # {} PROVE g[s] = Union(g[s \ {c[s]}], n, c[s])
  <2>1. g[s] = Unite(g)[s]
      BY <1>6
  <2> QED
      BY <1>8, <2>1
<1> HIDE DEF Unite, c, G
<1> DEFINE H == {s \in SUBSET M : Joined(p, g[s], n, s)}
<1>9. {} \in H
    BY <1>7 DEF Joined
<1>10. ASSUME NEW s \in SUBSET M, s # {}, s \ {c[s]} \in H PROVE s \in H
  <2>1. c[s] \in M /\ Joined(p, g[s \ {c[s]}], n, s \ {c[s]})
      BY <1>2, <1>10
  <2>2. Joined(p, Union(g[s \ {c[s]}], n, c[s]), n, s)
      BY <2>1, JoinsOne
  <2> QED
      BY <1>8, <1>10, <2>2
<1>11. M \in H
  <2> HIDE DEF H, M
  <2> QED
      BY <1>2, <1>9, <1>10, FoldHolds DEF M
<1> QED
    BY <1>1, <1>11
-----------------------------------------------------------------------------
(* The replica roles. *)

DeclsTyped ==
    /\ state \in [FleetNodes -> {"up", "down", "draining", "gone"}]
    /\ decl \in [FleetNodes -> [members : SUBSET PeerNames, head : PeerNames \cup {NoName}]]

LEMMA NamesFinite == IsFiniteSet(PeerNames)
<1>1. \A i \in 1..Len(Fleet) : Fleet[i] \in FleetNodes
    BY RoutingAssumption
<1>2. DOMAIN Fleet = 1..Len(Fleet) /\ Len(Fleet) \in Nat
    BY RoutingAssumption
<1>3. IsFiniteSet(DOMAIN Fleet)
    BY <1>2, FS_Interval
<1>4. FleetNodes = {Fleet[i] : i \in DOMAIN Fleet}
    BY DEF FleetNodes, Range
<1>5. IsFiniteSet(FleetNodes)
  <2>1. Fleet \in [DOMAIN Fleet -> FleetNodes]
      BY RoutingAssumption
  <2>2. Fleet \in Surjection(DOMAIN Fleet, FleetNodes)
      BY <1>4, <2>1 DEF Surjection
  <2> QED
      BY <1>3, <2>2, FS_Surjection
<1> QED
    BY <1>5, RoutingAssumption, FS_Union DEF PeerNames

LEMMA NoTrees ==
    ASSUME NEW p, p = [x \in PeerNames |-> x]
    PROVE p \in Forest /\ \A x \in PeerNames : Find(p, x) = x
<1>1. RootEquation(p, p)
    BY DEF RootEquation
<1>2. \A f : RootEquation(p, f) => f = p
  <2> TAKE f
  <2> HAVE RootEquation(p, f)
  <2>1. f = [y \in PeerNames |-> f[y]] /\ \A y \in PeerNames : f[y] = y
      BY DEF RootEquation
  <2> QED
      BY <2>1
<1>3. Rooted(p, p)
    BY <1>1, <1>2 DEF Rooted
<1> QED
    BY <1>3, FindRoots DEF Forest

\* What the unions of the nodes at the places in s have done.
Connected(q, s, slice) ==
    /\ q \in Forest
    /\ \A i \in s : slice[i] \in Present =>
          \A m \in decl[slice[i]].members : Find(q, slice[i]) = Find(q, m)
    /\ \A C \in SUBSET PeerNames : (\A n \in Present : KeepsTie(C, n)) => Sat(q, C)

LEMMA ConnectOne ==
    ASSUME DeclsTyped, NEW slice, NEW i, slice[i] \in FleetNodes,
           NEW q, NEW s, Connected(q, s \ {i}, slice)
    PROVE Connected(IF slice[i] \in Present THEN WithPeers(q, slice[i]) ELSE q, s, slice)
<1>1. CASE slice[i] \notin Present
    BY <1>1 DEF Connected
<1>2. CASE slice[i] \in Present
  <2> DEFINE n == slice[i]
             t == WithPeers(q, n)
  <2>1. n \in PeerNames /\ decl[n].members \subseteq PeerNames /\ q \in Forest
      BY DEF PeerNames, DeclsTyped, Connected
  <2>2. IsFiniteSet(decl[n].members)
      BY <2>1, NamesFinite, FS_Subset
  <2>3. Joined(q, t, n, decl[n].members)
      BY <2>1, <2>2, PeersUnited
  <2> HIDE DEF t
  <2>4. t \in Forest
      BY <2>3 DEF Joined
  <2>5. ASSUME NEW j \in s, slice[j] \in Present, NEW m \in decl[slice[j]].members
        PROVE Find(t, slice[j]) = Find(t, m)
    <3>1. CASE j = i
        BY <2>3, <2>5, <3>1 DEF Joined
    <3>2. CASE j # i
      <4>1. slice[j] \in PeerNames /\ m \in PeerNames
          BY <2>5 DEF PeerNames, DeclsTyped, Present
      <4>2. Find(q, slice[j]) = Find(q, m)
          BY <2>5, <3>2 DEF Connected
      <4> QED
          BY <2>3, <4>1, <4>2 DEF Joined
    <3> QED
        BY <3>1, <3>2
  <2>6. ASSUME NEW C \in SUBSET PeerNames, \A x \in Present : KeepsTie(C, x)
        PROVE Sat(t, C)
    <3>1. Sat(q, C) /\ KeepsTie(C, n)
        BY <1>2, <2>6 DEF Connected
    <3> QED
        BY <2>3, <3>1 DEF Joined
  <2> QED
      BY <1>2, <2>4, <2>5, <2>6 DEF Connected, t
<1> QED
    BY <1>1, <1>2

\* In any order union-find unites a declaring node with its members, and no set that
\* keeps every declaration together is broken.
LEMMA AllConnected ==
    ASSUME DeclsTyped, NEW slice, IsFiniteSet(DOMAIN slice),
           \A i \in DOMAIN slice : slice[i] \in FleetNodes
    PROVE Connected(ParentsOf(slice), DOMAIN slice, slice)
<1> DEFINE M == DOMAIN slice
           p == [x \in PeerNames |-> x]
           c == [s \in SUBSET M |-> CHOOSE x \in s : TRUE]
           Next1(i, q) == IF slice[i] \in Present THEN WithPeers(q, slice[i]) ELSE q
           G == [z \in M \X Forest |-> Next1(z[1], z[2])]
           Visit(h) == [s \in SUBSET M |->
                           IF s = {} THEN p
                           ELSE Next1(CHOOSE x \in s : TRUE, h[s \ {CHOOSE x \in s : TRUE}])]
           g == CHOOSE iter : iter = Visit(iter)
<1>1. ParentsOf(slice) = g[M]
    BY DEF ParentsOf, FoldSeq, FoldFunction, FoldFunctionOnSet, MapThenFoldSet
<1>2. \A s \in SUBSET M : s # {} => c[s] \in s
    OBVIOUS
<1>3. G \in [M \X Forest -> Forest]
  <2>1. ASSUME NEW i \in M, NEW q \in Forest PROVE Next1(i, q) \in Forest
    <3>1. CASE slice[i] \in Present
      <4>1. slice[i] \in PeerNames /\ decl[slice[i]].members \subseteq PeerNames
          BY DEF PeerNames, DeclsTyped
      <4>2. IsFiniteSet(decl[slice[i]].members)
          BY <4>1, NamesFinite, FS_Subset
      <4>3. WithPeers(q, slice[i]) \in Forest
          BY <4>1, <4>2, PeersUnited DEF Joined
      <4> QED
          BY <3>1, <4>3
    <3> QED
        BY <3>1
  <2> HIDE DEF Next1
  <2> QED
      BY <2>1
<1>4. PICK w \in [SUBSET M -> Forest] : FoldOf(M, G, p, c, w)
  <2>1. IsFiniteSet(M) /\ p \in Forest /\ Chooses(c, M)
      BY <1>2, NoTrees DEF Chooses
  <2> HIDE DEF G, c, M, p
  <2> QED
      BY <1>3, <2>1, FoldExists
<1>5. w = Visit(w)
  <2>1. ASSUME NEW s \in SUBSET M, s # {} PROVE w[s] = Visit(w)[s]
    <3>1. c[s] \in M /\ s \ {c[s]} \in SUBSET M /\ c[s] = CHOOSE x \in s : TRUE
        BY <1>2, <2>1
    <3>2. w[s \ {c[s]}] \in Forest
        BY <1>4, <3>1
    <3> HIDE DEF Next1
    <3>3. w[s] = Next1(c[s], w[s \ {c[s]}])
        BY <1>4, <2>1, <3>1, <3>2 DEF FoldOf
    <3> QED
        BY <2>1, <3>1, <3>3
  <2>2. w[{}] = Visit(w)[{}]
      BY <1>4 DEF FoldOf
  <2>3. w = [s \in SUBSET M |-> w[s]] /\ Visit(w) = [s \in SUBSET M |-> Visit(w)[s]]
      BY <1>4
  <2> HIDE DEF Visit
  <2> QED
      BY <2>1, <2>2, <2>3
<1>6. g = Visit(g)
  <2> HIDE DEF Visit
  <2> QED
      BY <1>5
<1> HIDE DEF g
<1>7. g[{}] = p
    BY <1>6
<1>8. ASSUME NEW s \in SUBSET M, s # {} PROVE g[s] = Next1(c[s], g[s \ {c[s]}])
  <2>1. g[s] = Visit(g)[s]
      BY <1>6
  <2> HIDE DEF Next1
  <2> QED
      BY <1>8, <2>1
<1> HIDE DEF Visit, c, G
<1> DEFINE H == {s \in SUBSET M : Connected(g[s], s, slice)}
<1>9. {} \in H
  <2>1. Connected(p, {}, slice)
      BY NoTrees DEF Connected, Sat
  <2> QED
      BY <1>7, <2>1
<1>10. ASSUME NEW s \in SUBSET M, s # {}, s \ {c[s]} \in H PROVE s \in H
  <2>1. c[s] \in M /\ Connected(g[s \ {c[s]}], s \ {c[s]}, slice)
      BY <1>2, <1>10
  <2>2. Connected(Next1(c[s], g[s \ {c[s]}]), s, slice)
      BY <2>1, ConnectOne
  <2> QED
      BY <1>8, <1>10, <2>2
<1>11. M \in H
  <2>1. IsFiniteSet(M)
      OBVIOUS
  <2> HIDE DEF H, M
  <2> QED
      BY <1>2, <1>9, <1>10, <2>1, FoldHolds
<1> QED
    BY <1>1, <1>11
\* The roots of the two names are the same exactly when declarations connect them.
LEMMA RootsLink ==
    ASSUME DeclsTyped, NEW slice, IsFiniteSet(DOMAIN slice), Range(slice) = FleetNodes,
           NEW x \in PeerNames, NEW y \in PeerNames
    PROVE Find(ParentsOf(slice), x) = Find(ParentsOf(slice), y) <=> Linked(x, y)
<1> DEFINE q == ParentsOf(slice)
<1>1. Connected(q, DOMAIN slice, slice)
    BY AllConnected DEF Range
<1> HIDE DEF q
<1>2. ASSUME NEW n \in Present, NEW m \in decl[n].members PROVE Find(q, n) = Find(q, m)
  <2>1. PICK i \in DOMAIN slice : slice[i] = n
      BY <1>2 DEF Range, Present
  <2> QED
      BY <1>1, <1>2, <2>1 DEF Connected
<1>3. ASSUME Find(q, x) = Find(q, y), NEW S \in SUBSET PeerNames, x \in S,
             \A n \in Present : Declares(n) => (Ties(n) \cap S # {} => Ties(n) \subseteq S)
      PROVE y \in S
  <2>1. ASSUME NEW n \in Present PROVE KeepsTie(S, n)
    <3>1. CASE Declares(n)
        BY <1>3, <3>1 DEF KeepsTie
    <3>2. CASE ~Declares(n)
        BY <3>2 DEF KeepsTie, Ties, Declares
    <3> QED
        BY <3>1, <3>2
  <2>2. Sat(q, S)
      BY <1>1, <2>1 DEF Connected
  <2> QED
      BY <1>3, <2>2 DEF Sat
<1>4. ASSUME Linked(x, y) PROVE Find(q, x) = Find(q, y)
  <2> DEFINE S == {z \in PeerNames : Find(q, z) = Find(q, x)}
  <2>1. ASSUME NEW n \in Present, Ties(n) \cap S # {} PROVE Ties(n) \subseteq S
    <3>1. n \in PeerNames /\ decl[n].members \subseteq PeerNames
        BY DEF Present, PeerNames, DeclsTyped
    <3> QED
        BY <1>2, <2>1, <3>1 DEF Ties
  <2>2. y \in S
    <3>1. S \in SUBSET PeerNames /\ x \in S
        OBVIOUS
    <3> HIDE DEF S
    <3> QED
        BY <1>4, <2>1, <3>1 DEF Linked, Ties
  <2> QED
      BY <2>2
<1>5. Find(q, x) = Find(q, y) => Linked(x, y)
    BY <1>3 DEF Linked, Ties
<1> QED
    BY <1>4, <1>5 DEF q

\* The names that some declaration mentions or makes.
Touched == UNION {Ties(n) : n \in {p \in Present : Declares(p)}}

LEMMA TouchedTogether ==
    ASSUME DeclsTyped, NEW n \in Touched, NEW y \in PeerNames, Linked(n, y)
    PROVE y \in Touched
<1>1. Touched \in SUBSET PeerNames
  <2>1. ASSUME NEW x \in Present PROVE Ties(x) \subseteq PeerNames
      BY DEF Present, Ties, PeerNames, DeclsTyped
  <2> QED
      BY <2>1 DEF Touched
<1>2. ASSUME NEW x \in Present, Declares(x) PROVE Ties(x) \subseteq Touched
    BY <1>2 DEF Touched
<1> QED
    BY <1>1, <1>2 DEF Linked, Ties

LEMMA AloneIsUntouched ==
    ASSUME DeclsTyped, NEW n \in Present
    PROVE n \notin Touched <=> ~Declares(n) /\ \A x \in Present : n \notin decl[x].members
<1>1. \A x \in Present : n \in decl[x].members => Declares(x)
    BY DEF Declares
<1>2. n \in Touched <=> \E x \in Present : Declares(x) /\ n \in Ties(x)
    BY DEF Touched
<1> QED
    BY <1>1, <1>2 DEF Ties

\* In any order of the nodes the roles are the ones the declarations mean.
LEMMA RoleIsMeant ==
    ASSUME DeclsTyped, NEW slice, IsFiniteSet(DOMAIN slice), Range(slice) = FleetNodes,
           NEW n \in Present
    PROVE /\ RolesIn(slice)[n] \in {"standalone", "head"} <=> MayServe(n)
          /\ RolesIn(slice)[n] = "standalone" <=> n \notin Touched
          /\ RolesIn(slice)[n] = "worker" => decl[n].head \in Present \cap Touched
<1> DEFINE group == {y \in PeerNames : Linked(n, y)}
           root == [x \in PeerNames |-> Find(ParentsOf(slice), x)]
           of == {x \in Touched : root[x] = root[n]}
<1>1. n \in PeerNames /\ Touched \subseteq PeerNames
  <2>1. ASSUME NEW x \in Present PROVE Ties(x) \subseteq PeerNames
      BY DEF Present, Ties, PeerNames, DeclsTyped
  <2> QED
      BY <2>1 DEF Touched, Present, PeerNames
<1>2. RolesIn(slice)[n] =
        CASE n \notin Touched -> "standalone"
          [] n \in Touched /\ ~ValidComponent(of) -> "unresolved"
          [] n \in Touched /\ ValidComponent(of) ->
               IF decl[n].head = n THEN "head" ELSE "worker"
    BY DEF RolesIn, Touched, Ties
<1>3. \A x, y \in PeerNames : root[x] = root[y] <=> Linked(x, y)
    BY RootsLink
<1>4. Linked(n, n)
    BY DEF Linked
<1> HIDE DEF root
<1>5. CASE n \notin Touched
  <2>1. RolesIn(slice)[n] = "standalone"
      BY <1>2, <1>5
  <2> QED
      BY <1>5, <2>1, AloneIsUntouched DEF MayServe
<1>6. CASE n \in Touched
  <2>1. of = group
    <3>1. \A x \in of : root[n] = root[x]
        OBVIOUS
    <3>2. of \subseteq group
        BY <1>1, <1>3, <3>1
    <3>3. group \subseteq of
      <4>1. ASSUME NEW y \in PeerNames, Linked(n, y) PROVE y \in of
          BY <1>1, <1>3, <1>6, <4>1, TouchedTogether
      <4> QED
          BY <4>1
    <3> QED
        BY <3>2, <3>3
  <2>2. n \in group /\ group \subseteq Touched
      BY <1>1, <1>4, <2>1
  <2> HIDE DEF of
  <2>3. MayServe(n) <=> /\ group \subseteq Present
                        /\ \A x \in group : decl[x] = [members |-> group, head |-> n]
      BY <1>6, AloneIsUntouched DEF MayServe
  <2> HIDE DEF group
  <2>4. CASE ~ValidComponent(group)
    <3>1. RolesIn(slice)[n] = "unresolved"
        BY <1>2, <1>6, <2>1, <2>4
    <3>2. ~MayServe(n)
      <4>1. SUFFICES ASSUME MayServe(n) PROVE ValidComponent(group)
          BY <2>4
      <4>2. \A x \in group : Declares(x) /\ decl[x] = [members |-> group, head |-> n]
          BY <2>2, <2>3, <4>1 DEF Declares
      <4> QED
          BY <2>2, <2>3, <4>1, <4>2 DEF ValidComponent
    <3> QED
        BY <1>6, <3>1, <3>2
  <2>5. CASE ValidComponent(group)
    <3>1. RolesIn(slice)[n] = IF decl[n].head = n THEN "head" ELSE "worker"
        BY <1>2, <1>6, <2>1, <2>5
    <3>2. PICK h \in group :
             \A x \in group : Declares(x) /\ decl[x] = [members |-> group, head |-> h]
        BY <2>5 DEF ValidComponent
    <3>3. decl[n].head = h
        BY <2>2, <3>2
    <3>4. group \subseteq Present
        BY <2>5 DEF ValidComponent
    <3>5. MayServe(n) <=> h = n
      <4>1. h = n => MayServe(n)
          BY <2>3, <3>2, <3>4
      <4>2. MayServe(n) => decl[n].head = n
          BY <2>2, <2>3
      <4> QED
          BY <3>3, <4>1, <4>2
    <3>6. h \in Present \cap Touched
        BY <2>2, <3>4
    <3> QED
        BY <1>6, <3>1, <3>3, <3>5, <3>6
  <2> QED
      BY <2>4, <2>5
<1> QED
    BY <1>5, <1>6

LEMMA Orders ==
    ASSUME NEW slice \in {Fleet, Reverse(Fleet)}
    PROVE IsFiniteSet(DOMAIN slice) /\ Range(slice) = FleetNodes
<1>1. Fleet \in Seq(FleetNodes) /\ Len(Fleet) \in Nat /\ DOMAIN Fleet = 1..Len(Fleet)
    BY RoutingAssumption
<1>2. IsFiniteSet(1..Len(Fleet))
    BY <1>1, FS_Interval
<1>3. CASE slice = Fleet
    BY <1>1, <1>2, <1>3 DEF FleetNodes
<1>4. CASE slice = Reverse(Fleet)
  <2>1. slice = [i \in 1..Len(Fleet) |-> Fleet[(Len(Fleet) - i) + 1]]
      BY <1>4 DEF Reverse
  <2>2. \A i \in 1..Len(Fleet) : /\ (Len(Fleet) - i) + 1 \in 1..Len(Fleet)
                                 /\ (Len(Fleet) - ((Len(Fleet) - i) + 1)) + 1 = i
      BY <1>1
  <2>3. Range(slice) = Range(Fleet)
      BY <1>1, <2>1, <2>2 DEF Range
  <2> QED
      BY <1>2, <2>1, <2>3 DEF FleetNodes
<1> QED
    BY <1>3, <1>4

LEMMA RolesAreSound ==
    ASSUME DeclsTyped
    PROVE RolesSound
BY Orders, RoleIsMeant DEF RolesSound
-----------------------------------------------------------------------------
(* The requests. *)

RoutePCs == {"idle", "look", "check", "route", "pin", "served"}
SessionPins ==
    [node : FleetNodes \cup {NoName}, model : RouteModels \cup {NoName}, id : Nat, old : BOOLEAN]
RouteReqs ==
    [pc : RoutePCs, s : Sessions \cup {NoName}, m : RouteModels \cup {NoName}, pin : SessionPins,
     keep : BOOLEAN, tried : SUBSET FleetNodes, got : FleetNodes \cup {NoName}]

\* A pin that is not empty names a node of the fleet.
PinsNamed(table) == \A s \in Sessions : table[s] = NoSessionPin \/ table[s].node \in FleetNodes
ReqNamed(q) == /\ q.pc \in {"look", "check"} => q.pin.node \in FleetNodes /\ q.s \in Sessions
               /\ q.pc \in {"route", "pin"} => q.s \in Sessions
               /\ q.pc \in {"pin", "served"} => q.got \in FleetNodes
FleetTyped == /\ state \in [FleetNodes -> {"up", "down", "draining", "gone"}]
              /\ decl \in [FleetNodes -> Decls \cup {NoDecl}]
              /\ quiet \subseteq FleetNodes /\ full \subseteq FleetNodes
              /\ loaded \in [FleetNodes -> SUBSET RouteModels]
PinTable(table) == table \in [Sessions -> SessionPins] /\ PinsNamed(table)
ReqsTyped == req \in [Requests -> RouteReqs] /\ \A r \in Requests : ReqNamed(req[r])

RouteInv == FleetTyped /\ PinTable(affinity) /\ PinTable(pinRows) /\ ReqsTyped /\ pins \in Nat

LEMMA FleetTypedDecls == ASSUME FleetTyped PROVE DeclsTyped
<1>1. NoDecl \in [members : SUBSET PeerNames, head : PeerNames \cup {NoName}]
    BY DEF NoDecl
<1> QED
    BY <1>1, RoutingAssumption DEF FleetTyped, DeclsTyped

LEMMA IdleReqTyped == IdleReq \in RouteReqs /\ ReqNamed(IdleReq) /\ NoSessionPin \in SessionPins
<1>1. NoSessionPin \in SessionPins
    BY DEF NoSessionPin, SessionPins
<1>2. IdleReq \in RouteReqs
    BY <1>1 DEF IdleReq, RouteReqs, RoutePCs
<1> QED
    BY <1>1, <1>2 DEF IdleReq, ReqNamed

LEMMA RoutingInitially == ASSUME RoutingInit PROVE RouteInv
<1>1. FleetTyped
    BY DEF RoutingInit, FleetTyped
<1>2. PinTable(affinity) /\ PinTable(pinRows)
    BY IdleReqTyped DEF RoutingInit, PinTable, PinsNamed
<1>3. ReqsTyped
    BY IdleReqTyped DEF RoutingInit, ReqsTyped
<1> QED
    BY <1>1, <1>2, <1>3 DEF RouteInv, RoutingInit

\* What a request becomes, and what a pin becomes.
LEMMA ReqWritten ==
    ASSUME ReqsTyped, NEW r \in Requests, NEW q \in RouteReqs, ReqNamed(q),
           req' = [req EXCEPT ![r] = q]
    PROVE ReqsTyped'
<1>1. /\ req' \in [Requests -> RouteReqs]
      /\ \A x \in Requests : req'[x] = IF x = r THEN q ELSE req[x]
    BY DEF ReqsTyped
<1> QED
    BY <1>1 DEF ReqsTyped

LEMMA PinWritten ==
    ASSUME PinTable(affinity), NEW s \in Sessions, NEW e \in SessionPins,
           e = NoSessionPin \/ e.node \in FleetNodes, affinity' = [affinity EXCEPT ![s] = e]
    PROVE PinTable(affinity)'
<1>1. /\ affinity' \in [Sessions -> SessionPins]
      /\ \A x \in Sessions : affinity'[x] = IF x = s THEN e ELSE affinity[x]
    BY DEF PinTable
<1> QED
    BY <1>1 DEF PinTable, PinsNamed
\* A request that only moves on keeps what it holds.
LEMMA ReqMoved ==
    ASSUME ReqsTyped, NEW r \in Requests, NEW to \in RoutePCs, Moves(r, to),
           to \in {"look", "check"} => req[r].pc = "look",
           to = "route" => req[r].pc \in {"look", "check"},
           to \in {"pin", "served"} => req[r].pc = "pin"
    PROVE ReqsTyped'
<1> DEFINE q == [req[r] EXCEPT !.pc = to]
<1>1. req[r] \in RouteReqs /\ ReqNamed(req[r])
    BY DEF ReqsTyped
<1>2. /\ q \in RouteReqs /\ q.pc = to
      /\ q.pin = req[r].pin /\ q.s = req[r].s /\ q.got = req[r].got
    BY <1>1 DEF RouteReqs
<1>3. req' = [req EXCEPT ![r] = q]
    BY DEF Moves, ReqsTyped
<1> HIDE DEF q
<1>4. ReqNamed(q)
    BY <1>1, <1>2 DEF ReqNamed
<1> QED
    BY <1>2, <1>3, <1>4, ReqWritten

LEMMA StickyReadKeeps ==
    ASSUME RouteInv, NEW r \in Requests, NEW s \in Sessions, NEW m \in RouteModels,
           StickyRead(r, s, m)
    PROVE RouteInv'
<1> DEFINE go == IF affinity[s] = NoSessionPin \/ affinity[s].old THEN "route" ELSE "look"
           q == [IdleReq EXCEPT !.s = s, !.m = m, !.pin = affinity[s], !.pc = go]
<1>1. affinity[s] \in SessionPins /\ (affinity[s] = NoSessionPin \/ affinity[s].node \in FleetNodes)
    BY DEF RouteInv, PinTable, PinsNamed
<1>2. go \in {"route", "look"} /\ (go = "look" => affinity[s] # NoSessionPin)
    OBVIOUS
<1>3. req' = [req EXCEPT ![r] = q]
    BY DEF StickyRead
<1> HIDE DEF go
<1>4. q \in RouteReqs /\ q.pc = go /\ q.s = s /\ q.pin = affinity[s]
    BY <1>1, <1>2, IdleReqTyped DEF RouteReqs, RoutePCs, IdleReq
<1> HIDE DEF q
<1>5. ReqNamed(q)
    BY <1>1, <1>2, <1>4 DEF ReqNamed
<1>6. ReqsTyped'
    BY <1>3, <1>4, <1>5, ReqWritten DEF RouteInv
<1> QED
    BY <1>6 DEF RouteInv, StickyRead, fleetState, FleetTyped, PinTable, PinsNamed

LEMMA StickyLookKeeps ==
    ASSUME RouteInv, NEW r \in Requests, StickyLook(r)
    PROVE RouteInv'
<1>1. /\ req[r] \in RouteReqs /\ ReqNamed(req[r]) /\ req[r].pc = "look"
      /\ req[r].s \in Sessions
    BY DEF RouteInv, ReqsTyped, StickyLook, ReqNamed
<1>2. ReqsTyped'
  <2>1. Moves(r, "check") \/ Moves(r, "route")
      BY DEF StickyLook
  <2> QED
      BY <1>1, <2>1, ReqMoved DEF RouteInv, RoutePCs
<1> DEFINE s == req[r].s
           e == affinity[s]
           young == [e EXCEPT !.old = FALSE]
<1>3. e \in SessionPins /\ (e = NoSessionPin \/ e.node \in FleetNodes)
    BY <1>1 DEF RouteInv, PinTable, PinsNamed
<1>4. young \in SessionPins /\ young.node = e.node
    BY <1>3 DEF SessionPins
<1>5. affinity' = [affinity EXCEPT ![s] = e] \/ affinity' = [affinity EXCEPT ![s] = young]
         \/ affinity' = [affinity EXCEPT ![s] = NoSessionPin]
    BY <1>1 DEF StickyLook, RouteInv, PinTable
<1> HIDE DEF e, young, s
<1>6. PinTable(affinity)'
  <2>1. PinTable(affinity) /\ s \in Sessions /\ NoSessionPin \in SessionPins
      BY <1>1, IdleReqTyped DEF RouteInv, s
  <2>2. young = NoSessionPin \/ young.node \in FleetNodes \/ e = NoSessionPin
      BY <1>3, <1>4
  <2>3. CASE affinity' = [affinity EXCEPT ![s] = e]
      BY <1>3, <2>1, <2>3, PinWritten
  <2>4. CASE affinity' = [affinity EXCEPT ![s] = young] /\ young.node \in FleetNodes
      BY <1>4, <2>1, <2>4, PinWritten
  <2>5. CASE affinity' = [affinity EXCEPT ![s] = NoSessionPin]
      BY <2>1, <2>5, PinWritten
  <2>6. CASE affinity' = [affinity EXCEPT ![s] = young] /\ e = NoSessionPin
    <3>1. affinity' = [affinity EXCEPT ![s] = e] \/ affinity' = [affinity EXCEPT ![s] = NoSessionPin]
        BY <1>1, <2>6 DEF StickyLook, e, s, young, NoSessionPin
    <3> QED
        BY <2>3, <2>5, <3>1
  <2> QED
      BY <1>3, <1>4, <1>5, <2>3, <2>4, <2>5, <2>6
<1> QED
    BY <1>2, <1>6 DEF RouteInv, StickyLook, fleetState, FleetTyped, PinTable, PinsNamed
\* Whoever is selected is in the fleet and has a schedulable role.
LEMMA SelectedRole ==
    ASSUME NEW m, NEW tried, NEW n \in Selectable(m, Roles, tried)
    PROVE /\ n \in Present /\ n \in FleetNodes /\ Roles[n] \in {"standalone", "head"}
          /\ n \in DownHeads(Roles) => Eligible(m, Roles) \subseteq tried
<1>1. DOMAIN Roles = Present
    BY DEF Roles, RolesIn
<1> HIDE DEF Roles
<1>2. n \in Eligible(m, Roles) \/ n \in LastResort(m, Roles)
    BY DEF Selectable
<1>3. n \in Present /\ Passes(n, m, Roles)
    BY <1>1, <1>2 DEF Eligible, LastResort
<1>4. n \in DownHeads(Roles) => n \notin Eligible(m, Roles)
    BY DEF Eligible
<1>5. n \in DownHeads(Roles) => Eligible(m, Roles) \subseteq tried
    BY <1>4 DEF Selectable
<1> QED
    BY <1>3, <1>5 DEF Passes, Present

LEMMA StickyCheckKeeps ==
    ASSUME RouteInv, NEW r \in Requests, StickyCheck(r)
    PROVE RouteInv'
<1> DEFINE s == req[r].s
           n == req[r].pin.node
           m == req[r].m
           e == affinity[s]
           stamped == [e EXCEPT !.model = m, !.id = pins + 1]
           kept == [req[r] EXCEPT !.pc = "route", !.keep = TRUE]
           done == [IdleReq EXCEPT !.pc = "served", !.m = m, !.got = n]
<1>1. req[r] \in RouteReqs /\ ReqNamed(req[r]) /\ req[r].pc = "check"
    BY DEF RouteInv, ReqsTyped, StickyCheck
<1>2. s \in Sessions /\ n \in FleetNodes /\ m \in RouteModels \cup {NoName}
    BY <1>1 DEF ReqNamed, RouteReqs
<1>3. \/ req' = [req EXCEPT ![r] = kept] /\ affinity' = affinity /\ pins' = pins
      \/ /\ req' = [req EXCEPT ![r] = done]
         /\ \/ e.node = n /\ affinity' = [affinity EXCEPT ![s] = stamped] /\ pins' = pins + 1
            \/ affinity' = affinity /\ pins' = pins
      \/ /\ Moves(r, "route") /\ pins' = pins
         /\ affinity' = affinity \/ affinity' = [affinity EXCEPT ![s] = NoSessionPin]
  <2>1. /\ affinity = [affinity EXCEPT ![s] = e] /\ affinity \in [Sessions -> SessionPins]
        /\ req \in [Requests -> RouteReqs]
      BY <1>2 DEF RouteInv, PinTable, ReqsTyped
  <2> DEFINE role == IF state[n] = "gone" THEN "standalone" ELSE Roles[n]
             fits == IsEligibleForModel(n, m) /\ role \in {"standalone", "head"}
             down == n \in DownHeads(Roles)
             wait == fits /\ role = "head" /\ down
             serve == fits /\ n \notin full /\ ~(role = "head" /\ down)
             stamps == e.node = n /\ e.model # m
  <2>2. CASE wait
    <3>1. /\ req' = [req EXCEPT ![r] = [@ EXCEPT !.pc = "route", !.keep = TRUE]]
          /\ UNCHANGED <<affinity, pins>>
        BY <2>2 DEF StickyCheck
    <3> QED
        BY <2>1, <3>1
  <2>3. CASE serve
    <3>1. /\ req' = [req EXCEPT ![r] = done]
          /\ affinity' = (IF stamps THEN [affinity EXCEPT ![s] = [@ EXCEPT !.model = m, !.id = pins + 1]]
                          ELSE affinity)
          /\ pins' = IF stamps THEN pins + 1 ELSE pins
        BY <2>3 DEF StickyCheck
    <3> QED
        BY <1>2, <2>1, <3>1
  <2>4. CASE ~wait /\ ~serve
    <3>1. /\ Moves(r, "route") /\ pins' = pins
          /\ affinity' = IF fits THEN affinity ELSE [affinity EXCEPT ![s] = NoSessionPin]
        BY <2>4 DEF StickyCheck
    <3> QED
        BY <3>1
  <2> QED
      BY <2>2, <2>3, <2>4
<1>4. e \in SessionPins /\ PinTable(affinity) /\ ReqsTyped /\ pins \in Nat
    BY <1>2 DEF RouteInv, PinTable
<1>5. stamped \in SessionPins /\ stamped.node = e.node
  <2>1. pins + 1 \in Nat
      BY <1>4
  <2>2. ASSUME NEW id \in Nat, NEW t, t = [e EXCEPT !.model = m, !.id = id]
        PROVE t \in SessionPins /\ t.node = e.node
      BY <1>2, <1>4, <2>2 DEF SessionPins
  <2> HIDE DEF e, m
  <2> QED
      BY <2>1, <2>2
<1>6. kept \in RouteReqs /\ kept.pc = "route" /\ kept.s = s
    BY <1>1 DEF RouteReqs, RoutePCs
<1>7. done \in RouteReqs /\ done.pc = "served" /\ done.got = n
    BY <1>2, IdleReqTyped DEF RouteReqs, RoutePCs, IdleReq
<1> HIDE DEF s, n, m, e, stamped, kept, done
<1>8. ReqsTyped'
  <2>1. CASE req' = [req EXCEPT ![r] = kept]
    <3>1. ReqNamed(kept)
        BY <1>2, <1>6 DEF ReqNamed
    <3> QED
        BY <1>4, <1>6, <2>1, <3>1, ReqWritten
  <2>2. CASE req' = [req EXCEPT ![r] = done]
    <3>1. ReqNamed(done)
        BY <1>2, <1>7 DEF ReqNamed
    <3> QED
        BY <1>4, <1>7, <2>2, <3>1, ReqWritten
  <2>3. CASE Moves(r, "route")
      BY <1>1, <1>4, <2>3, ReqMoved DEF RoutePCs
  <2> QED
      BY <1>3, <2>1, <2>2, <2>3
<1>9. PinTable(affinity)' /\ pins' \in Nat
  <2>1. CASE affinity' = affinity /\ pins' = pins
      BY <1>4, <2>1 DEF PinTable, PinsNamed
  <2>2. CASE affinity' = [affinity EXCEPT ![s] = stamped] /\ e.node = n /\ pins' = pins + 1
    <3>1. PinTable(affinity)'
        BY <1>2, <1>4, <1>5, <2>2, PinWritten
    <3> QED
        BY <1>4, <2>2, <3>1
  <2>3. CASE affinity' = [affinity EXCEPT ![s] = NoSessionPin] /\ pins' = pins
      BY <1>2, <1>4, <2>3, PinWritten, IdleReqTyped
  <2> QED
      BY <1>3, <2>1, <2>2, <2>3
<1> QED
    BY <1>8, <1>9 DEF RouteInv, StickyCheck, fleetState, FleetTyped, PinTable, PinsNamed

LEMMA RouteInternalKeeps ==
    ASSUME RouteInv, NEW r \in Requests, RouteInternal(r)
    PROVE RouteInv'
<1>1. req[r] \in RouteReqs /\ ReqNamed(req[r]) /\ req[r].pc = "route" /\ ReqsTyped
    BY DEF RouteInv, ReqsTyped, RouteInternal
<1>2. CASE req' = [req EXCEPT ![r] = IdleReq]
    BY <1>1, <1>2, IdleReqTyped, ReqWritten
          DEF RouteInv, RouteInternal, fleetState, FleetTyped, PinTable, PinsNamed
<1>3. ASSUME NEW n \in FleetNodes, NEW to \in {"served", "pin"},
             req' = [req EXCEPT ![r] = [req[r] EXCEPT !.got = n, !.pc = to]]
      PROVE RouteInv'
  <2> DEFINE q == [req[r] EXCEPT !.got = n, !.pc = to]
  <2>1. q \in RouteReqs /\ q.got = n /\ q.pc = to /\ q.s = req[r].s
      BY <1>1, <1>3 DEF RouteReqs, RoutePCs
  <2>2. req' = [req EXCEPT ![r] = q]
      BY <1>3
  <2> HIDE DEF q
  <2>3. ReqNamed(q)
      BY <1>1, <1>3, <2>1 DEF ReqNamed
  <2>4. ReqsTyped'
      BY <1>1, <2>1, <2>2, <2>3, ReqWritten
  <2> QED
      BY <2>4 DEF RouteInv, RouteInternal, fleetState, FleetTyped, PinTable, PinsNamed
<1>4. CASE Selectable(req[r].m, Roles, {}) # {}
  <2> DEFINE to == IF req[r].keep THEN "served" ELSE "pin"
  <2>1. PICK n \in Selectable(req[r].m, Roles, {}) :
           req' = [req EXCEPT ![r] = [@ EXCEPT !.got = n, !.pc = to]]
      BY <1>4 DEF RouteInternal
  <2>2. n \in FleetNodes /\ to \in {"served", "pin"}
      BY SelectedRole
  <2>3. req' = [req EXCEPT ![r] = [req[r] EXCEPT !.got = n, !.pc = to]]
      BY <2>1
  <2> HIDE DEF to
  <2> QED
      BY <1>3, <2>2, <2>3
<1> QED
    BY <1>2, <1>4 DEF RouteInternal
LEMMA WritePinKeeps ==
    ASSUME RouteInv, NEW r \in Requests, WritePin(r)
    PROVE RouteInv'
<1> DEFINE q == req[r]
<1>1. q \in RouteReqs /\ ReqNamed(q) /\ q.pc = "pin" /\ ReqsTyped
    BY DEF RouteInv, ReqsTyped, WritePin
<1>2. q.s \in Sessions /\ q.got \in FleetNodes /\ q.m \in RouteModels \cup {NoName}
    BY <1>1 DEF ReqNamed, RouteReqs
<1>3. ReqsTyped'
  <2>1. Moves(r, "served")
      BY DEF WritePin
  <2> QED
      BY <1>1, <2>1, ReqMoved DEF RoutePCs
<1> DEFINE e == [node |-> q.got, model |-> q.m, id |-> pins + 1, old |-> FALSE]
<1>4. \/ affinity' = [affinity EXCEPT ![q.s] = e] /\ pins' = pins + 1
      \/ affinity' = affinity /\ pins' = pins
    BY DEF WritePin
<1>5. pins + 1 \in Nat /\ pins \in Nat /\ PinTable(affinity)
    BY DEF RouteInv
<1>6. e \in SessionPins /\ e.node = q.got
    BY <1>2, <1>5 DEF SessionPins
<1> HIDE DEF e, q
<1>7. PinTable(affinity)'
  <2>1. CASE affinity' = affinity
      BY <1>5, <2>1 DEF PinTable, PinsNamed
  <2>2. CASE affinity' = [affinity EXCEPT ![q.s] = e]
      BY <1>2, <1>5, <1>6, <2>2, PinWritten
  <2> QED
      BY <1>4, <2>1, <2>2
<1>8. pins' \in Nat
    BY <1>4, <1>5
<1> QED
    BY <1>3, <1>7, <1>8 DEF RouteInv, WritePin, fleetState, FleetTyped, PinTable, PinsNamed

LEMMA RouteExcludingKeeps ==
    ASSUME RouteInv, NEW r \in Requests, NEW m \in RouteModels, NEW tried \in SUBSET FleetNodes,
           RouteExcluding(r, m, tried)
    PROVE RouteInv'
<1>1. PICK n \in Selectable(m, Roles, tried) :
         req' = [req EXCEPT ![r] = [IdleReq EXCEPT !.pc = "served", !.m = m, !.tried = tried,
                                                   !.got = n]]
    BY DEF RouteExcluding
<1>2. n \in FleetNodes
    BY SelectedRole
<1> DEFINE q == [IdleReq EXCEPT !.pc = "served", !.m = m, !.tried = tried, !.got = n]
<1>3. q \in RouteReqs /\ q.pc = "served" /\ q.got = n
    BY <1>2, IdleReqTyped DEF RouteReqs, RoutePCs, IdleReq
<1>4. req' = [req EXCEPT ![r] = q]
    BY <1>1
<1> HIDE DEF q
<1>5. ReqNamed(q)
    BY <1>2, <1>3 DEF ReqNamed
<1>6. ReqsTyped'
    BY <1>3, <1>4, <1>5, ReqWritten DEF RouteInv
<1> QED
    BY <1>6 DEF RouteInv, RouteExcluding, fleetState, FleetTyped, PinTable, PinsNamed

LEMMA FinishRouteKeeps ==
    ASSUME RouteInv, NEW r \in Requests, FinishRoute(r)
    PROVE RouteInv'
<1>1. ReqsTyped'
    BY IdleReqTyped, ReqWritten DEF RouteInv, FinishRoute
<1> QED
    BY <1>1 DEF RouteInv, FinishRoute, fleetState, FleetTyped, PinTable, PinsNamed

\* What ages, is swept, flushed or restored is still a pin.
LEMMA AgesKeeps ==
    ASSUME RouteInv, NEW s \in Sessions, Ages(s)
    PROVE RouteInv'
<1> DEFINE e == [affinity[s] EXCEPT !.old = TRUE]
<1>1. affinity[s] \in SessionPins /\ affinity[s].node \in FleetNodes /\ PinTable(affinity)
    BY DEF RouteInv, PinTable, PinsNamed, Ages
<1>2. e \in SessionPins /\ e.node = affinity[s].node
    BY <1>1 DEF SessionPins
<1>3. affinity' = [affinity EXCEPT ![s] = e]
    BY DEF Ages, RouteInv, PinTable
<1> HIDE DEF e
<1>4. PinTable(affinity)'
    BY <1>1, <1>2, <1>3, PinWritten
<1> QED
    BY <1>4 DEF RouteInv, Ages, fleetState, FleetTyped, PinTable, PinsNamed, ReqsTyped

LEMMA SweepAndFlushKeeps ==
    ASSUME RouteInv, SweepAndFlush
    PROVE RouteInv'
<1>1. PinTable(affinity)'
    BY IdleReqTyped DEF RouteInv, SweepAndFlush, PinTable, PinsNamed
<1>2. ASSUME NEW s \in Sessions
      PROVE pinRows'[s] \in SessionPins /\ (pinRows'[s] = NoSessionPin \/ pinRows'[s].node \in FleetNodes)
  <2> DEFINE e == affinity'[s]
             row == [e EXCEPT !.model = NoName]
  <2>1. e \in SessionPins /\ (e = NoSessionPin \/ e.node \in FleetNodes)
      BY <1>1 DEF PinTable, PinsNamed
  <2>2. pinRows'[s] = row
      BY DEF SweepAndFlush
  <2>3. row \in SessionPins /\ row.node = e.node
      BY <2>1 DEF SessionPins
  <2>4. e = NoSessionPin => row = NoSessionPin
    <3>1. ASSUME NEW a, NEW b, NEW c, NEW d, NEW z, z = [node |-> a, model |-> b, id |-> c, old |-> d]
          PROVE [z EXCEPT !.model = b] = z
        BY <3>1
    <3>2. ASSUME NEW z, z = NoSessionPin PROVE [z EXCEPT !.model = NoName] = z
      <4>1. z = [node |-> NoName, model |-> NoName, id |-> 0, old |-> FALSE]
          BY <3>2 DEF NoSessionPin
      <4> QED
          BY <3>1, <4>1
    <3> HIDE DEF e
    <3> QED
        BY <3>2
  <2> HIDE DEF e, row
  <2> QED
      BY <2>1, <2>2, <2>3, <2>4
<1>3. pinRows' = [s \in Sessions |-> pinRows'[s]]
    BY DEF SweepAndFlush
<1>4. PinTable(pinRows)'
    BY <1>2, <1>3 DEF PinTable, PinsNamed
<1> QED
    BY <1>1, <1>4 DEF RouteInv, SweepAndFlush, fleetState, FleetTyped, ReqsTyped

LEMMA RestoreAffinityKeeps ==
    ASSUME RouteInv, RestoreAffinity
    PROVE RouteInv'
<1>1. PinTable(affinity)'
    BY IdleReqTyped DEF RouteInv, RestoreAffinity, PinTable, PinsNamed
<1>2. ReqsTyped'
    BY IdleReqTyped DEF RestoreAffinity, ReqsTyped
<1> QED
    BY <1>1, <1>2 DEF RouteInv, RestoreAffinity, FleetTyped, PinTable, PinsNamed

LEMMA FleetChangesKeeps ==
    ASSUME RouteInv, FleetChanges
    PROVE RouteInv'
<1>1. FleetTyped'
  <2>1. PICK n \in FleetNodes :
         \/ /\ \E to \in {"up", "down", "draining", "gone"} \ {state[n]} :
                  state' = [state EXCEPT ![n] = to]
            /\ UNCHANGED <<decl, quiet, full, loaded>>
         \/ /\ \E d \in (Decls \cup {NoDecl}) \ {decl[n]} : decl' = [decl EXCEPT ![n] = d]
            /\ UNCHANGED <<state, quiet, full, loaded>>
         \/ /\ quiet' = IF n \in quiet THEN quiet \ {n} ELSE quiet \cup {n}
            /\ UNCHANGED <<state, decl, full, loaded>>
         \/ /\ full' = IF n \in full THEN full \ {n} ELSE full \cup {n}
            /\ UNCHANGED <<state, decl, quiet, loaded>>
         \/ /\ \E m \in RouteModels :
                 loaded' = [loaded EXCEPT ![n] = IF m \in @ THEN @ \ {m} ELSE @ \cup {m}]
            /\ UNCHANGED <<state, decl, quiet, full>>
      BY DEF FleetChanges
  <2>2. FleetTyped
      BY DEF RouteInv
  <2> QED
      BY <2>1, <2>2 DEF FleetTyped
<1> QED
    BY <1>1 DEF RouteInv, FleetChanges, PinTable, PinsNamed, ReqsTyped

LEMMA RoutingMoves == ASSUME RouteInv, [RoutingNext]_routeVars PROVE RouteInv'
<1>1. CASE UNCHANGED routeVars
    BY <1>1 DEF RouteInv, routeVars, FleetTyped, PinTable, PinsNamed, ReqsTyped
<1>2. CASE RoutingNext
    BY <1>2, StickyReadKeeps, StickyLookKeeps, StickyCheckKeeps, RouteInternalKeeps,
       WritePinKeeps,
       RouteExcludingKeeps, FinishRouteKeeps, AgesKeeps, SweepAndFlushKeeps,
       RestoreAffinityKeeps, FleetChangesKeeps DEF RoutingNext
<1> QED
    BY <1>1, <1>2

LEMMA RoutingShown == ASSUME RouteInv PROVE RoutingTypeOK /\ RolesSound
<1>1. RoutingTypeOK
  <2>1. \A s \in Sessions : /\ affinity[s].node \in FleetNodes \cup {NoName}
                            /\ pinRows[s].node \in FleetNodes \cup {NoName}
      BY DEF RouteInv, PinTable, SessionPins
  <2>2. \A r \in Requests : req[r].pc \in {"idle", "look", "check", "route", "pin", "served"}
      BY DEF RouteInv, ReqsTyped, RouteReqs, RoutePCs
  <2> QED
      BY <2>1, <2>2 DEF RoutingTypeOK, RouteInv, FleetTyped
<1> QED
    BY <1>1, FleetTypedDecls, RolesAreSound DEF RouteInv
\* A head that stands for a silent worker is in the fleet and declared.
LEMMA DownHeadsDeclared ==
    ASSUME RouteInv, NEW n \in DownHeads(Roles)
    PROVE n \in Present /\ Roles[n] # "standalone"
<1>1. DeclsTyped /\ IsFiniteSet(DOMAIN Fleet) /\ Range(Fleet) = FleetNodes
    BY FleetTypedDecls, Orders DEF RouteInv
<1>2. PICK w \in DOMAIN Roles : Roles[w] = "worker" /\ n = decl[w].head
    BY DEF DownHeads
<1>3. w \in Present
    BY <1>2 DEF Roles, RolesIn
<1>4. n \in Present \cap Touched
    BY <1>1, <1>2, <1>3, RoleIsMeant DEF Roles
<1> QED
    BY <1>1, <1>4, RoleIsMeant DEF Roles

LEMMA SchedulableServes ==
    ASSUME RouteInv, NEW n \in Present, Roles[n] \in {"standalone", "head"}
    PROVE MayServe(n)
<1>1. DeclsTyped /\ IsFiniteSet(DOMAIN Fleet) /\ Range(Fleet) = FleetNodes
    BY FleetTypedDecls, Orders DEF RouteInv
<1> QED
    BY <1>1, RoleIsMeant DEF Roles

Placed(r) ==
    req[r].got = NoName /\ req'[r].got # NoName =>
        /\ state[req'[r].got] # "gone" => MayServe(req'[r].got)
        /\ req'[r].got \in DownHeads(Roles) => Eligible(req'[r].m, Roles) \subseteq req'[r].tried

\* The request that a step writes.
LEMMA Written ==
    ASSUME ReqsTyped, NEW a \in Requests, NEW v, req' = [req EXCEPT ![a] = v],
           NEW r \in Requests
    PROVE req'[r] = IF r = a THEN v ELSE req[r]
BY DEF ReqsTyped

LEMMA RouteStepsSafe ==
    ASSUME RouteInv, [RoutingNext]_routeVars, NEW r \in Requests
    PROVE Placed(r)
<1>1. SUFFICES ASSUME req[r].got = NoName, req'[r].got # NoName
               PROVE /\ state[req'[r].got] # "gone" => MayServe(req'[r].got)
                     /\ req'[r].got \in DownHeads(Roles) =>
                          Eligible(req'[r].m, Roles) \subseteq req'[r].tried
    BY DEF Placed
<1>2. ReqsTyped /\ req[r] \in RouteReqs
    BY DEF RouteInv, ReqsTyped
<1>3. req' # req
    BY <1>1
<1>4. IdleReq.got = NoName
    BY DEF IdleReq
<1>5. ASSUME NEW a \in Requests, NEW v \in RouteReqs, v.got = req[a].got \/ v.got = NoName,
             req' = [req EXCEPT ![a] = v]
      PROVE FALSE
    BY <1>1, <1>2, <1>5, Written
<1>6. ASSUME NEW a \in Requests, NEW to \in RoutePCs, Moves(a, to) PROVE FALSE
  <2> DEFINE v == [req[a] EXCEPT !.pc = to]
  <2>1. req[a] \in RouteReqs /\ req' = [req EXCEPT ![a] = v]
      BY <1>2, <1>6 DEF ReqsTyped, Moves
  <2>2. v \in RouteReqs /\ v.got = req[a].got
      BY <2>1 DEF RouteReqs
  <2> HIDE DEF v
  <2> QED
      BY <1>5, <2>1, <2>2
<1>7. ASSUME NEW a \in Requests, NEW s \in Sessions, NEW m \in RouteModels, StickyRead(a, s, m)
      PROVE FALSE
  <2> DEFINE go == IF affinity[s] = NoSessionPin \/ affinity[s].old THEN "route" ELSE "look"
             v == [IdleReq EXCEPT !.s = s, !.m = m, !.pin = affinity[s], !.pc = go]
  <2>1. req' = [req EXCEPT ![a] = v]
      BY <1>7 DEF StickyRead
  <2>2. affinity[s] \in SessionPins /\ go \in RoutePCs
      BY DEF RouteInv, PinTable, RoutePCs
  <2> HIDE DEF go
  <2>3. v \in RouteReqs /\ v.got = NoName
      BY <2>2, IdleReqTyped DEF RouteReqs, IdleReq
  <2> HIDE DEF v
  <2> QED
      BY <1>5, <2>1, <2>3
<1>8. ASSUME NEW a \in Requests, StickyCheck(a) PROVE Placed(r)
  <2> DEFINE n == req[a].pin.node
             m == req[a].m
             role == IF state[n] = "gone" THEN "standalone" ELSE Roles[n]
             fits == IsEligibleForModel(n, m) /\ role \in {"standalone", "head"}
             down == n \in DownHeads(Roles)
             wait == fits /\ role = "head" /\ down
             serve == fits /\ n \notin full /\ ~(role = "head" /\ down)
             kept == [req[a] EXCEPT !.pc = "route", !.keep = TRUE]
             done == [IdleReq EXCEPT !.pc = "served", !.m = m, !.got = n]
  <2>1. req[a] \in RouteReqs /\ ReqNamed(req[a]) /\ req[a].pc = "check" /\ n \in FleetNodes
      BY <1>2, <1>8 DEF ReqsTyped, StickyCheck, ReqNamed
  <2>2. CASE wait
    <3>1. req' = [req EXCEPT ![a] = kept]
        BY <1>2, <1>8, <2>2 DEF StickyCheck, ReqsTyped
    <3>2. kept \in RouteReqs /\ kept.got = req[a].got
        BY <2>1 DEF RouteReqs, RoutePCs
    <3> HIDE DEF kept
    <3> QED
        BY <1>5, <3>1, <3>2
  <2>3. CASE serve
    <3>1. req' = [req EXCEPT ![a] = done]
        BY <1>8, <2>3 DEF StickyCheck
    <3>2. done.got = n
        BY DEF IdleReq
    <3> HIDE DEF done
    <3>3. r = a /\ req'[r] = done
        BY <1>1, <1>2, <3>1, Written
    <3>4. state[n] # "gone" => MayServe(n)
      <4>1. SUFFICES ASSUME state[n] # "gone" PROVE MayServe(n)
          OBVIOUS
      <4>2. n \in Present /\ Roles[n] \in {"standalone", "head"}
          BY <2>1, <2>3, <4>1 DEF Present
      <4> QED
          BY <4>2, SchedulableServes
    <3>5. ~down
      <4>1. SUFFICES ASSUME down PROVE FALSE
          OBVIOUS
      <4>2. n \in Present /\ Roles[n] # "standalone"
          BY <4>1, DownHeadsDeclared
      <4>3. role = Roles[n]
          BY <4>2 DEF Present
      <4> QED
          BY <2>3, <4>1, <4>2, <4>3
    <3> QED
        BY <3>2, <3>3, <3>4, <3>5 DEF Placed
  <2>4. CASE ~wait /\ ~serve
    <3>1. Moves(a, "route")
        BY <1>8, <2>4 DEF StickyCheck
    <3> QED
        BY <1>6, <3>1 DEF RoutePCs
  <2> QED
      BY <2>2, <2>3, <2>4
<1>9. ASSUME NEW a \in Requests, RouteInternal(a) PROVE Placed(r)
  <2>1. req[a] \in RouteReqs /\ req \in [Requests -> RouteReqs]
      BY <1>2 DEF ReqsTyped
  <2>2. CASE req' = [req EXCEPT ![a] = IdleReq]
      BY <1>4, <1>5, <2>2, IdleReqTyped
  <2>3. CASE Selectable(req[a].m, Roles, {}) # {}
    <3> DEFINE to == IF req[a].keep THEN "served" ELSE "pin"
    <3>1. PICK n \in Selectable(req[a].m, Roles, {}) :
             req' = [req EXCEPT ![a] = [@ EXCEPT !.got = n, !.pc = to]]
        BY <1>9, <2>3 DEF RouteInternal
    <3> DEFINE v == [req[a] EXCEPT !.got = n, !.pc = to]
    <3>2. req' = [req EXCEPT ![a] = v]
        BY <2>1, <3>1
    <3>3. v.got = n /\ v.m = req[a].m /\ v.tried = req[a].tried
        BY <2>1 DEF RouteReqs
    <3> HIDE DEF v, to
    <3>4. r = a /\ req'[r] = v
        BY <1>1, <1>2, <3>2, Written
    <3>5. /\ n \in Present /\ Roles[n] \in {"standalone", "head"}
          /\ n \in DownHeads(Roles) => Eligible(req[a].m, Roles) \subseteq {}
        BY SelectedRole
    <3>6. MayServe(n)
        BY <3>5, SchedulableServes
    <3> QED
        BY <3>3, <3>4, <3>5, <3>6 DEF Placed
  <2> QED
      BY <1>9, <2>2, <2>3 DEF RouteInternal
<1>10. ASSUME NEW a \in Requests, NEW m \in RouteModels, NEW tried \in SUBSET FleetNodes,
              RouteExcluding(a, m, tried)
       PROVE Placed(r)
  <2>1. PICK n \in Selectable(m, Roles, tried) :
           req' = [req EXCEPT ![a] = [IdleReq EXCEPT !.pc = "served", !.m = m, !.tried = tried,
                                                     !.got = n]]
      BY <1>10 DEF RouteExcluding
  <2> DEFINE v == [IdleReq EXCEPT !.pc = "served", !.m = m, !.tried = tried, !.got = n]
  <2>2. req' = [req EXCEPT ![a] = v]
      BY <2>1
  <2>3. v.got = n /\ v.m = m /\ v.tried = tried
      BY DEF IdleReq
  <2> HIDE DEF v
  <2>4. r = a /\ req'[r] = v
      BY <1>1, <1>2, <2>2, Written
  <2>5. /\ n \in Present /\ Roles[n] \in {"standalone", "head"}
        /\ n \in DownHeads(Roles) => Eligible(m, Roles) \subseteq tried
      BY SelectedRole
  <2>6. MayServe(n)
      BY <2>5, SchedulableServes
  <2> QED
      BY <2>3, <2>4, <2>5, <2>6 DEF Placed
<1>11. ASSUME NEW a \in Requests, StickyLook(a) \/ WritePin(a) PROVE FALSE
    BY <1>6, <1>11 DEF StickyLook, WritePin, RoutePCs
<1>12. ASSUME NEW a \in Requests, FinishRoute(a) PROVE FALSE
    BY <1>4, <1>5, <1>12, IdleReqTyped DEF FinishRoute
<1>13. ASSUME \/ \E s \in Sessions : Ages(s)
              \/ SweepAndFlush \/ FleetChanges \/ UNCHANGED routeVars
       PROVE FALSE
    BY <1>3, <1>13 DEF Ages, SweepAndFlush, FleetChanges, routeVars
<1>14. ASSUME RestoreAffinity PROVE FALSE
    BY <1>1, <1>4, <1>14 DEF RestoreAffinity
<1>15. Placed(r)
    BY <1>7, <1>8, <1>9, <1>10, <1>11, <1>12, <1>13, <1>14 DEF RoutingNext
<1> QED
    BY <1>1, <1>15 DEF Placed

-----------------------------------------------------------------------------
(* Numbers and slots. *)

\* A set of places in a sequence that is not empty has a first and a last one.
LEMMA FirstPlace ==
    ASSUME NEW n \in Nat, NEW S \in SUBSET (1..n), S # {}
    PROVE \E i \in S : \A j \in S : i <= j
<1> DEFINE D == 1..n
           F == {1..i : i \in S}
<1>1. F \subseteq SUBSET D /\ F # {}
  <2>1. \A i \in S : 1..i \subseteq 1..n
      OBVIOUS
  <2> QED
      BY <2>1
<1>2. IsFiniteSet(D)
    BY FS_Interval
<1>3. PICK X \in F : \A Y \in F : Y \subseteq X => Y = X
  <2> HIDE DEF F, D
  <2> QED
      BY <1>1, <1>2, SmallestSet
<1>4. PICK i \in S : X = 1..i
    OBVIOUS
<1>5. ASSUME NEW j \in S, j < i PROVE FALSE
  <2>1. 1..j \in F /\ 1..j \subseteq X
      BY <1>4, <1>5
  <2>2. 1..j = 1..i
      BY <1>3, <1>4, <2>1
  <2>3. i \in 1..i /\ i \notin 1..j
      BY <1>5
  <2> QED
      BY <2>2, <2>3
<1>6. \A j \in S : ~(j < i) => i <= j
    OBVIOUS
<1> QED
    BY <1>5, <1>6

LEMMA LastPlace ==
    ASSUME NEW n \in Nat, NEW S \in SUBSET (1..n), S # {}
    PROVE Max(S) \in S /\ \A j \in S : j <= Max(S)
<1> DEFINE T == {(n + 1) - i : i \in S}
<1>1. T \in SUBSET (1..n) /\ T # {}
  <2>1. \A i \in S : i \in 1..n
      OBVIOUS
  <2>2. \A i \in 1..n : (n + 1) - i \in 1..n
      OBVIOUS
  <2> QED
      BY <2>1, <2>2
<1>2. PICK t \in T : \A j \in T : t <= j
  <2> HIDE DEF T
  <2> QED
      BY <1>1, FirstPlace
<1>3. PICK i \in S : t = (n + 1) - i
    OBVIOUS
<1>4. ASSUME NEW j \in S PROVE i >= j
  <2>1. (n + 1) - j \in T
      OBVIOUS
  <2>2. (n + 1) - i <= (n + 1) - j
      BY <1>2, <1>3, <2>1
  <2> QED
      BY <2>2
<1>5. \E x \in S : \A y \in S : x >= y
    BY <1>4
<1>6. Max(S) \in S /\ \A y \in S : Max(S) >= y
    BY <1>5 DEF Max
<1>7. ASSUME NEW j \in S PROVE j <= Max(S)
    BY <1>6
<1> QED
    BY <1>6, <1>7

Slots == [key : Keys, seq : Nat]
\* The slots of s, which are in the order of their numbers.
Ascending(s) == s \in Seq(Slots) /\ \A i, j \in DOMAIN s : i < j => s[i].seq < s[j].seq

LEMMA SlotAt ==
    ASSUME NEW s, Ascending(s), NEW i \in DOMAIN s
    PROVE s[i] \in Slots /\ s[i].key \in Keys /\ s[i].seq \in Nat
<1>1. s \in Seq(Slots) /\ DOMAIN s = 1..Len(s)
    BY LenProperties DEF Ascending
<1>2. s[i] \in Slots
    BY <1>1, ElementOfSeq
<1> QED
    BY <1>2 DEF Slots

Precedes(s, e) == \A i \in DOMAIN s : s[i].seq < e.seq
Appended(s, e, t) ==
    /\ \A i \in DOMAIN s : i \in DOMAIN t /\ t[i] = s[i]
    /\ \E i \in DOMAIN t : t[i] = e
    /\ \A i \in DOMAIN t : t[i] = e \/ (i \in DOMAIN s /\ t[i] = s[i])
LEMMA SlotAppended ==
    ASSUME NEW s, Ascending(s), NEW e \in Slots, Precedes(s, e), NEW t, t = Append(s, e)
    PROVE Ascending(t) /\ Appended(s, e, t)
<1> USE DEF Precedes
<1> DEFINE n == Len(s)
<1>1. s \in Seq(Slots)
    BY DEF Ascending
<1>2. n \in Nat /\ DOMAIN s = 1..n
    BY <1>1, LenProperties
<1>3. t \in Seq(Slots) /\ DOMAIN t = 1..(n + 1)
      /\ \A i \in 1..(n + 1) : t[i] = IF i <= n THEN s[i] ELSE e
  <2>1. t \in Seq(Slots) /\ Len(t) = n + 1
      BY <1>1
  <2>2. DOMAIN t = 1..Len(t)
      BY <2>1, LenProperties
  <2>3. \A i \in 1..(n + 1) : t[i] = IF i <= n THEN s[i] ELSE e
      BY <1>1
  <2> QED
      BY <2>1, <2>2, <2>3
<1> HIDE DEF n
<1>4. \A i \in 1..n : i \in 1..(n + 1) /\ t[i] = s[i]
    BY <1>2, <1>3
<1>5. n + 1 \in 1..(n + 1) /\ t[n + 1] = e
    BY <1>2, <1>3
<1>6. \A i \in 1..(n + 1) : i \in 1..n \/ i = n + 1
    BY <1>2
<1>7. ASSUME NEW i \in 1..(n + 1), NEW j \in 1..(n + 1), i < j PROVE t[i].seq < t[j].seq
  <2>1. i \in 1..n
      BY <1>2, <1>7
  <2>2. CASE j \in 1..n
      BY <1>2, <1>4, <1>7, <2>1, <2>2 DEF Ascending
  <2>3. CASE j = n + 1
      BY <1>2, <1>4, <1>5, <2>1, <2>3
  <2> QED
      BY <1>6, <2>2, <2>3
<1>8. Ascending(t)
    BY <1>3, <1>7 DEF Ascending
<1>9. (\A i \in DOMAIN s : i \in DOMAIN t /\ t[i] = s[i]) /\ (\E i \in DOMAIN t : t[i] = e)
    BY <1>2, <1>3, <1>4, <1>5
<1>10. \A i \in DOMAIN t : t[i] = e \/ (i \in DOMAIN s /\ t[i] = s[i])
    BY <1>2, <1>3, <1>4, <1>5, <1>6
<1> QED
    BY <1>8, <1>9, <1>10 DEF Appended

\* t is what is left of s after the place k.
CutAt(s, k, t) ==
    /\ \A i \in DOMAIN s : i > k => \E j \in DOMAIN t : t[j] = s[i]
    /\ \A j \in DOMAIN t : \E i \in DOMAIN s : t[j] = s[i]
LEMMA SlotsCut ==
    ASSUME NEW s, Ascending(s), NEW k \in DOMAIN s, NEW t, t = SubSeq(s, k + 1, Len(s))
    PROVE Ascending(t) /\ CutAt(s, k, t)
<1> DEFINE n == Len(s)
<1>1. s \in Seq(Slots)
    BY DEF Ascending
<1>2. n \in Nat /\ DOMAIN s = 1..n /\ k \in 1..n
    BY <1>1, LenProperties
<1>3. \A i \in (k + 1)..n : s[i] \in Slots
  <2>1. \A i \in 1..n : s[i] \in Slots
      BY <1>1, ElementOfSeq
  <2> QED
      BY <1>2, <2>1
<1>4. t \in Seq(Slots) /\ DOMAIN t = 1..(n - k) /\ \A j \in 1..(n - k) : t[j] = s[j + k]
  <2> HIDE DEF n
  <2>1. t = SubSeq(s, k + 1, n)
      BY DEF n
  <2>2. /\ t \in Seq(Slots) /\ Len(t) = (IF k + 1 <= n THEN n - (k + 1) + 1 ELSE 0)
        /\ \A j \in 1..(n - (k + 1) + 1) : t[j] = s[(k + 1) + j - 1]
    <3>1. k + 1 \in Int /\ n \in Int
        BY <1>2
    <3> QED
        BY <1>3, <2>1, <3>1, SubSeqProperties
  <2>3. n - (k + 1) + 1 = n - k /\ (IF k + 1 <= n THEN n - (k + 1) + 1 ELSE 0) = n - k
      BY <1>2
  <2>4. \A j \in 1..(n - k) : (k + 1) + j - 1 = j + k
      BY <1>2
  <2>5. DOMAIN t = 1..Len(t)
      BY <2>2, LenProperties
  <2> QED
      BY <2>2, <2>3, <2>4, <2>5
<1> HIDE DEF n
<1>5. \A j \in 1..(n - k) : j + k \in 1..n
    BY <1>2
<1>6. \A i \in 1..n : i > k => i - k \in 1..(n - k) /\ (i - k) + k = i
    BY <1>2
<1>7. ASSUME NEW i \in 1..(n - k), NEW j \in 1..(n - k), i < j PROVE t[i].seq < t[j].seq
  <2>1. i + k < j + k /\ i + k \in 1..n /\ j + k \in 1..n
      BY <1>2, <1>5, <1>7
  <2> QED
      BY <1>2, <1>4, <2>1 DEF Ascending
<1> QED
    BY <1>2, <1>4, <1>5, <1>6, <1>7 DEF Ascending, CutAt
-----------------------------------------------------------------------------
(* The table. *)

PrefixEntries == [node : LocalNodes, seq : Nat, old : BOOLEAN]
\* k has a slot that counts.
HasSlot(e, s, k) == \E i \in DOMAIN s : s[i] = [key |-> k, seq |-> e[k].seq]
EntriesTyped(e) == DOMAIN e \subseteq Keys /\ IsFiniteSet(DOMAIN e) /\ e \in [DOMAIN e -> PrefixEntries]
SlotsHold(e, s, next) ==
    /\ Ascending(s)
    /\ \A i \in DOMAIN s : s[i].seq <= next
    /\ \A k \in DOMAIN e : HasSlot(e, s, k)
TableOK(t) ==
    /\ t = [entries |-> t.entries, order |-> t.order, next |-> t.next]
    /\ EntriesTyped(t.entries) /\ t.next \in Nat
    /\ SlotsHold(t.entries, t.order, t.next)
    /\ Cardinality(DOMAIN t.entries) <= PrefixCap
\* f is e without the entry k.
OneLess(e, k, f) ==
    /\ Cardinality(DOMAIN f) = Cardinality(DOMAIN e) - 1
    /\ DOMAIN f = DOMAIN e \ {k} /\ \A x \in DOMAIN f : f[x] = e[x]
LEMMA WithoutOne ==
    ASSUME NEW e, EntriesTyped(e), NEW k \in DOMAIN e, NEW f, f = Without(e, {k})
    PROVE EntriesTyped(f) /\ OneLess(e, k, f)
<1>1. DOMAIN f = DOMAIN e \ {k} /\ \A x \in DOMAIN f : f[x] = e[x]
    BY DEF Without
<1>2. IsFiniteSet(DOMAIN f) /\ Cardinality(DOMAIN f) = Cardinality(DOMAIN e) - 1
  <2>1. IsFiniteSet(DOMAIN e)
      BY DEF EntriesTyped
  <2> QED
      BY <1>1, <2>1, FS_RemoveElement
<1> QED
  <2>1. f \in [DOMAIN f -> PrefixEntries]
    <3>1. f = [x \in DOMAIN f |-> f[x]]
        BY DEF Without
    <3>2. \A x \in DOMAIN f : f[x] \in PrefixEntries
        BY <1>1 DEF EntriesTyped
    <3> QED
        BY <3>1, <3>2
  <2>2. DOMAIN f \subseteq Keys
      BY <1>1 DEF EntriesTyped
  <2> QED
      BY <1>1, <1>2, <2>1, <2>2 DEF EntriesTyped, OneLess

\* An eviction finds a victim and leaves every other entry its slot.
LEMMA EvictKeeps ==
    ASSUME NEW t, TableOK(t), DOMAIN t.entries # {}, NEW u, u = EvictOldest(t)
    PROVE /\ TableOK(u) /\ u.next = t.next /\ DOMAIN u.entries \subseteq DOMAIN t.entries
          /\ Cardinality(DOMAIN u.entries) < Cardinality(DOMAIN t.entries)
<1> DEFINE e == t.entries
           s == t.order
           counting == {i \in DOMAIN s : Current(t, s[i])}
<1>1. /\ EntriesTyped(e) /\ SlotsHold(e, s, t.next) /\ t.next \in Nat
      /\ Cardinality(DOMAIN e) <= PrefixCap
    BY DEF TableOK
<1>2. Ascending(s) /\ s \in Seq(Slots) /\ Len(s) \in Nat /\ DOMAIN s = 1..Len(s)
    BY <1>1, LenProperties DEF SlotsHold, Ascending
<1>3. ASSUME NEW k \in DOMAIN e
      PROVE \E i \in counting : s[i] = [key |-> k, seq |-> e[k].seq]
  <2>1. PICK i \in DOMAIN s : s[i] = [key |-> k, seq |-> e[k].seq]
      BY <1>1, <1>3 DEF SlotsHold, HasSlot
  <2>2. s[i].key = k /\ s[i].seq = e[k].seq
      BY <2>1
  <2> QED
      BY <1>3, <2>1, <2>2 DEF Current
<1>4. counting # {}
    BY <1>3
<1> DEFINE i == CHOOSE i \in counting : \A j \in counting : i <= j
<1>5. i \in counting /\ \A j \in counting : i <= j
  <2>1. counting \in SUBSET (1..Len(s))
      BY <1>2
  <2>2. \E x \in counting : \A j \in counting : x <= j
    <3> HIDE DEF counting
    <3> QED
        BY <1>2, <1>4, <2>1, FirstPlace
  <2> HIDE DEF counting
  <2> QED
      BY <2>2
<1> DEFINE k == s[i].key
           f == Without(e, {k})
           c == SubSeq(s, i + 1, Len(s))
<1>6. u = [entries |-> f, order |-> c, next |-> t.next]
  <2>1. u = [t EXCEPT !.entries = Without(@, {t.order[i].key}),
                      !.order = SubSeq(@, i + 1, Len(@))]
      BY <1>4 DEF EvictOldest
  <2> HIDE DEF i
  <2>2. t = [entries |-> e, order |-> s, next |-> t.next]
      BY DEF TableOK
  <2> QED
      BY <2>1, <2>2
<1>7. i \in DOMAIN s /\ k \in DOMAIN e
    BY <1>5 DEF Current
<1> HIDE DEF i
<1>8. /\ EntriesTyped(f) /\ Cardinality(DOMAIN f) = Cardinality(DOMAIN e) - 1
      /\ DOMAIN f = DOMAIN e \ {k} /\ \A x \in DOMAIN f : f[x] = e[x]
  <2>1. f = Without(e, {k}) /\ k \in DOMAIN e /\ EntriesTyped(e)
      BY <1>1, <1>7
  <2> HIDE DEF f, e, k
  <2>2. EntriesTyped(f) /\ OneLess(e, k, f)
      BY <2>1, WithoutOne
  <2> QED
      BY <2>2 DEF OneLess
<1>9. Ascending(c) /\ CutAt(s, i, c)
  <2>1. c = SubSeq(s, i + 1, Len(s)) /\ Ascending(s) /\ i \in DOMAIN s
      BY <1>2, <1>7
  <2> HIDE DEF c, s
  <2> QED
      BY <2>1, SlotsCut
<1> HIDE DEF f, c
<1>10. ASSUME NEW x \in DOMAIN f PROVE HasSlot(f, c, x)
  <2>1. PICK j \in counting : s[j] = [key |-> x, seq |-> e[x].seq]
      BY <1>3, <1>8
  <2>2. s[j].key = x /\ x # k
      BY <1>8, <2>1
  <2>3. j # i
      BY <2>2
  <2>4. i \in Nat /\ j \in Nat /\ i <= j
      BY <1>2, <1>5, <1>7
  <2>5. j > i /\ j \in DOMAIN s
      BY <2>3, <2>4
  <2> QED
      BY <1>8, <1>9, <2>1, <2>5 DEF HasSlot, CutAt
<1>11. SlotsHold(f, c, t.next)
    BY <1>1, <1>9, <1>10 DEF SlotsHold, CutAt
<1>12. Cardinality(DOMAIN f) < Cardinality(DOMAIN e) /\ Cardinality(DOMAIN f) <= PrefixCap
  <2>1. Cardinality(DOMAIN e) \in Nat
      BY <1>1, FS_CardinalityType DEF EntriesTyped
  <2> QED
      BY <1>1, <1>8, <2>1, PrefixAssumption
<1>13. TableOK(u) /\ u.next = t.next /\ u.entries = f
    BY <1>1, <1>6, <1>8, <1>11, <1>12 DEF TableOK
<1> QED
    BY <1>8, <1>12, <1>13

\* What setLocked returns: the table of the code, whatever it had to evict.
LEMMA SetKeeps ==
    ASSUME NEW t, TableOK(t), NEW k \in Keys, NEW n \in LocalNodes, NEW u, u = SetLocked(t, k, n)
    PROVE TableOK(u)
<1> DEFINE crowded == k \notin DOMAIN t.entries /\ Cardinality(DOMAIN t.entries) >= PrefixCap
           r == IF crowded THEN EvictOldest(t) ELSE t
           z == t.next + 1
           new == [node |-> n, seq |-> z, old |-> FALSE]
           slot == [key |-> k, seq |-> z]
           e == Put(r.entries, k, new)
           o == Append(r.order, slot)
<1>1. u = [entries |-> e, order |-> o, next |-> z]
    BY DEF SetLocked
<1>2. /\ TableOK(r) /\ r.next = t.next
      /\ k \in DOMAIN r.entries \/ Cardinality(DOMAIN r.entries) < PrefixCap
  <2>1. EntriesTyped(t.entries) /\ Cardinality(DOMAIN t.entries) <= PrefixCap
      BY DEF TableOK
  <2>2. Cardinality(DOMAIN t.entries) \in Nat
      BY <2>1, FS_CardinalityType DEF EntriesTyped
  <2>3. CASE crowded
    <3>1. DOMAIN t.entries # {}
      <4>1. SUFFICES ASSUME DOMAIN t.entries = {} PROVE FALSE
          OBVIOUS
      <4>2. Cardinality(DOMAIN t.entries) = 0
          BY <4>1, FS_EmptySet
      <4>3. PrefixCap > 0 /\ PrefixCap \in Nat
          BY PrefixAssumption
      <4> QED
          BY <2>3, <4>2, <4>3
    <3>2. /\ TableOK(r) /\ r.next = t.next
          /\ Cardinality(DOMAIN r.entries) < Cardinality(DOMAIN t.entries)
        BY <2>3, <3>1, EvictKeeps
    <3> HIDE DEF r
    <3>3. Cardinality(DOMAIN r.entries) \in Nat
        BY <3>2, FS_CardinalityType DEF TableOK, EntriesTyped
    <3> QED
        BY <2>1, <2>2, <3>2, <3>3, PrefixAssumption
  <2>4. CASE ~crowded
      BY <2>2, <2>4, PrefixAssumption
  <2> QED
      BY <2>3, <2>4
<1> HIDE DEF r
<1>3. /\ EntriesTyped(r.entries) /\ SlotsHold(r.entries, r.order, r.next) /\ t.next \in Nat
      /\ Cardinality(DOMAIN r.entries) <= PrefixCap /\ IsFiniteSet(DOMAIN r.entries)
    BY <1>2 DEF TableOK, EntriesTyped
<1>4. z \in Nat /\ t.next < z
    BY <1>3
<1> HIDE DEF z
<1>5. new \in PrefixEntries /\ new.seq = z /\ slot \in Slots /\ slot.seq = z
    BY <1>4 DEF PrefixEntries, Slots
<1>6. DOMAIN e = DOMAIN r.entries \cup {k} /\ e[k] = new
      /\ \A x \in DOMAIN e : x # k => x \in DOMAIN r.entries /\ e[x] = r.entries[x]
    BY DEF Put
<1>14. e = [x \in DOMAIN e |-> e[x]]
    BY DEF Put
<1> HIDE DEF e, new
<1>7. EntriesTyped(e)
  <2>1. IsFiniteSet(DOMAIN e)
      BY <1>3, <1>6, FS_AddElement
  <2> QED
    <3>1. \A x \in DOMAIN e : e[x] \in PrefixEntries
        BY <1>3, <1>5, <1>6 DEF EntriesTyped
    <3>2. e \in [DOMAIN e -> PrefixEntries]
        BY <1>14, <3>1
    <3>3. DOMAIN e \subseteq Keys
        BY <1>3, <1>6 DEF EntriesTyped
    <3> QED
        BY <2>1, <3>2, <3>3 DEF EntriesTyped
<1>8. Cardinality(DOMAIN e) <= PrefixCap
  <2>1. Cardinality(DOMAIN r.entries) \in Nat
      BY <1>3, FS_CardinalityType
  <2>2. CASE k \in DOMAIN r.entries
    <3>1. DOMAIN e = DOMAIN r.entries
        BY <1>6, <2>2
    <3> QED
        BY <1>3, <3>1
  <2>3. CASE k \notin DOMAIN r.entries
    <3>1. Cardinality(DOMAIN e) = Cardinality(DOMAIN r.entries) + 1
        BY <1>3, <1>6, <2>3, FS_AddElement
    <3> QED
        BY <1>2, <2>1, <2>3, <3>1, PrefixAssumption
  <2> QED
      BY <2>2, <2>3
<1>9. Ascending(r.order) /\ \A i \in DOMAIN r.order : r.order[i].seq < slot.seq
  <2>1. ASSUME NEW i \in DOMAIN r.order PROVE r.order[i].seq < z
    <3>1. r.order[i].seq \in Nat /\ r.order[i].seq <= t.next
      <4>1. Ascending(r.order) /\ r.order[i].seq <= t.next
          BY <1>2, <1>3 DEF SlotsHold
      <4> QED
          BY <4>1, SlotAt
    <3> QED
        BY <1>3, <1>4, <3>1
  <2> QED
      BY <1>3, <1>5, <2>1 DEF SlotsHold
<1> HIDE DEF slot
<1>10. Ascending(o) /\ Appended(r.order, slot, o)
  <2>1. o = Append(r.order, slot) /\ Ascending(r.order) /\ Precedes(r.order, slot)
      BY <1>9 DEF Precedes
  <2> HIDE DEF o
  <2> QED
      BY <1>5, <2>1, SlotAppended
<1> HIDE DEF o
<1>11. ASSUME NEW x \in DOMAIN e PROVE HasSlot(e, o, x)
  <2>1. CASE x = k
      BY <1>5, <1>6, <1>10, <2>1 DEF HasSlot, slot, Appended
  <2>2. CASE x # k
      BY <1>3, <1>6, <1>10, <1>11, <2>2 DEF SlotsHold, HasSlot, Appended
  <2> QED
      BY <2>1, <2>2
<1>12. ASSUME NEW i \in DOMAIN o PROVE o[i].seq <= z
  <2>1. CASE o[i] = slot
      BY <1>4, <1>5, <2>1
  <2>2. CASE i \in DOMAIN r.order /\ o[i] = r.order[i]
    <3>1. r.order[i].seq \in Nat /\ r.order[i].seq < z
        BY <1>5, <1>9, <2>2, SlotAt
    <3> QED
        BY <1>4, <2>2, <3>1
  <2> QED
      BY <1>10, <1>12, <2>1, <2>2 DEF Appended
<1>13. SlotsHold(e, o, z)
    BY <1>10, <1>11, <1>12 DEF SlotsHold
<1> QED
    BY <1>1, <1>4, <1>7, <1>8, <1>13 DEF TableOK
-----------------------------------------------------------------------------
(* The folds over the slots and over the rows. *)

\* The live slots of the places in S are kept, in their order.
LiveOf(t, s, S, a) ==
    /\ Ascending(a)
    /\ \A j \in DOMAIN a : \E i \in S : a[j] = s[i]
    /\ \A i \in S : Current(t, s[i]) => \E j \in DOMAIN a : a[j] = s[i]
KeepLive(t, slot, a) == IF Current(t, slot) THEN Append(a, slot) ELSE a

LEMMA KeepOne ==
    ASSUME NEW t, NEW s, Ascending(s), NEW S \in SUBSET DOMAIN s, NEW m \in S,
           \A i \in S : i <= m, NEW a, LiveOf(t, s, S \ {m}, a)
    PROVE LiveOf(t, s, S, KeepLive(t, s[m], a))
<1>1. CASE ~Current(t, s[m])
    BY <1>1 DEF LiveOf, KeepLive
<1>2. CASE Current(t, s[m])
  <2> DEFINE b == Append(a, s[m])
             e == s[m]
  <2>1. e \in Slots /\ Ascending(a)
      BY SlotAt DEF LiveOf
  <2>2. Precedes(a, e)
    <3>1. ASSUME NEW j \in DOMAIN a PROVE a[j].seq < e.seq
      <4>1. PICK i \in S \ {m} : a[j] = s[i]
          BY DEF LiveOf
      <4>2. DOMAIN s = 1..Len(s) /\ Len(s) \in Nat
          BY LenProperties DEF Ascending
      <4>3. i < m
          BY <4>1, <4>2
      <4> QED
          BY <4>1, <4>3 DEF Ascending
    <3> QED
        BY <3>1 DEF Precedes
  <2>3. b = Append(a, e)
      OBVIOUS
  <2>4. e = s[m]
      OBVIOUS
  <2> HIDE DEF b, e
  <2>5. Ascending(b) /\ Appended(a, e, b)
      BY <2>1, <2>2, <2>3, SlotAppended
  <2>6. \A j \in DOMAIN b : \E i \in S : b[j] = s[i]
      BY <2>4, <2>5 DEF Appended, LiveOf
  <2>7. \A i \in S : Current(t, s[i]) => \E j \in DOMAIN b : b[j] = s[i]
    <3>1. ASSUME NEW i \in S, Current(t, s[i]) PROVE \E j \in DOMAIN b : b[j] = s[i]
      <4>1. CASE i = m
          BY <2>4, <2>5, <4>1 DEF Appended
      <4>2. CASE i # m
          BY <2>5, <3>1, <4>2 DEF Appended, LiveOf
      <4> QED
          BY <4>1, <4>2
    <3> QED
        BY <3>1
  <2>8. KeepLive(t, s[m], a) = b
      BY <1>2, <2>3, <2>4 DEF KeepLive
  <2> QED
      BY <2>5, <2>6, <2>7, <2>8 DEF LiveOf
<1> QED
    BY <1>1, <1>2

\* Live takes every slot that counts and no other, in the order they had.
LEMMA LiveKeeps ==
    ASSUME NEW t, NEW s, Ascending(s)
    PROVE LiveOf(t, s, DOMAIN s, Live(t, s))
<1> DEFINE D == DOMAIN s
           V == Seq(Slots)
           c == [S \in SUBSET D |-> Max(S)]
           G == [z \in D \X V |-> KeepLive(t, s[z[1]], z[2])]
           Visit(h) == [S \in SUBSET D |->
                           IF S = {} THEN <<>> ELSE KeepLive(t, s[Max(S)], h[S \ {Max(S)}])]
           g == CHOOSE iter : iter = Visit(iter)
<1>1. Live(t, s) = g[D]
    BY DEF Live, FoldLeft, MapThenFoldSet, KeepLive
<1>2. D = 1..Len(s) /\ Len(s) \in Nat /\ IsFiniteSet(D)
    BY LenProperties, FS_Interval DEF Ascending
<1>3. \A S \in SUBSET D : S # {} => c[S] \in S /\ \A j \in S : j <= c[S]
    BY <1>2, LastPlace
<1>4. G \in [D \X V -> V]
  <2>1. ASSUME NEW i \in D, NEW a \in V PROVE KeepLive(t, s[i], a) \in V
    <3>1. s[i] \in Slots
        BY SlotAt
    <3>2. Append(a, s[i]) \in V
        BY <3>1
    <3> QED
        BY <3>2 DEF KeepLive
  <2> HIDE DEF V
  <2> QED
      BY <2>1
<1>5. PICK w \in [SUBSET D -> V] : FoldOf(D, G, <<>>, c, w)
  <2>1. <<>> \in V
      OBVIOUS
  <2>2. Chooses(c, D)
    <3> HIDE DEF c
    <3> QED
        BY <1>3 DEF Chooses
  <2> HIDE DEF G, c, D, V
  <2> QED
      BY <1>2, <1>4, <2>1, <2>2, FoldExists
<1> HIDE DEF V
<1>6. w = Visit(w)
  <2>1. ASSUME NEW S \in SUBSET D, S # {} PROVE w[S] = Visit(w)[S]
    <3>1. c[S] \in D /\ S \ {c[S]} \in SUBSET D /\ c[S] = Max(S)
        BY <1>3, <2>1
    <3>2. w[S \ {c[S]}] \in V
        BY <1>5, <3>1
    <3>3. w[S] = KeepLive(t, s[c[S]], w[S \ {c[S]}])
        BY <1>5, <2>1, <3>1, <3>2 DEF FoldOf
    <3> QED
        BY <2>1, <3>1, <3>3
  <2>2. w[{}] = Visit(w)[{}]
      BY <1>5 DEF FoldOf
  <2>3. w = [S \in SUBSET D |-> w[S]] /\ Visit(w) = [S \in SUBSET D |-> Visit(w)[S]]
      BY <1>5
  <2> HIDE DEF Visit
  <2> QED
      BY <2>1, <2>2, <2>3
<1>7. g = Visit(g)
  <2> HIDE DEF Visit
  <2> QED
      BY <1>6
<1> HIDE DEF g
<1>8. g[{}] = <<>>
    BY <1>7
<1>9. ASSUME NEW S \in SUBSET D, S # {} PROVE g[S] = KeepLive(t, s[c[S]], g[S \ {c[S]}])
  <2>1. g[S] = Visit(g)[S]
      BY <1>7
  <2> QED
      BY <1>9, <2>1
<1> HIDE DEF Visit, c, G
<1> DEFINE H == {S \in SUBSET D : LiveOf(t, s, S, g[S])}
<1>10. {} \in H
  <2>1. Ascending(<<>>)
      BY DEF Ascending
  <2> QED
      BY <1>8, <2>1 DEF LiveOf
<1>11. ASSUME NEW S \in SUBSET D, S # {}, S \ {c[S]} \in H PROVE S \in H
  <2>1. c[S] \in S /\ (\A j \in S : j <= c[S]) /\ LiveOf(t, s, S \ {c[S]}, g[S \ {c[S]}])
      BY <1>3, <1>11
  <2>2. LiveOf(t, s, S, KeepLive(t, s[c[S]], g[S \ {c[S]}]))
      BY <2>1, KeepOne
  <2> QED
      BY <1>9, <1>11, <2>2
<1>12. D \in H
  <2> HIDE DEF H, D
  <2> QED
      BY <1>2, <1>3, <1>10, <1>11, FoldHolds
<1> QED
    BY <1>1, <1>12
PrefixRows == [key : Keys, node : LocalNodes, seq : Nat, old : BOOLEAN]
Tables == [entries : UNION {[S -> PrefixEntries] : S \in SUBSET Keys}, order : Seq(Slots), next : Nat]
\* The table of a reseed and how many entries it has taken from rows.
Seeds == {a \in [table : Tables, seeded : Nat] : TableOK(a.table)}

LEMMA TableIn == ASSUME NEW t, TableOK(t) PROVE t \in Tables
<1>1. t.entries \in UNION {[S -> PrefixEntries] : S \in SUBSET Keys}
    BY DEF TableOK, EntriesTyped
<1>2. t.order \in Seq(Slots) /\ t.next \in Nat
    BY DEF TableOK, SlotsHold, Ascending
<1>3. t = [entries |-> t.entries, order |-> t.order, next |-> t.next]
    BY DEF TableOK
<1> QED
    BY <1>1, <1>2, <1>3 DEF Tables

LEMMA SeedOne ==
    ASSUME NEW acc \in Seeds, NEW r \in PrefixRows, NEW nodes \in SUBSET LocalNodes
    PROVE SeedRow(acc, r, nodes) \in Seeds
<1> DEFINE t == SetIfAbsent(acc.table, r.key, r.node)
           n == acc.seeded + (IF r.key \in DOMAIN acc.table.entries THEN 0 ELSE 1)
<1>1. TableOK(acc.table) /\ acc.seeded \in Nat /\ r.key \in Keys /\ r.node \in LocalNodes
    BY DEF Seeds, PrefixRows
<1>2. TableOK(t)
    BY <1>1, SetKeeps DEF SetIfAbsent
<1>3. n \in Nat
    BY <1>1
<1>4. SeedRow(acc, r, nodes) = acc \/ SeedRow(acc, r, nodes) = [table |-> t, seeded |-> n]
    BY DEF SeedRow
<1> HIDE DEF t, n
<1> QED
    BY <1>2, <1>3, <1>4, TableIn DEF Seeds

\* A reseed keeps the table within its cap and every entry its slot.
LEMMA SeededKeeps ==
    ASSUME rows \in Seq(PrefixRows), NEW t, TableOK(t), NEW nodes \in SUBSET LocalNodes
    PROVE TableOK(Seeded(t, nodes))
<1> DEFINE s == Reverse(rows)
           D == DOMAIN s
           b == [table |-> t, seeded |-> 0]
           c == [S \in SUBSET D |-> Max(S)]
           G == [z \in D \X Seeds |-> SeedRow(z[2], s[z[1]], nodes)]
           Visit(h) == [S \in SUBSET D |->
                           IF S = {} THEN b ELSE SeedRow(h[S \ {Max(S)}], s[Max(S)], nodes)]
           g == CHOOSE iter : iter = Visit(iter)
<1>1. Seeded(t, nodes) = g[D].table
    BY DEF Seeded, FoldLeft, MapThenFoldSet
<1>2. D = 1..Len(rows) /\ Len(rows) \in Nat /\ IsFiniteSet(D)
    BY LenProperties, FS_Interval DEF Reverse
<1>3. \A S \in SUBSET D : S # {} => c[S] \in S
    BY <1>2, LastPlace
<1>4. \A i \in D : s[i] \in PrefixRows
  <2>1. \A i \in 1..Len(rows) : (Len(rows) - i) + 1 \in 1..Len(rows)
      BY <1>2
  <2>2. \A i \in 1..Len(rows) : rows[i] \in PrefixRows
      BY ElementOfSeq
  <2>3. \A i \in 1..Len(rows) : s[i] = rows[(Len(rows) - i) + 1]
      BY DEF Reverse
  <2> QED
      BY <1>2, <2>1, <2>2, <2>3
<1>5. b \in Seeds
    BY TableIn DEF Seeds
<1> HIDE DEF s, b
<1>6. G \in [D \X Seeds -> Seeds]
  <2>1. \A z \in D \X Seeds : SeedRow(z[2], s[z[1]], nodes) \in Seeds
      BY <1>4, SeedOne
  <2> QED
      BY <2>1
<1>7. PICK w \in [SUBSET D -> Seeds] : FoldOf(D, G, b, c, w)
  <2>1. Chooses(c, D)
    <3> HIDE DEF c
    <3> QED
        BY <1>3 DEF Chooses
  <2> HIDE DEF G, c, D
  <2> QED
      BY <1>2, <1>5, <1>6, <2>1, FoldExists
<1>8. w = Visit(w)
  <2>1. ASSUME NEW S \in SUBSET D, S # {} PROVE w[S] = Visit(w)[S]
    <3>1. c[S] \in D /\ S \ {c[S]} \in SUBSET D /\ c[S] = Max(S)
        BY <1>3, <2>1
    <3>2. w[S \ {c[S]}] \in Seeds
        BY <1>7, <3>1
    <3>3. w[S] = SeedRow(w[S \ {c[S]}], s[c[S]], nodes)
        BY <1>7, <2>1, <3>1, <3>2 DEF FoldOf
    <3> QED
        BY <2>1, <3>1, <3>3
  <2>2. w[{}] = Visit(w)[{}]
      BY <1>7 DEF FoldOf
  <2>3. w = [S \in SUBSET D |-> w[S]] /\ Visit(w) = [S \in SUBSET D |-> Visit(w)[S]]
      BY <1>7
  <2> HIDE DEF Visit
  <2> QED
      BY <2>1, <2>2, <2>3
<1>9. g = Visit(g)
  <2> HIDE DEF Visit
  <2> QED
      BY <1>8
<1> HIDE DEF g
<1>10. g[{}] = b
    BY <1>9
<1>11. ASSUME NEW S \in SUBSET D, S # {} PROVE g[S] = SeedRow(g[S \ {c[S]}], s[c[S]], nodes)
  <2>1. g[S] = Visit(g)[S]
      BY <1>9
  <2> QED
      BY <1>11, <2>1
<1> HIDE DEF Visit, c, G
<1> DEFINE H == {S \in SUBSET D : g[S] \in Seeds}
<1>12. {} \in H
    BY <1>5, <1>10
<1>13. ASSUME NEW S \in SUBSET D, S # {}, S \ {c[S]} \in H PROVE S \in H
  <2>1. c[S] \in D /\ g[S \ {c[S]}] \in Seeds
      BY <1>3, <1>13
  <2>2. s[c[S]] \in PrefixRows
      BY <1>4, <2>1
  <2>3. SeedRow(g[S \ {c[S]}], s[c[S]], nodes) \in Seeds
      BY <2>1, <2>2, SeedOne
  <2>4. g[S] \in Seeds
      BY <1>11, <1>13, <2>3
  <2> QED
      BY <1>13, <2>4
<1>14. D \in H
  <2> HIDE DEF H, D
  <2> QED
      BY <1>2, <1>3, <1>12, <1>13, FoldHolds
<1> QED
    BY <1>1, <1>14 DEF Seeds

-----------------------------------------------------------------------------
(* The invariant. *)

PrefixInv ==
    /\ TableOK(Table)
    /\ rows \in Seq(PrefixRows) /\ writes \subseteq PrefixRows
    /\ nodesNow \subseteq LocalNodes /\ enabled \in BOOLEAN /\ hint \in LocalNodes \cup {"-"}

LEMMA EmptyTable == ASSUME NEW n \in Nat PROVE TableOK([entries |-> <<>>, order |-> <<>>, next |-> n])
<1> DEFINE t == [entries |-> <<>>, order |-> <<>>, next |-> n]
<1>1. t.entries = <<>> /\ t.order = <<>> /\ t.next = n /\ DOMAIN <<>> = {}
    OBVIOUS
<1>2. EntriesTyped(<<>>)
    BY FS_EmptySet DEF EntriesTyped
<1>3. SlotsHold(<<>>, <<>>, n)
    BY DEF SlotsHold, Ascending
<1>4. Cardinality({}) <= PrefixCap
    BY FS_EmptySet, PrefixAssumption
<1> QED
    BY <1>1, <1>2, <1>3, <1>4 DEF TableOK

\* A step that writes a sound table keeps the table sound.
LEMMA TableBecomes == ASSUME NEW t, TableOK(t), Becomes(t) PROVE TableOK(Table)'
<1>1. Table' = t
    BY DEF TableOK, Becomes, Table
<1> QED
    BY <1>1

LEMMA PrefixInitially == ASSUME PrefixInit PROVE PrefixInv
<1>1. TableOK(Table)
    BY EmptyTable DEF PrefixInit, Table
<1> QED
    BY <1>1 DEF PrefixInit, PrefixInv
LEMMA RecordKeeps ==
    ASSUME PrefixInv, NEW k \in Keys, NEW n \in nodesNow, RecordPrefixLocality(k, n)
    PROVE PrefixInv'
<1>1. TableOK(SetLocked(Table, k, n))
    BY SetKeeps DEF PrefixInv
<1>2. TableOK(Table)'
    BY <1>1, TableBecomes DEF RecordPrefixLocality
<1>3. [key |-> k, node |-> n, seq |-> nextSeq + 1, old |-> FALSE] \in PrefixRows
  <2>1. nextSeq \in Nat
      BY DEF PrefixInv, TableOK, Table
  <2>2. nextSeq + 1 \in Nat /\ n \in LocalNodes
      BY <2>1 DEF PrefixInv
  <2> QED
      BY <2>2 DEF PrefixRows
<1>4. writes' \subseteq PrefixRows
    BY <1>3 DEF RecordPrefixLocality, PrefixInv
<1> QED
    BY <1>2, <1>4 DEF PrefixInv, RecordPrefixLocality

LEMMA AppendRowKeeps ==
    ASSUME PrefixInv, NEW w \in writes, AppendRow(w)
    PROVE PrefixInv'
<1>1. rows' \in Seq(PrefixRows) /\ writes' \subseteq PrefixRows
    BY DEF PrefixInv, AppendRow
<1>2. Table' = Table
    BY DEF AppendRow, Table
<1> QED
    BY <1>1, <1>2 DEF PrefixInv, AppendRow

\* The probe that answers is one of the hits.
LEMMA LookupKeeps ==
    ASSUME PrefixInv, NEW k \in Keys, PrefixLocalityLookup(k[1], k[2])
    PROVE PrefixInv'
<1> DEFINE h == k[2]
           d == k[1]
           depth == IF Len(h) - 1 < ProbeDepth THEN Len(h) - 1 ELSE ProbeDepth
           p == [i \in 1..depth |-> SubSeq(h, 1, Len(h) - i)]
           T == Seq({1, 2})
<1>1. h \in T /\ h # <<>> /\ Len(h) \in Nat
    BY PrefixAssumption DEF Keys
<1>2. Len(h) # 0
    BY <1>1, EmptySeq
<1>3. depth \in Nat /\ depth < Len(h)
    BY <1>1, <1>2, PrefixAssumption
<1>4. p \in Seq(T)
  <2>1. ASSUME NEW i \in 1..depth PROVE SubSeq(h, 1, Len(h) - i) \in T
    <3>1. Len(h) - i \in Int /\ Len(h) - i <= Len(h)
        BY <1>1, <1>3
    <3>2. \A j \in 1..(Len(h) - i) : h[j] \in {1, 2}
      <4>1. \A j \in 1..(Len(h) - i) : j \in 1..Len(h)
          BY <1>1, <3>1
      <4> QED
          BY <1>1, <4>1, ElementOfSeq
    <3> QED
        BY <3>1, <3>2, SubSeqProperties
  <2> HIDE DEF T, depth
  <2> QED
      BY <1>3, <2>1
<1> DEFINE q == <<h>>
<1>5. q \in Seq(T)
    BY <1>1
<1>6. Probes(h) \in Seq(T)
  <2>1. Probes(h) = p \o q
      BY DEF Probes
  <2> HIDE DEF p, q, T
  <2> QED
      BY <1>4, <1>5, <2>1
<1>7. DOMAIN Probes(h) = 1..Len(Probes(h)) /\ Len(Probes(h)) \in Nat
    BY <1>6, LenProperties
<1> DEFINE S == Hits(d, h)
           i == CHOOSE x \in S : \A j \in S : x <= j
<1>8. S \in SUBSET (1..Len(Probes(h))) /\ S # {}
    BY <1>7 DEF Hits, PrefixLocalityLookup
<1>9. i \in S
  <2>1. \E x \in S : \A j \in S : x <= j
    <3> HIDE DEF S
    <3> QED
        BY <1>7, <1>8, FirstPlace
  <2> HIDE DEF S
  <2> QED
      BY <2>1
<1>10. <<d, Probes(h)[i]>> \in DOMAIN entries
    BY <1>9 DEF Hits
<1>11. hint' = entries[<<d, Probes(h)[i]>>].node
    BY DEF PrefixLocalityLookup
<1> HIDE DEF i
<1>12. hint' \in LocalNodes
  <2>1. entries \in [DOMAIN entries -> PrefixEntries]
      BY DEF PrefixInv, TableOK, Table, EntriesTyped
  <2> QED
      BY <1>10, <1>11, <2>1 DEF PrefixEntries
<1>13. Table' = Table
    BY DEF PrefixLocalityLookup, Table
<1> QED
    BY <1>12, <1>13 DEF PrefixInv, PrefixLocalityLookup

LEMMA ExpiresKeeps ==
    ASSUME PrefixInv, NEW k \in Keys, Expires(k)
    PROVE PrefixInv'
<1>1. /\ EntriesTyped(entries) /\ nextSeq \in Nat /\ SlotsHold(entries, order, nextSeq)
      /\ Cardinality(DOMAIN entries) <= PrefixCap
    BY DEF PrefixInv, TableOK, Table
<1> DEFINE e == [entries[k] EXCEPT !.old = TRUE]
<1>2. k \in DOMAIN entries /\ entries[k] \in PrefixEntries
    BY <1>1 DEF Expires, EntriesTyped
<1>3. e \in PrefixEntries /\ e.seq = entries[k].seq
    BY <1>2 DEF PrefixEntries
<1>4. /\ entries' \in [DOMAIN entries -> PrefixEntries] /\ DOMAIN entries' = DOMAIN entries
      /\ \A x \in DOMAIN entries : entries'[x].seq = entries[x].seq
  <2>1. entries' = [entries EXCEPT ![k] = e]
      BY DEF Expires
  <2> HIDE DEF e
  <2> QED
      BY <1>1, <1>3, <2>1 DEF EntriesTyped
<1>5. EntriesTyped(entries') /\ SlotsHold(entries', order, nextSeq)
    BY <1>1, <1>4 DEF EntriesTyped, SlotsHold, HasSlot
<1>6. rows' \in Seq(PrefixRows)
  <2>1. ASSUME NEW i \in DOMAIN rows PROVE rows'[i] \in PrefixRows
    <3>1. rows[i] \in PrefixRows
        BY ElementOfSeq, LenProperties DEF PrefixInv
    <3>2. [rows[i] EXCEPT !.old = TRUE] \in PrefixRows
        BY <3>1 DEF PrefixRows
    <3>3. rows'[i] = rows[i] \/ rows'[i] = [rows[i] EXCEPT !.old = TRUE]
        BY DEF Expires
    <3> QED
        BY <3>1, <3>2, <3>3
  <2>2. rows' = [i \in 1..Len(rows) |-> rows'[i]] /\ Len(rows) \in Nat
      BY LenProperties DEF Expires, PrefixInv
  <2>3. DOMAIN rows = 1..Len(rows)
      BY LenProperties DEF PrefixInv
  <2> QED
      BY <2>1, <2>2, <2>3
<1>7. TableOK(Table)'
  <2>1. Table' = [entries |-> entries', order |-> order, next |-> nextSeq]
      BY DEF Expires, Table
  <2> QED
      BY <1>1, <1>4, <1>5, <2>1 DEF TableOK
<1> QED
    BY <1>6, <1>7 DEF PrefixInv, Expires
\* A sweep drops entries and the slots that no longer count, and no others.
LEMMA SweepKeeps ==
    ASSUME PrefixInv, Sweep
    PROVE PrefixInv'
<1> DEFINE dead == {k \in DOMAIN entries : entries[k].old}
           e == Without(entries, dead)
           t == [entries |-> e, order |-> order, next |-> nextSeq]
           s == Live(t, order)
           u == [entries |-> e, order |-> s, next |-> nextSeq]
<1>1. /\ EntriesTyped(entries) /\ nextSeq \in Nat /\ SlotsHold(entries, order, nextSeq)
      /\ Cardinality(DOMAIN entries) <= PrefixCap
    BY DEF PrefixInv, TableOK, Table
<1>2. Becomes(u)
  <2> DEFINE v == [Table EXCEPT !.entries = Without(@, {k \in DOMAIN @ : @[k].old})]
  <2>1. v = t
      BY DEF Table
  <2>2. Becomes([v EXCEPT !.order = Live(v, @)])
      BY DEF Sweep
  <2>3. [t EXCEPT !.order = Live(t, @)] = u
      OBVIOUS
  <2> HIDE DEF v, t, u
  <2> QED
      BY <2>1, <2>2, <2>3
<1>3. DOMAIN e \subseteq DOMAIN entries /\ (\A k \in DOMAIN e : e[k] = entries[k])
      /\ e = [k \in DOMAIN e |-> e[k]]
    BY DEF Without
<1>4. t.entries = e
    OBVIOUS
<1>5. LiveOf(t, order, DOMAIN order, s)
    BY <1>1, LiveKeeps DEF SlotsHold
<1> HIDE DEF e, t, s
<1>6. EntriesTyped(e)
  <2>1. DOMAIN e \subseteq Keys /\ \A k \in DOMAIN e : e[k] \in PrefixEntries
      BY <1>1, <1>3 DEF EntriesTyped
  <2>2. e \in [DOMAIN e -> PrefixEntries]
      BY <1>3, <2>1
  <2>3. IsFiniteSet(DOMAIN e)
      BY <1>1, <1>3, FS_Subset DEF EntriesTyped
  <2> QED
      BY <2>1, <2>2, <2>3 DEF EntriesTyped
<1>7. Cardinality(DOMAIN e) <= PrefixCap
  <2>1. IsFiniteSet(DOMAIN entries)
      BY <1>1 DEF EntriesTyped
  <2>2. Cardinality(DOMAIN e) <= Cardinality(DOMAIN entries) /\ IsFiniteSet(DOMAIN e)
      BY <1>3, <2>1, FS_Subset
  <2>3. Cardinality(DOMAIN e) \in Nat /\ Cardinality(DOMAIN entries) \in Nat
      BY <2>1, <2>2, FS_CardinalityType
  <2> QED
      BY <1>1, <2>2, <2>3, PrefixAssumption
<1>8. ASSUME NEW k \in DOMAIN e PROVE HasSlot(e, s, k)
  <2>1. PICK i \in DOMAIN order : order[i] = [key |-> k, seq |-> entries[k].seq]
      BY <1>1, <1>3, <1>8 DEF SlotsHold, HasSlot
  <2>2. order[i].key = k /\ order[i].seq = e[k].seq
      BY <1>3, <1>8, <2>1
  <2>3. Current(t, order[i])
      BY <1>4, <1>8, <2>2 DEF Current
  <2>4. \E j \in DOMAIN s : s[j] = order[i]
      BY <1>5, <2>3 DEF LiveOf
  <2> QED
      BY <1>3, <1>8, <2>1, <2>4 DEF HasSlot
<1>9. SlotsHold(e, s, nextSeq)
  <2>1. Ascending(s)
      BY <1>5 DEF LiveOf
  <2>2. \A j \in DOMAIN s : s[j].seq <= nextSeq
      BY <1>1, <1>5 DEF LiveOf, SlotsHold
  <2> QED
      BY <1>8, <2>1, <2>2 DEF SlotsHold
<1>10. TableOK(u)
    BY <1>1, <1>6, <1>7, <1>9 DEF TableOK
<1> HIDE DEF u
<1>11. TableOK(Table)'
    BY <1>2, <1>10, TableBecomes
<1> QED
    BY <1>11 DEF PrefixInv, Sweep

LEMMA SetPrefixKeeps ==
    ASSUME PrefixInv, NEW on \in BOOLEAN, SetPrefixLocality(on)
    PROVE PrefixInv'
<1>1. TableOK(Table) /\ TableOK(Seeded(Table, nodesNow))
    BY SeededKeeps DEF PrefixInv
<1>2. TableOK(Table)'
  <2>1. Becomes(Table) \/ Becomes(Seeded(Table, nodesNow))
      BY DEF SetPrefixLocality
  <2> QED
      BY <1>1, <2>1, TableBecomes
<1> QED
    BY <1>2 DEF PrefixInv, SetPrefixLocality

LEMMA PrefixRestartKeeps ==
    ASSUME PrefixInv, PrefixRestart
    PROVE PrefixInv'
<1> DEFINE none == [entries |-> <<>>, order |-> <<>>, next |-> nextSeq]
<1>1. PICK stay \in SUBSET LocalNodes :
         /\ nodesNow' = stay
         /\ Becomes(IF enabled THEN Seeded(none, stay) ELSE none)
    BY DEF PrefixRestart
<1>2. TableOK(none)
  <2>1. nextSeq \in Nat
      BY DEF PrefixInv, TableOK, Table
  <2> QED
      BY <2>1, EmptyTable
<1> HIDE DEF none
<1>3. TableOK(Seeded(none, stay))
    BY <1>2, SeededKeeps DEF PrefixInv
<1>4. TableOK(Table)'
  <2>1. Becomes(none) \/ Becomes(Seeded(none, stay))
      BY <1>1
  <2> QED
      BY <1>2, <1>3, <2>1, TableBecomes
<1> QED
    BY <1>1, <1>4 DEF PrefixInv, PrefixRestart

LEMMA PrefixMoves == ASSUME PrefixInv, [PrefixNext]_prefixVars PROVE PrefixInv'
<1>1. CASE UNCHANGED prefixVars
    BY <1>1 DEF PrefixInv, prefixVars, Table
<1>2. CASE PrefixNext
    BY <1>2, RecordKeeps, AppendRowKeeps, LookupKeeps, ExpiresKeeps, SweepKeeps, SetPrefixKeeps,
       PrefixRestartKeeps DEF PrefixNext
<1> QED
    BY <1>1, <1>2

LEMMA PrefixShown == ASSUME PrefixInv PROVE PrefixTypeOK /\ PrefixEvictable
<1>1. /\ EntriesTyped(entries) /\ nextSeq \in Nat /\ SlotsHold(entries, order, nextSeq)
      /\ Cardinality(DOMAIN entries) <= PrefixCap /\ Ascending(order)
    BY DEF PrefixInv, TableOK, Table, SlotsHold
<1>2. PrefixTypeOK
  <2>1. \A k \in DOMAIN entries : entries[k].node \in LocalNodes
      BY <1>1 DEF EntriesTyped, PrefixEntries
  <2>2. \A i \in DOMAIN order : order[i].key \in Keys
      BY <1>1, SlotAt
  <2> QED
      BY <1>1, <2>1, <2>2 DEF PrefixTypeOK, PrefixInv, EntriesTyped
<1>3. ASSUME NEW k \in DOMAIN entries
      PROVE Cardinality({i \in DOMAIN order : order[i] = [key |-> k, seq |-> entries[k].seq]}) = 1
  <2> DEFINE S == {i \in DOMAIN order : order[i] = [key |-> k, seq |-> entries[k].seq]}
  <2>1. PICK i \in DOMAIN order : order[i] = [key |-> k, seq |-> entries[k].seq]
      BY <1>1, <1>3 DEF SlotsHold, HasSlot
  <2>2. ASSUME NEW j \in S PROVE j = i
    <3>1. order[j] = order[i] /\ order[i].seq \in Nat /\ j \in DOMAIN order
        BY <1>1, <2>1, SlotAt
    <3>2. DOMAIN order = 1..Len(order)
        BY <1>1, LenProperties DEF Ascending
    <3>3. ~(order[i].seq < order[j].seq) /\ ~(order[j].seq < order[i].seq)
        BY <3>1
    <3>4. ~(i < j) /\ ~(j < i)
        BY <1>1, <3>1, <3>3 DEF Ascending
    <3>5. i \in Int /\ j \in Int
        BY <3>1, <3>2
    <3> QED
        BY <3>4, <3>5
  <2>3. S = {i}
      BY <2>1, <2>2
  <2> HIDE DEF S
  <2>4. Cardinality(S) = 1
      BY <2>3, FS_Singleton
  <2> QED
      BY <2>4 DEF S
<1> QED
    BY <1>1, <1>2, <1>3 DEF PrefixEvictable, Ascending

-----------------------------------------------------------------------------
(* The composition: each behaviour exercises one part. *)

\* A step of the composition is a step of each part or leaves it alone.
LEMMA PartsMove ==
    ASSUME [FleetNext]_fleetVars
    PROVE /\ [WarmNext]_warmVars /\ [BookNext]_bookVars /\ [JobsNext]_jobVars
          /\ [ServiceNext]_serviceVars /\ [ScoreNext]_scoreVars /\ [RoutingNext]_routeVars
          /\ [PrefixNext]_prefixVars /\ UNCHANGED focus
BY DEF FleetNext, Only, fleetVars

\* While another part is exercised the placement has no candidates yet.
FleetInv == /\ WarmInv /\ BookInv /\ AllJobsInv /\ ServiceInv /\ RouteInv /\ PrefixInv
            /\ focus = "score" => ScoreInv

LEMMA FleetInitially == ASSUME FleetInit PROVE FleetInv
BY WarmInitially, BookInitially, AllJobsInitially, ServiceInitially, ScoreInitially,
   RoutingInitially, PrefixInitially DEF FleetInit, FleetInv

LEMMA FleetMoves == ASSUME FleetInv, [FleetNext]_fleetVars PROVE FleetInv'
BY PartsMove, WarmMoves, BookMoves, AllJobsMove, ServiceMoves, ScoreMoves, RoutingMoves,
   PrefixMoves DEF FleetInv

\* In every behaviour of the composition, for any models and sizes and any number
\* of loaders, what warmups reserve and load fits the node's memory, one pass
\* unloads per cooldown, and the books of models agree with their counters
\* (warmup.go, eviction.go, model_lru.go).
THEOREM LoadsStaySound == FleetSpec => []LoadsSound
<1>1. FleetInit => FleetInv
    BY FleetInitially
<1>2. FleetInv /\ [FleetNext]_fleetVars => FleetInv'
    BY FleetMoves
<1>3. FleetInv => LoadsSound
    BY WarmShown, BookShown DEF FleetInv, LoadsSound
<1> QED
    BY <1>1, <1>2, <1>3, PTL DEF FleetSpec

\* A pull's outcome is what the node did and a probe's key ends with the probe,
\* for any nodes, models and jobs (catalog.go, benchmark.go, probe_key.go).
THEOREM JobsStaySound == FleetSpec => []JobsSound
<1>1. FleetInit => FleetInv
    BY FleetInitially
<1>2. FleetInv /\ [FleetNext]_fleetVars => FleetInv'
    BY FleetMoves
<1>3. FleetInv => JobsSound
    BY AllJobsShown DEF FleetInv, JobsSound
<1> QED
    BY <1>1, <1>2, <1>3, PTL DEF FleetSpec

\* The agent keeps the pair the server pinned, and its registration a pair, through
\* any number of commands, failures and kills (service_cmd.go, tlscert.go).
THEOREM ServiceStaysWhole == FleetSpec => [](ServiceTypeOK /\ PinSurvives /\ UnitHasPair)
<1>1. FleetInit => FleetInv
    BY FleetInitially
<1>2. FleetInv /\ [FleetNext]_fleetVars => FleetInv'
    BY FleetMoves
<1>3. FleetInv => ServiceTypeOK /\ PinSurvives /\ UnitHasPair
    BY ServiceShown DEF FleetInv
<1> QED
    BY <1>1, <1>2, <1>3, PTL DEF FleetSpec

\* A request is placed on the best candidate the walk saw, replica roles follow the
\* declarations in either order of the nodes, and the prefix table can always be
\* evicted, for any fleet, declarations, candidates and histories (placement.go,
\* prefixlocality.go).
THEOREM RoutesStaySound == FleetSpec => []RoutesSound
<1>1. FleetInit => FleetInv
    BY FleetInitially
<1>2. FleetInv /\ [FleetNext]_fleetVars => FleetInv'
    BY FleetMoves
<1>3. FleetInv => RoutesSound
    BY ScoreShown, RoutingShown, PrefixShown DEF FleetInv, RoutesSound
<1> QED
    BY <1>1, <1>2, <1>3, PTL DEF FleetSpec

\* No step unloads a model that serves, reloads one an operator unloaded, sends a
\* request to a node that may not be scheduled, or reports a command of the agent's
\* service as done that is not (eviction.go, warmup.go, placement.go, service_cmd.go).
THEOREM StepsStaySafe == FleetSpec => FleetSteps
<1>1. FleetInit => FleetInv
    BY FleetInitially
<1>2. FleetInv /\ [FleetNext]_fleetVars => FleetInv'
    BY FleetMoves
<1>3. FleetInv /\ [FleetNext]_fleetVars =>
        /\ [\A l \in Loaders : loader[l].pc = "unload" /\ gpu' /= gpu /\ loader'[l] /= loader[l]
               => (loader[l].victim \in serving => loader[l].late)]_warmVars
        /\ [\A l \in Loaders : loader[l].pc = "wait" /\ loader'[l].pc = "look"
               => (loader[l].model \in suppressed => loader[l].late)]_warmVars
        /\ [told' = "ok" /\ told # "ok" => Succeeded]_serviceVars
        /\ [\A r \in Requests : Placed(r)]_routeVars
    BY PartsMove, WarmStepsSafe, ServiceStepsSafe, RouteStepsSafe DEF FleetInv
<1>4. ToldIsDone <=> [][told' = "ok" /\ told # "ok" => Succeeded]_serviceVars
    BY PTL DEF ToldIsDone, Succeeded
<1>5. ServedBySchedulable <=> [][\A r \in Requests : Placed(r)]_routeVars
    BY PTL DEF ServedBySchedulable, Placed
<1> QED
    BY <1>1, <1>2, <1>3, <1>4, <1>5, PTL DEF FleetSpec, FleetSteps, ServingKept,
       SuppressedStaysCold
==============================================================================
