----------------------------- MODULE NodeScore -----------------------------
(***************************************************************************)
(* How the router picks among the nodes that passed its filters            *)
(* (internal/router/placement.go): scoreComponents adds the weighted terms *)
(* of a node, and findBestByScore walks the candidates with the best one   *)
(* so far, holding a cold-start reservation on it while it leads.          *)
(*                                                                         *)
(* A score is kept in quarters of a point, so that 15 / (1 + load) is a    *)
(* whole number for every load in Loads.  Raw values that are averages in  *)
(* the code (health, success) are worst or best here.  Nodes are numbered  *)
(* in the alphabetical order of their names.                               *)
(***************************************************************************)
EXTENDS Integers, FiniteSets

CONSTANTS Candidates,     \* the numbers of the candidate nodes
          Loads,          \* the effective loads (connections weighted by TTFT)
          Start(_),       \* which attributes a walk may start from
          PrefixWeight,   \* routing.prefix_locality_weight, in quarters of a point
          MaxOutcomes     \* requests of others that finish during one walk

ASSUME NodeScoreAssumption ==
    /\ Candidates \subseteq Nat \ {0} /\ Candidates # {} /\ IsFiniteSet(Candidates)
    /\ Loads \subseteq {0, 1, 3, 4, 9, 11, 14, 19, 29, 59}
    /\ PrefixWeight \in Nat /\ MaxOutcomes \in Nat

Attributes == [warm : BOOLEAN, static : BOOLEAN, free : 0 .. 1, load : Loads,
               health : 0 .. 1, success : 0 .. 1, cooling : BOOLEAN, stale : BOOLEAN]
NoNode == 0

VARIABLES node,       \* what scoreComponents reads of each candidate
          prefixOn,   \* prefixLocalityEnabled
          preferred,  \* the node the request's history rolls forward from, or NoNode
          left,       \* the candidates the walk has still to score
          scored,     \* the score the walk read for each node
          best,       \* bestNode
          booked,   \* the nodes with a cold-start reservation for the model
          outcomes
scoreVars == <<node, prefixOn, preferred, left, scored, best, booked, outcomes>>

\* staticVRAMReservation: a vLLM node has no free-VRAM reading worth scoring, and
\* is not penalised twice.
ScoreInit ==
    /\ node \in [Candidates -> {a \in Attributes : Start(a) /\ (a.static => a.free = 0)}]
    /\ prefixOn \in BOOLEAN
    /\ preferred \in Candidates \cup {NoNode}
    /\ left = Candidates
    /\ scored = [n \in Candidates |-> -1]
    /\ best = NoNode
    /\ booked = {}
    /\ outcomes = 0

Floored(x) == IF x < 0 THEN 0 ELSE x
InverseQueue(n) == (4 * 15) \div (1 + node[n].load)

\* scoreComponents and computeNodeScore, the two penalties floored one by one.
Score(n) ==
    LET a == node[n]
        on(b, points) == IF b THEN 4 * points ELSE 0
        base == on(a.warm, 50)
                + (IF a.static THEN (4 * 20) \div (1 + a.load) ELSE 80 * a.free)
                + InverseQueue(n) + 40 * a.health + 20 * a.success
                + (IF prefixOn /\ preferred = n THEN PrefixWeight ELSE 0)
        cooled == IF a.cooling THEN Floored(base - 200) ELSE base IN
    IF a.stale THEN Floored(cooled - 200) ELSE cooled

\* One iteration of findBestByScore, over the candidates in any order: a better
\* score, or the same one and an earlier name, takes the lead, and the
\* reservation with it when the model is cold there.
FindBestByScore(n) ==
    /\ n \in left /\ left' = left \ {n}
    /\ scored' = [scored EXCEPT ![n] = Score(n)]
    /\ LET leads == \/ best = NoNode
                    \/ Score(n) > scored[best]
                    \/ Score(n) = scored[best] /\ n < best IN
       /\ best' = IF leads THEN n ELSE best
       /\ booked' = IF ~leads THEN booked ELSE IF node[n].warm THEN {} ELSE {n}
    /\ UNCHANGED <<node, prefixOn, preferred, outcomes>>

\* RecordRequestOutcome and RecordTTFT of another request: a failure starts the
\* cooldown, a success changes the load alone.
RecordRequestOutcome(n, ok) ==
    /\ outcomes < MaxOutcomes /\ left # {} /\ outcomes' = outcomes + 1
    /\ \E l \in Loads :
         node' = [node EXCEPT ![n] = [node[n] EXCEPT
                    !.load = l, !.success = IF ok THEN @ ELSE 0, !.cooling = @ \/ ~ok]]
    /\ UNCHANGED <<prefixOn, preferred, left, scored, best, booked>>

ScoreNext == \/ \E n \in Candidates : FindBestByScore(n)
             \/ \E n \in Candidates, ok \in BOOLEAN : RecordRequestOutcome(n, ok)
ScoreSpec == ScoreInit /\ [][ScoreNext]_scoreVars

-----------------------------------------------------------------------------
ScoreTypeOK ==
    /\ node \in [Candidates -> Attributes] /\ prefixOn \in BOOLEAN
    /\ preferred \in Candidates \cup {NoNode} /\ left \subseteq Candidates
    /\ scored \in [Candidates -> Nat \cup {-1}] /\ best \in Candidates \cup {NoNode}
    /\ booked \subseteq Candidates /\ outcomes \in 0 .. MaxOutcomes

\* Whatever order the nodes are walked in and whatever changes meanwhile, the walk
\* ends on the candidate with the best score it read, the first by name among equals,
\* and leaves a reservation on that node alone, and only when the model was cold there.
PlacedOnBest ==
    left = {} =>
        /\ \A n \in Candidates : /\ scored[n] <= scored[best]
                                 /\ scored[n] = scored[best] => best <= n
        /\ booked \subseteq {best}
        /\ node[best].warm <=> booked = {}

Penalised(n) == node[n].cooling \/ node[n].stale

\* With prefix locality off, a request never goes to a node where the model is cold
\* while a candidate that is warm and carries no penalty is there: 50 points and the
\* inverse queue depth, never zero, outweigh everything else a node can earn.
WarmBeatsCold ==
    left = {} /\ ~prefixOn /\ outcomes = 0 /\ (\E n \in Candidates : node[n].warm /\ ~Penalised(n))
        => node[best].warm

\* "so it can never flip a warm-vs-cold or real-load-vs-idle decision": a hint never
\* moves a request to a busy node while an idle one is as good in everything else.
LocalityNeverFlipsLoad ==
    left = {} /\ outcomes = 0 =>
        ~\E idle \in Candidates :
             /\ node[idle].load = 0 /\ node[best].load > 0
             /\ node[idle] = [node[best] EXCEPT !.load = 0]
=============================================================================
