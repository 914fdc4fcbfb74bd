------------------------------ MODULE WarmLoads ------------------------------
(***************************************************************************)
(* Loading models ahead of demand on one node (internal/router/warmer.go,  *)
(* eviction.go, predictive.go, scheduler.go).  The keep-warm pinger, the   *)
(* scheduled warmup and the predictive engine each load one model at a     *)
(* time: makeHeadroom reserves the model's bytes, evicts what it must and  *)
(* the ping makes the runtime load it.  The router knows what is resident  *)
(* only from the last poll, so the reservations stand in for the loads no  *)
(* poll has shown yet.  Sizes are in units that already contain            *)
(* FragmentationOverheadMult; the reply of the node to a ping or an unload *)
(* is a choice.  The load a routed request makes the runtime do by itself  *)
(* is outside the model, the reservation routing makes for it is not.      *)
(***************************************************************************)
EXTENDS Naturals, FiniteSets, FiniteSetsExt

CONSTANTS
    WarmModels,     \* models of the node
    SizeOf,         \* model -> estimateModelSizeBytes
    GuardBytes,     \* unknownModelReserveBytes, for a size not yet known
    VRAMTotal,      \* NodeState.VRAMTotalMB
    Pinger,         \* the keep-warm cycle of this node, one at a time (tryStartWarmup)
    Others,         \* scheduled warmups and predictive prewarms of this node
    PinnedModels,   \* isPinned
    HighRanked,     \* the model the keep-warm list names first
    SessionModels,  \* affinityProtectedModels
    NoModel

ASSUME WarmAssumption ==
    /\ IsFiniteSet(WarmModels)
    /\ SizeOf \in [WarmModels -> Nat \ {0}]
    /\ GuardBytes \in Nat \ {0}
    /\ VRAMTotal \in Nat
    /\ PinnedModels \cup SessionModels \cup {HighRanked} \subseteq WarmModels
    /\ NoModel \notin WarmModels
    /\ Pinger \notin Others

VARIABLES
    gpu,         \* what the runtime really holds
    polled,      \* NodeState.LoadedModels
    reserved,    \* Router.warmReserved: model -> bytes, 0 for no entry
    serving,     \* the models of NodeState.modelInFlight
    suppressed,  \* Router.warmupSuppressed
    loader,      \* loader -> its locals
    nodeLock,    \* holders of nodeLoadLocks[node].mu
    cooling,     \* lastEvictAt is less than evictCooldown ago
    latestClaim, \* Router.evictClaimID of the node while its pass runs, named by the
                 \* loader that took it
    rushes,      \* history: passes that unloaded since the cooldown was last clear
    disturbed    \* history: the reservation of a load was dropped before a poll showed
                 \* the model, or a loader missed both

warmVars == <<gpu, polled, reserved, serving, suppressed, loader, nodeLock,
              cooling, latestClaim, rushes, disturbed>>

Loaders == {Pinger} \cup Others

Bytes(S) == MapThenSumSet(LAMBDA m : SizeOf[m], S)
Idle == [pc |-> "idle", model |-> NoModel, seen |-> {}, busy |-> {},
         need |-> 0, victim |-> NoModel, evicted |-> 0, timely |-> FALSE, late |-> FALSE]
Pinging(l) == [Idle EXCEPT !.pc = "ping", !.model = loader[l].model]

\* The models some load has in hand, or that are resident and no poll has shown.
Loading == {loader[l].model : l \in {k \in Loaders : loader[k].pc = "ping"}}
Exposed == \E m \in Loading \cup (gpu \ polled) : m \notin polled \cap gpu /\ reserved[m] < SizeOf[m]

\* A poll replaces a reservation while a loader is between the two.
Missed == \E l \in Loaders : loader[l].pc = "reserve" /\ ~(polled' \subseteq loader[l].seen \cup polled)

WarmInit ==
    /\ gpu \in {S \in SUBSET WarmModels : Bytes(S) <= VRAMTotal}
    /\ polled = gpu
    /\ reserved = [m \in WarmModels |-> 0]
    /\ serving = {}
    /\ suppressed = {}
    /\ loader = [l \in Loaders |-> Idle]
    /\ nodeLock = {}
    /\ cooling = FALSE
    /\ latestClaim = NoModel
    /\ rushes = 0
    /\ disturbed = FALSE

-----------------------------------------------------------------------------
(* Who starts a load. *)

Begin(l, m) ==
    loader' = [loader EXCEPT ![l] = [Idle EXCEPT !.pc = "wait", !.model = m]]

\* pingWarmupModels: a suppressed model is skipped.  Only the models of its list are
\* ranked, HighRanked first.
PingWarmup(m) ==
    /\ loader[Pinger].pc = "idle"
    /\ m \notin suppressed
    /\ Begin(Pinger, m)
    /\ UNCHANGED <<gpu, polled, reserved, serving, suppressed, nodeLock, cooling,
                   latestClaim, rushes>>

\* WarmModels: a scheduled warmup lifts the suppression of what it names.
ScheduledWarmup(l, m) ==
    /\ loader[l].pc = "idle"
    /\ suppressed' = suppressed \ {m}
    /\ Begin(l, m)
    /\ UNCHANGED <<gpu, polled, reserved, serving, nodeLock, cooling, latestClaim,
                   rushes>>

\* The predictive engine leaves alone what is warm, suppressed or reserved, and
\* what does not fit in the free bytes of the last poll.
Predict(l, m) ==
    /\ loader[l].pc = "idle"
    /\ m \notin polled \cup suppressed
    /\ reserved[m] = 0
    /\ Bytes(polled) + SizeOf[m] <= VRAMTotal
    /\ Begin(l, m)
    /\ UNCHANGED <<gpu, polled, reserved, serving, suppressed, nodeLock, cooling,
                   latestClaim, rushes>>

-----------------------------------------------------------------------------
(* loadWithHeadroom, under the load lock of the node. *)

LockNodeLoad(l) ==
    /\ loader[l].pc = "wait"
    /\ nodeLock = {}
    /\ nodeLock' = {l}
    /\ loader' = [loader EXCEPT ![l] = [@ EXCEPT !.pc = "look", !.late = FALSE]]
    /\ UNCHANGED <<gpu, polled, reserved, serving, suppressed, cooling, latestClaim,
                   rushes>>

\* The end of a load: the lock is released, and an error clears the reservation.
Done(l) ==
    /\ loader' = [loader EXCEPT ![l] = Idle]
    /\ nodeLock' = nodeLock \ {l}
Fail(l) ==
    /\ Done(l)
    /\ reserved' = [reserved EXCEPT ![loader[l].model] = 0]

\* makeHeadroom reads LoadedModels: a resident model only needs the ping, one
\* larger than the node is given up.
LookAtNode(l) ==
    /\ loader[l].pc = "look"
    /\ LET m == loader[l].model IN
       \/ /\ m \in polled
          /\ reserved' = [reserved EXCEPT ![m] = 0]
          /\ loader' = [loader EXCEPT ![l].pc = "ping"]
          /\ UNCHANGED nodeLock
       \/ /\ m \notin polled
          /\ SizeOf[m] > VRAMTotal
          /\ Fail(l)
       \/ /\ m \notin polled
          /\ SizeOf[m] <= VRAMTotal
          /\ loader' = [loader EXCEPT ![l] = [@ EXCEPT !.pc = "reserve", !.seen = polled]]
          /\ UNCHANGED <<reserved, nodeLock>>
    /\ UNCHANGED <<gpu, polled, serving, suppressed, cooling, latestClaim, rushes>>

ReservedFor(S) == MapThenSumSet(LAMBDA m : reserved[m], S)

\* reserveWarmBytes and the two tests that follow it.
ReserveOf(l, others) ==
    LET m == loader[l].model IN
    /\ loader[l].pc = "reserve"
    /\ \/ /\ SizeOf[m] + others > VRAMTotal
          /\ Fail(l)
       \/ /\ SizeOf[m] + others <= VRAMTotal
          /\ reserved' = [reserved EXCEPT ![m] = SizeOf[m]]
          /\ loader' = [loader EXCEPT
                ![l] = IF Bytes(@.seen) + others + SizeOf[m] <= VRAMTotal
                       THEN Pinging(l)
                       ELSE [@ EXCEPT !.pc = "claim", !.need = SizeOf[m] + others]]
          /\ UNCHANGED nodeLock
    /\ UNCHANGED <<gpu, polled, serving, suppressed, cooling, latestClaim, rushes>>

ReserveAlone(l) == ReserveOf(l, 0)
ReserveWarmBytes(l) == ReserveOf(l, ReservedFor(WarmModels \ {loader[l].model}))

\* claimEvictCooldown, and the snapshot evictForHeadroom takes when it has it.
ClaimEvictCooldown(l) ==
    /\ loader[l].pc = "claim"
    /\ \/ /\ cooling
          /\ Fail(l)
          /\ UNCHANGED <<cooling, latestClaim>>
       \/ /\ ~cooling
          /\ cooling' = TRUE
          /\ latestClaim' = l
          /\ loader' = [loader EXCEPT ![l] = [@ EXCEPT !.pc = "pick", !.seen = polled,
                                                    !.busy = serving, !.timely = TRUE]]
          /\ UNCHANGED <<reserved, nodeLock>>
    /\ UNCHANGED <<gpu, polled, serving, suppressed, rushes>>

Enough(l) == Bytes(loader[l].seen) + loader[l].need <= VRAMTotal

\* Victims: not pinned, not ranked above the model to load, not serving; one of a
\* live session only when there is no other.
Evictable(l) ==
    {v \in loader[l].seen \ (PinnedModels \cup loader[l].busy) :
        ~(l = Pinger /\ v = HighRanked)}
Victims(l) ==
    IF Evictable(l) \subseteq SessionModels THEN Evictable(l)
    ELSE Evictable(l) \ SessionModels

\* A victim is chosen from the snapshot and its in-flight count read again; the
\* least recently used one is chosen in the code, any one here.
PickUnchecked(l, v) ==
    /\ loader[l].pc = "pick"
    /\ ~Enough(l)
    /\ v \in Victims(l)
    /\ loader' = [loader EXCEPT ![l] = [@ EXCEPT !.pc = "unload", !.victim = v]]
    /\ UNCHANGED <<gpu, polled, reserved, serving, suppressed, nodeLock, cooling,
                   latestClaim, rushes>>

PickVictim(l, v) ==
    /\ loader[l].pc = "pick"
    /\ ~Enough(l)
    /\ v \in Victims(l)
    /\ \/ /\ v \in serving
          /\ loader' = [loader EXCEPT ![l].busy = @ \cup {v}]
       \/ /\ v \notin serving
          /\ loader' = [loader EXCEPT ![l] = [@ EXCEPT !.pc = "unload", !.victim = v]]
    /\ UNCHANGED <<gpu, polled, reserved, serving, suppressed, nodeLock, cooling,
                   latestClaim, rushes>>

\* unloadModel: the runtime drops the model, or the call fails, which ends the pass.
Unload(l) ==
    /\ loader[l].pc = "unload"
    /\ \/ /\ gpu' = gpu \ {loader[l].victim}
          /\ loader' = [loader EXCEPT ![l] = [@ EXCEPT
                            !.pc = "pick", !.seen = loader[l].seen \ {loader[l].victim},
                            !.victim = NoModel, !.evicted = 1, !.late = FALSE]]
          /\ rushes' = rushes + (IF loader[l].evicted = 0 /\ loader[l].timely THEN 1 ELSE 0)
       \/ /\ loader' = [loader EXCEPT ![l] = [@ EXCEPT !.pc = "settle", !.victim = NoModel,
                                                    !.late = FALSE]]
          /\ UNCHANGED <<gpu, rushes>>
    /\ UNCHANGED <<polled, reserved, serving, suppressed, nodeLock, cooling, latestClaim>>

\* releaseEvictClaim undoes the claim of the pass, when no newer one has replaced it.
ReleaseEvictClaim(l) ==
    cooling' = (cooling /\ latestClaim /= l)

\* The end of the pass: enough room, nothing left to evict, or a failed unload.  A
\* pass that unloaded nothing gives its claim back.
SettleAs(l, keep) ==
    /\ \/ loader[l].pc = "settle"
       \/ loader[l].pc = "pick" /\ (Enough(l) \/ Victims(l) = {})
    /\ IF Enough(l)
       THEN /\ loader' = [loader EXCEPT ![l] = Pinging(l)]
            /\ UNCHANGED <<reserved, nodeLock>>
       ELSE Fail(l)
    /\ IF keep THEN UNCHANGED cooling ELSE ReleaseEvictClaim(l)
    /\ latestClaim' = NoModel
    /\ UNCHANGED <<gpu, polled, serving, suppressed, rushes>>

SettlePass(l) == SettleAs(l, loader[l].evicted > 0)

\* pingNode: the runtime loads the model and the reservation stays until a poll
\* shows it, or the ping fails and the caller clears it.
PingNode(l) ==
    /\ loader[l].pc = "ping"
    /\ \/ /\ gpu' = gpu \cup {loader[l].model}
          /\ Done(l)
          /\ UNCHANGED reserved
       \/ /\ Fail(l)
          /\ UNCHANGED gpu
    /\ UNCHANGED <<polled, serving, suppressed, cooling, latestClaim, rushes>>

-----------------------------------------------------------------------------
(* What else happens on the node. *)

\* pollNode: the answer of /api/ps becomes LoadedModels, and what it shows needs
\* its reservation no more.
PollAs(cleared) ==
    /\ polled' = gpu
    /\ reserved' = [m \in WarmModels |-> IF m \in cleared THEN 0 ELSE reserved[m]]
    /\ UNCHANGED <<gpu, serving, suppressed, loader, nodeLock, cooling, latestClaim, rushes>>

PollNode == PollAs(gpu)

\* A request begins and ends on a model the node holds.
StartServing(m) ==
    /\ m \in gpu
    /\ serving = {}
    /\ serving' = serving \cup {m}
    /\ loader' = [l \in Loaders |->
          [loader[l] EXCEPT !.late = @ \/ (loader[l].pc = "unload" /\ loader[l].victim = m)]]
    /\ UNCHANGED <<gpu, polled, reserved, suppressed, nodeLock, cooling,
                   latestClaim, rushes>>

StopServing(m) ==
    /\ m \in serving
    /\ serving' = serving \ {m}
    /\ UNCHANGED <<gpu, polled, reserved, suppressed, loader, nodeLock, cooling,
                   latestClaim, rushes>>

\* Loaders that have asked and still wait for the lock have asked before the unload.
LateUnload(m) ==
    loader' = [l \in Loaders |->
        [loader[l] EXCEPT !.late = @ \/ (loader[l].pc = "wait" /\ loader[l].model = m)]]

\* unloadModel for an operator or a schedule, with recordUnloadSideEffects; an agent
\* dispatch records the same.
ManualUnload(m) ==
    /\ m \in polled
    /\ gpu' = gpu \ {m}
    /\ suppressed' = suppressed \cup {m}
    /\ LateUnload(m)
    /\ UNCHANGED <<polled, reserved, serving, nodeLock, cooling, latestClaim,
                   rushes>>

\* findBestByScore holds a provisional reservation on the leading candidate: of the
\* model's size, or of the guard when the size is not known without I/O.
RouteReserves(m) ==
    /\ m \notin polled
    /\ \E bytes \in {SizeOf[m], GuardBytes} :
         reserved' = [reserved EXCEPT ![m] = bytes]
    /\ UNCHANGED <<gpu, polled, serving, suppressed, loader, nodeLock, cooling,
                   latestClaim, rushes>>

\* A later candidate scores higher, or the reservation outlives warmReservationTTL:
\* in both cases the entry of (node, model) goes, whoever made it.
DropReservation(m) ==
    /\ reserved[m] > 0
    /\ reserved' = [reserved EXCEPT ![m] = 0]
    /\ UNCHANGED <<gpu, polled, serving, suppressed, loader, nodeLock, cooling,
                   latestClaim, rushes>>

\* evictCooldown after the last claim.
CooldownPasses ==
    /\ cooling
    /\ cooling' = FALSE
    /\ rushes' = 0
    /\ loader' = [l \in Loaders |-> [loader[l] EXCEPT !.timely = FALSE]]
    /\ UNCHANGED <<gpu, polled, reserved, serving, suppressed, nodeLock, latestClaim>>

\* The history of the reservations.
Watch == disturbed' = (disturbed \/ Missed \/ Exposed')

LoadStep(l) ==
    \/ LockNodeLoad(l)
    \/ LookAtNode(l)
    \/ ReserveWarmBytes(l)
    \/ ClaimEvictCooldown(l)
    \/ \E v \in WarmModels : PickVictim(l, v)
    \/ Unload(l)
    \/ SettlePass(l)
    \/ PingNode(l)

WarmNext ==
    /\ \/ \E l \in Loaders : LoadStep(l)
       \/ \E l \in Others, m \in WarmModels : ScheduledWarmup(l, m) \/ Predict(l, m)
       \/ PollNode
       \/ \E m \in WarmModels :
            \/ PingWarmup(m)
            \/ StartServing(m)
            \/ StopServing(m)
            \/ ManualUnload(m)
            \/ RouteReserves(m)
            \/ DropReservation(m)
       \/ CooldownPasses
    /\ Watch

WarmFairness == \A l \in Loaders : WF_warmVars(LoadStep(l) /\ Watch)

WarmSpec == WarmInit /\ [][WarmNext]_warmVars /\ WarmFairness

-----------------------------------------------------------------------------
(* Properties. *)

WarmTypeOK ==
    /\ gpu \subseteq WarmModels /\ polled \subseteq WarmModels
    /\ reserved \in [WarmModels -> Nat]
    /\ serving \subseteq WarmModels /\ suppressed \subseteq WarmModels
    /\ \A l \in Loaders :
         /\ loader[l].pc \in {"idle", "wait", "look", "reserve", "claim", "pick", "unload",
                              "settle", "ping"}
         /\ loader[l].model \in WarmModels \cup {NoModel}
         /\ loader[l].seen \cup loader[l].busy \subseteq WarmModels
    /\ nodeLock \subseteq Loaders
    /\ cooling \in BOOLEAN /\ disturbed \in BOOLEAN

\* What the comments of warmer.go promise of makeHeadroom: the models the router
\* has made the node load fit on it together.
LoadsFit == Bytes(gpu \cup Loading) <= VRAMTotal

\* It holds as long as each load keeps its reservation until a poll shows the model,
\* and no load trusts a poll that is older than an eviction.
ReservedLoadsFit == disturbed \/ LoadsFit

\* Thrash guard: of the passes that claim the cooldown before it has run out, one
\* unloads models.
OnePassPerCooldown == rushes <= 1

\* evictForHeadroom unloads a serving model only when its request began after the
\* live in-flight count was read.
ServingKept ==
    [][\A l \in Loaders : loader[l].pc = "unload" /\ gpu' /= gpu /\ loader'[l] /= loader[l]
         => (loader[l].victim \in serving => loader[l].late)]_warmVars

\* Nobody loads a model an operator has unloaded, but a load that had asked before
\* the unload and waited for the lock.
SuppressedStaysCold ==
    [][\A l \in Loaders : loader[l].pc = "wait" /\ loader'[l].pc = "look"
         => (loader[l].model \in suppressed => loader[l].late)]_warmVars

=============================================================================
