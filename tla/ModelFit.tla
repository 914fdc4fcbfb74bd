------------------------------- MODULE ModelFit -------------------------------
(***************************************************************************)
(* The model advisor and the gates of a pull.  handleModelCatalog,         *)
(* handleModelRepo and handleModelFit judge whether a model fits a node's  *)
(* VRAM and disk and recommend a quantization and a context length;        *)
(* handleNodePull later decides by itself whether the download may start.  *)
(* The two are computed from the same node telemetry by different code.    *)
(*                                                                         *)
(* The state is one node's telemetry as the polls write it; the handlers   *)
(* only read it, so what they answer is operators over it.  Sizes are      *)
(* small numbers of one unit (the code converts MiB, GiB and decimal GB    *)
(* into bytes before each comparison); the factors are exact fractions.    *)
(***************************************************************************)
EXTENDS Integers, Sequences, FiniteSets, SequencesExt

CONSTANTS
    FitRuntimes,    \* declared runtimes of the node ("" = not declared)
    GPUSizes,       \* memory of a GPU, 0 = not reported
    DiskFrees,      \* free disk
    DiskTotals,     \* disk size, 0 = never reported
    FileSizes,      \* download sizes of models
    Contexts,       \* context lengths asked for and declared
    PerTokens       \* KV cache bytes of one token, 0 = facts unknown

ASSUME ModelFitAssumption ==
    /\ 0 \in DiskFrees \cap DiskTotals
    /\ GPUSizes \subseteq Nat /\ DiskFrees \subseteq Nat
    /\ DiskTotals \subseteq Nat /\ FileSizes \subseteq Nat
    /\ Contexts \subseteq Nat \ {0} /\ PerTokens \subseteq Nat

VARIABLE telemetry   \* NodeState of the node, and the VRAM its models use

Telemetry == [runtime : FitRuntimes, gpus : SeqOf(GPUSizes, 2),
              declared : SUBSET {1, 2}, source : {"agent", "declared", "unknown"},
              agent : BOOLEAN, free : DiskFrees, total : DiskTotals]

FitInit == telemetry \in Telemetry

\* pollAgent: a new reading replaces the free disk space.
DiskReading ==
    /\ telemetry.agent
    /\ \E f \in DiskFrees : telemetry' = [telemetry EXCEPT !.free = f]

\* The agent is gone: clearLiveReadings forgets the disk.
AgentGone ==
    /\ telemetry.agent
    /\ telemetry' = [telemetry EXCEPT !.agent = FALSE, !.free = 0, !.total = 0]

FitNext == DiskReading \/ AgentGone
FitSpec == FitInit /\ [][FitNext]_telemetry

----------------------------------------------------------------------------
(* VRAM.                                                                   *)

GGUFOnlyRuntime(rt) == rt \in {"", "ollama", "llamacpp"}

SumOf(s) == FoldSeq(+, 0, s)
Largest(s) == FoldSeq(LAMBDA a, b : IF a > b THEN a ELSE b, 0, s)

\* VRAMTotalMB: the agent's reading sums its GPUs.
VRAMTotal(t) == SumOf(t.gpus)

\* scopeGPUsToDeclared: the GPUs the operator assigned to the runtime; a
\* declaration that names none of the agent's GPUs is not applied.
DeclaredGPUs(t) == {i \in DOMAIN t.gpus : i \in t.declared}
ScopeApplied(t) == DeclaredGPUs(t) # {}
ScopedGPUs(t) ==
    IF ScopeApplied(t)
    THEN LET idx == SetToSortSeq(DeclaredGPUs(t), <)
         IN [i \in DOMAIN idx |-> t.gpus[idx[i]]]
    ELSE t.gpus

\* nodeVRAMCapacity: several GPUs count together only for a runtime that
\* splits a model or when they were declared; otherwise the largest counts.
NodeVRAMCapacity(t) ==
    LET g == ScopedGPUs(t) IN
    CASE Len(g) < 2 -> IF ScopeApplied(t) THEN g[1] ELSE VRAMTotal(t)
      [] Len(g) >= 2 /\ (ScopeApplied(t) \/ GGUFOnlyRuntime(t.runtime)) ->
             SumOf(g)
      [] OTHER -> IF Largest(g) > 0 THEN Largest(g) ELSE VRAMTotal(t)

\* The VRAM source the three handlers answer with: unknown without a
\* capacity ("inferred" from loaded models counts the same).
VRAMSource(t) == IF NodeVRAMCapacity(t) > 0 THEN t.source ELSE "unknown"

\* classifyFit and the same bands in handleModelFit.
ClassifyFit(est, t) ==
    CASE VRAMSource(t) = "unknown" -> "unknown"
      [] VRAMSource(t) # "unknown" /\ 100 * est <= 85 * NodeVRAMCapacity(t) ->
             "green"
      [] VRAMSource(t) # "unknown" /\ 100 * est > 85 * NodeVRAMCapacity(t)
           /\ est <= NodeVRAMCapacity(t) -> "yellow"
      [] OTHER -> "red"

----------------------------------------------------------------------------
(* Context length.                                                         *)

\* runtimeOverheadConstants: 1.10 for GGUF, 1.20 for safetensors weights.
WeightBytes(size, rt) ==
    (size * (IF GGUFOnlyRuntime(rt) THEN 11 ELSE 12)) \div 10

\* EstimateContextAwareBytes and the estimate of computeContextFeasibility:
\* with architecture facts the KV cache, else a per-token allowance (0.15,
\* 0.20 of a unit).
Estimate(size, ctx, perToken, rt) ==
    IF perToken > 0 THEN WeightBytes(size, rt) + perToken * ctx
    ELSE (size * (IF GGUFOnlyRuntime(rt) THEN 110 ELSE 120)
          + ctx * (IF GGUFOnlyRuntime(rt) THEN 15 ELSE 20)) \div 100

NoContext == 0

\* computeContextFeasibility: the longest context that stays green, no
\* longer than asked for and than the model declares.
RecommendedCtx(size, ctx, perToken, maxCtx, t) ==
    LET w == WeightBytes(size, t.runtime)
        cap85 == (85 * NodeVRAMCapacity(t)) \div 100
        best == (cap85 - w) \div perToken
        fit == ClassifyFit(Estimate(size, ctx, perToken, t.runtime), t)
        least(a, b) == IF a < b THEN a ELSE b
    IN IF perToken = 0 \/ fit \in {"green", "unknown"} \/ cap85 <= w
       THEN NoContext ELSE least(least(best, ctx), maxCtx)

----------------------------------------------------------------------------
(* Disk.                                                                   *)

DiskTelemetryUnknown(t) == ~t.agent \/ t.total = 0

ClassifyDiskFit(size, t) ==
    CASE DiskTelemetryUnknown(t) -> "unknown"
      [] ~DiskTelemetryUnknown(t) /\ size > t.free -> "insufficient"
      [] OTHER -> "ok"

\* unknownSizeMinFreeGB and unknownSizeMinFreeFraction.
ClassifyUnknownSizeDiskFit(t) ==
    CASE DiskTelemetryUnknown(t) -> "unknown"
      [] ~DiskTelemetryUnknown(t) /\ (t.free < 5 \/ 10 * t.free < t.total) ->
             "insufficient"
      [] OTHER -> "ok"

\* hfUnknownSizeDiskFit: free space can rule out, never confirm.
HFUnknownSizeDiskFit(t) ==
    IF ClassifyUnknownSizeDiskFit(t) = "ok" THEN "unknown"
    ELSE ClassifyUnknownSizeDiskFit(t)

----------------------------------------------------------------------------
(* What the advisor offers.  A tag is [format, size]: an Ollama library    *)
(* tag, a GGUF reference or a Hugging Face repository.                     *)

\* classifyPullTagFormat and pullFormatIncompatible.
PullFormatIncompatible(format, rt) ==
    CASE format = "ollama-library" -> rt \notin {"", "ollama"}
      [] format = "gguf-hf" -> ~GGUFOnlyRuntime(rt)
      [] OTHER -> FALSE

\* catalogHFVariant: on vLLM and TGI a mapped model is offered as its
\* Hugging Face repository.
OfferedFormat(rt) ==
    IF rt \in {"vllm", "tgi"} THEN "hf-repo" ELSE "ollama-library"

\* One variant of a catalog model with its verdicts on the node; the second
\* argument says whether it is the catalog's own recommendation.
CatalogRow(size, rec, t) ==
    LET f == OfferedFormat(t.runtime)
        est == IF f = "hf-repo" THEN Estimate(size, 8, 0, t.runtime) ELSE size
    IN [format |-> f, size |-> size, est |-> est, recommended |-> rec,
        fit |-> IF PullFormatIncompatible(f, t.runtime) THEN "incompatible"
                ELSE IF f = "hf-repo" /\ size = 0 THEN "unknown"
                ELSE ClassifyFit(est, t),
        disk |-> IF f = "hf-repo" /\ size = 0 THEN HFUnknownSizeDiskFit(t)
                 ELSE ClassifyDiskFit(size, t)]

\* The variants of one catalog model: the first one is the recommended one.
CatalogRows(sizes, t) ==
    [i \in DOMAIN sizes |-> CatalogRow(sizes[i], i = 1, t)]

\* quantCandidate.usable that leaves out the disk.
UsableByVRAM(c) == c.fit \in {"green", "yellow"} /\ c.est > 0

Usable(c) ==
    c.fit \in {"green", "yellow"} /\ c.disk # "insufficient" /\ c.est > 0

\* pickBy: the catalog's own recommendation, else the largest estimate.
PickBy(cands, fit) ==
    LET ok == {i \in DOMAIN cands : Usable(cands[i]) /\ cands[i].fit = fit}
        rec == {i \in ok : cands[i].recommended}
        best(S) == CHOOSE i \in S : \A k \in S :
                      \/ cands[i].est > cands[k].est
                      \/ cands[i].est = cands[k].est /\ i <= k
    IN IF rec # {} THEN {best(rec)} ELSE IF ok # {} THEN {best(ok)} ELSE {}

\* diskBlocksAll and noPick: the reason when nothing is picked.
DiskBlocksAll(cands) ==
    LET fits == {i \in DOMAIN cands : UsableByVRAM(cands[i])}
    IN fits # {} /\ \A i \in fits : cands[i].disk = "insufficient"

NoPick(cands) ==
    CASE \A i \in DOMAIN cands : cands[i].fit = "incompatible" ->
             "incompatible_runtime"
      [] (\E i \in DOMAIN cands : cands[i].fit # "incompatible")
           /\ DiskBlocksAll(cands) -> "disk_insufficient"
      [] (\E i \in DOMAIN cands : cands[i].fit = "red")
           /\ ~DiskBlocksAll(cands) -> "too_large"
      [] OTHER -> "vram_unknown"

\* recommendQuant: green before yellow; the indices picked, at most one.
RecommendQuant(cands) ==
    IF PickBy(cands, "green") # {} THEN PickBy(cands, "green")
    ELSE PickBy(cands, "yellow")

----------------------------------------------------------------------------
(* The gate of handleNodePull.                                             *)

\* findCatalogVariantSizeMB knows the Ollama library tags of the catalog.
FindCatalogVariantSize(format) == format = "ollama-library"

DiskGate(format, size, t) ==
    IF FindCatalogVariantSize(format)
    THEN ClassifyDiskFit(size, t) # "insufficient"
    ELSE ClassifyUnknownSizeDiskFit(t) # "insufficient"

\* handleNodePull up to the sweep: format, then disk.
PullAdmitted(format, size, t) ==
    /\ ~PullFormatIncompatible(format, t.runtime)
    /\ DiskGate(format, size, t)

----------------------------------------------------------------------------
(* The files of a Hugging Face repository, handleModelRepo.                *)

\* The loop of handleModelRepo over the files: shards, projector files and
\* empty files are skipped, and a second file of a tag replaces the first
\* one in its place when it is larger.
WithFile(variants, f) ==
    LET same == {i \in DOMAIN variants : variants[i].tag = f.tag}
    IN CASE f.kind # "gguf" \/ f.size = 0 -> variants
         [] f.kind = "gguf" /\ f.size > 0 /\ same = {} -> Append(variants, f)
         [] OTHER -> [i \in DOMAIN variants |->
                        IF i \in same /\ f.size > variants[i].size
                        THEN f ELSE variants[i]]

GGUFVariants(repo) == FoldLeft(WithFile, <<>>, repo)

\* Safetensors files are one variant of their total size.
SafetensorsVariants(repo) ==
    LET parts == SelectSeq(repo, LAMBDA f : f.kind = "safetensors")
        sizes == [i \in DOMAIN parts |-> parts[i].size]
    IN IF parts = <<>> THEN <<>>
       ELSE <<[tag |-> "repo", size |-> SumOf(sizes), kind |-> "safetensors"]>>

RepoVariants(repo, rt) ==
    IF GGUFOnlyRuntime(rt) THEN GGUFVariants(repo) ELSE SafetensorsVariants(repo)

----------------------------------------------------------------------------
FitTypeOK == telemetry \in Telemetry

SizePairs == {<<a, b>> : a \in FileSizes, b \in FileSizes}

\* A recommended context length really fits: asked for again it is green,
\* and it is neither longer than the one asked for nor than the model's own
\* maximum (computeContextFeasibility).
RecommendedContextFits ==
    \A size \in FileSizes, ctx \in Contexts, maxCtx \in Contexts,
       p \in PerTokens :
        LET best == RecommendedCtx(size, ctx, p, maxCtx, telemetry)
        IN best > 0 =>
              /\ ClassifyFit(Estimate(size, best, p, telemetry.runtime),
                             telemetry) = "green"
              /\ best <= ctx /\ best <= maxCtx

\* What handleModelRepo offers of a repository: for GGUF one variant per tag
\* with a usable file, sized as its largest file, whatever the order of the
\* files; for safetensors the whole of them.
RepoVariantsExact ==
    \A repo \in SeqOf([tag : {"q4", "q8"}, size : {0, 1, 2},
                      kind : {"gguf", "safetensors", "skip"}], 2) :
        LET gguf == {f \in Range(repo) : f.kind = "gguf" /\ f.size > 0}
            got == RepoVariants(repo, "ollama")
            whole == RepoVariants(repo, "vllm")
        IN /\ Cardinality({f.tag : f \in gguf}) = Len(got)
           /\ \A f \in gguf : \E i \in DOMAIN got :
                 got[i].tag = f.tag /\ got[i].size >= f.size /\ got[i] \in gguf
           /\ Len(whole) <= 1
           /\ \A i \in DOMAIN whole : \A f \in Range(repo) :
                 f.kind = "safetensors" => f.size <= whole[i].size

\* The advisor's answers hold what they promise.
AdviceSound == RecommendedContextFits /\ RepoVariantsExact

\* The quantization recommended for an Ollama library model passes the
\* gates of handleNodePull on the same telemetry, and fits one GPU unless
\* the runtime spreads a model over several; and when the advisor blames
\* the disk, the gates refuse every variant that would fit the VRAM.
PickIsPullable ==
    \A sizes \in SizePairs :
        LET rows == CatalogRows(sizes, telemetry) IN
        /\ \A i \in RecommendQuant(rows) :
            /\ rows[i].format = "ollama-library" =>
                   PullAdmitted(rows[i].format, rows[i].size, telemetry)
            /\ ~GGUFOnlyRuntime(telemetry.runtime) /\ ~ScopeApplied(telemetry)
                 /\ Largest(telemetry.gpus) > 0 =>
                   rows[i].est <= Largest(telemetry.gpus)
        /\ RecommendQuant(rows) = {} /\ NoPick(rows) = "disk_insufficient" =>
               \A i \in DOMAIN rows :
                   rows[i].format = "ollama-library" /\ UsableByVRAM(rows[i])
                     => ~PullAdmitted(rows[i].format, rows[i].size, telemetry)

\* A pull of a catalog model whose known size exceeds the free disk the
\* agent reports is refused before it starts.
InsufficientIsRefused ==
    \A size \in FileSizes :
        LET row == CatalogRow(size, TRUE, telemetry) IN
        row.disk = "insufficient" =>
            ~PullAdmitted(row.format, row.size, telemetry)
============================================================================
