------------------------------- MODULE FitLadder -------------------------------
(***************************************************************************)
(* The arithmetic of fitting a model to the hardware: the ladders of load   *)
(* profiles of src/fit.rs, the two reduction steps of the legacy path       *)
(* (src/context.rs and Scheduler::try_reduce_ngl), the layer heuristic of   *)
(* src/ngl.rs and the classification of a failed load (src/load_failure.rs).*)
(*                                                                          *)
(* Sizes are megabytes, contexts are tokens, and the numbers are the code's.*)
(* A plan's tensor split, its utilisation fraction (a float clamped to      *)
(* [0.5, 0.95]) and its wording are left out: nothing here depends on them. *)
(***************************************************************************)
EXTENDS Integers, Sequences, FiniteSets

CONSTANT None      \* Option::None
ASSUME NoneAssumption == None \notin Int /\ None # "q8_0"

Least(a, b)    == IF a < b THEN a ELSE b
Greatest(a, b) == IF a > b THEN a ELSE b
SatSub(a, b)   == Greatest(a - b, 0)
OrElse(x, y)   == IF x = None THEN y ELSE x

\* FitConfig and EMBEDDING_BATCH_FLOOR.
ContextMinimum  == 4096
PoolingMinimum  == 2048
BatchFloor      == 2048
FullOffload     == 999
KvTypes         == <<None, "q8_0">>

-----------------------------------------------------------------------------
(* Why a load failed *)

Kind == {"weights", "kvcache", "generic", "port", "missing", "args", "slow", "exit", "unknown"}
Symptom == {"oom", "kv text", "weight text", "in use", "not found", "bad argument",
            "unhealthy", "exited"}

\* classify_load_failure tries the texts in this order on message and stderr.
Classify(seen) ==
    IF "oom" \in seen
    THEN IF "kv text" \in seen THEN "kvcache"
         ELSE IF "weight text" \in seen THEN "weights" ELSE "generic"
    ELSE IF "in use" \in seen       THEN "port"
    ELSE IF "not found" \in seen    THEN "missing"
    ELSE IF "bad argument" \in seen THEN "args"
    ELSE IF "unhealthy" \in seen    THEN "slow"
    ELSE IF "exited" \in seen       THEN "exit" ELSE "unknown"

ShouldReduceFit(kind) == kind \in {"weights", "kvcache", "generic", "slow"}

ContextFirst(kind) == kind \in {"kvcache", "slow"}

-----------------------------------------------------------------------------
(* The legacy steps *)

\* Mutant: a half below the floor is used as it is.
NextLowerContextUnfloored(current, floor) ==
    IF current <= floor \/ current \div 2 >= current THEN None ELSE current \div 2

\* Half the context, never below the floor; None when that is no reduction.
NextLowerContext(current, floor) ==
    LET next == Greatest(current \div 2, floor)
    IN  IF current <= floor \/ next >= current THEN None ELSE next

\* The layers that count as offloaded before the step.
EffectiveLayers(ngl, blocks) ==
    IF ngl = None THEN blocks ELSE IF blocks = None THEN ngl ELSE Least(ngl, blocks)

\* A quarter of the layers, at least four, off the GPU.
NextLowerNgl(ngl, blocks) ==
    LET layers == EffectiveLayers(ngl, blocks)
    IN  IF layers = None \/ layers = 0 THEN None
        ELSE SatSub(layers, Greatest(OrElse(blocks, layers) \div 4, 4))

\* suggest_ngl: the layers that fit into four fifths of the free memory.
SuggestNgl(free, size, blocks) ==
    LET usable == Greatest((free * 8) \div 10, 1)
        layers == Greatest(OrElse(blocks, FullOffload), 1)
    IN  IF size <= usable THEN layers
        ELSE IF blocks = None THEN 0
        ELSE Least((layers * usable) \div Greatest(size, 1), layers)

-----------------------------------------------------------------------------
(* What a model starts from *)

\* suggest_context_size: an explicit -c, else by kind, weight and card; big
\* stands for "30b" or "70b" in the alias. The floor only raises the result.
SuggestContext(explicit, floor, pooling, big, sizeMb, vramGb, default) ==
    LET heavy   == big \/ sizeMb >= 8 * 1024
        guessed == IF pooling THEN Least(8192, default)
                   ELSE IF heavy THEN IF vramGb <= 12 THEN 16384 ELSE 32768
                   ELSE IF vramGb <= 8 THEN 16384
                   ELSE IF vramGb <= 12 THEN 32768 ELSE Least(default, 65536)
    IN  Greatest(OrElse(explicit, guessed), OrElse(floor, 0))

-----------------------------------------------------------------------------
(* Hardware *)

\* hw: free and total VRAM over all GPUs, their number, and the system RAM.
Usable(hw, reserve) == SatSub(hw.free, reserve)

\* A model whose weights, with a seventh on top, exceed every memory it could
\* use is not offered at all; an unknown size (0) is.
CanPossiblyServe(size, hw, cpuRam) ==
    size = 0 \/ size + size \div 7 <= hw.total + (IF cpuRam THEN hw.ram ELSE 0)

\* The context cap of a pooling model, from the VRAM left beside its weights.
BalancedContext(headroom) ==
    IF headroom > 8 * 1024       THEN 16384
    ELSE IF headroom >= 3 * 1024 THEN 8192
    ELSE IF headroom >= 1536     THEN 4096 ELSE 2048

-----------------------------------------------------------------------------
(* The planned ladder *)

\* The elements of a set of at most four numbers, largest first.
Descending(S) ==
    CHOOSE s \in UNION {[1..n -> S] : n \in 1..4} :
        /\ \A x \in S : \E i \in DOMAIN s : s[i] = x
        /\ \A i, j \in DOMAIN s : i < j => s[i] > s[j]

\* The request and its 75, 50 and 25 per cent, clamped to the floor.
ContextSteps(requested, floor) ==
    Descending({Greatest((requested * q) \div 4, floor) : q \in 1..4})

\* m: size, blocks, pooling, requested, pinned, pinnedNgl, floor.
PlanFloor(m) ==
    Greatest(IF m.pooling THEN PoolingMinimum ELSE ContextMinimum, OrElse(m.floor, 0))

Headroom(hw, m, reserve) == SatSub(Usable(hw, reserve), m.size)

PlanRequest(hw, m, reserve) ==
    IF m.pooling THEN Least(m.requested, BalancedContext(Headroom(hw, m, reserve)))
    ELSE m.requested

\* Full offload unless the weights exceed the usable VRAM; a pin comes first.
DefaultNgl(hw, m, reserve) ==
    IF m.pinned THEN OrElse(m.pinnedNgl, FullOffload)
    ELSE IF m.size <= Usable(hw, reserve) \/ m.blocks = None THEN FullOffload
    ELSE LET layers == Greatest(m.blocks, 1)
         IN  Least((layers * Usable(hw, reserve)) \div Greatest(m.size, 1), layers)

\* The last rung, and the last three when the weights do not fit, offload less.
ReducesOffload(i, attempts, hw, m, reserve) ==
    /\ DefaultNgl(hw, m, reserve) > 1
    /\ \/ i = attempts
       \/ /\ m.size > Usable(hw, reserve)
          /\ m.blocks # None
          /\ i > SatSub(attempts, 3)

RungNgl(i, attempts, hw, m, reserve) ==
    LET default == DefaultNgl(hw, m, reserve)
        base    == Greatest(OrElse(m.blocks, default), 1)
        share   == Greatest(attempts - (i - 1), 1)
    IN  IF ReducesOffload(i, attempts, hw, m, reserve)
        THEN Greatest(Least((base * share) \div (attempts + 1), default - 1), 1)
        ELSE default

\* compute_embedding_batch_sizes: the batches a pooling model steps through.
BatchSteps(hw, m, reserve) ==
    LET base == IF Headroom(hw, m, reserve) > 8 * 1024 THEN 4096 ELSE BatchFloor
    IN  Descending({Greatest(b, BatchFloor) :
                      b \in {base, (base * 3) \div 4, base \div 2, base \div 4}})

RungBatch(i, hw, m, reserve) ==
    IF ~m.pooling THEN None
    ELSE LET steps == BatchSteps(hw, m, reserve) IN steps[Least(i, Len(steps))]

\* build_fallback_ladder: for each context step one rung per cache type.
FitPlans(hw, m, reserve, maxAttempts) ==
    LET attempts == Greatest(maxAttempts, 1)
        steps    == ContextSteps(PlanRequest(hw, m, reserve), PlanFloor(m))
        kvs      == Len(KvTypes)
    IN  [i \in 1..Least(attempts, kvs * Len(steps)) |->
           [ctx   |-> steps[((i - 1) \div kvs) + 1],
            kv    |-> KvTypes[((i - 1) % kvs) + 1],
            ngl   |-> RungNgl(i, attempts, hw, m, reserve),
            batch |-> RungBatch(i, hw, m, reserve)]]

-----------------------------------------------------------------------------
(* vLLM: only the context is reduced *)

\* Shard over every GPU when the weights do not fit one of them.
TensorParallel(hw, size, pinned, reserve) ==
    IF pinned # None THEN pinned
    ELSE IF hw.gpus <= 1 \/ size = 0 THEN 1
    ELSE IF size <= Greatest(Usable(hw, reserve) \div hw.gpus, 1) THEN 1 ELSE hw.gpus

VllmPlans(hw, size, requested, pinned, reserve, maxAttempts) ==
    LET steps == ContextSteps(requested, ContextMinimum)
    IN  [i \in 1..Least(Len(steps), Greatest(maxAttempts, 1)) |->
           [ctx |-> steps[i], tp |-> TensorParallel(hw, size, pinned, reserve)]]
=============================================================================
