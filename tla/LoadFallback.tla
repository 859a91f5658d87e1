----------------------------- MODULE LoadFallback -----------------------------
(***************************************************************************)
(* How one model is brought up: Scheduler::load_model_with_context_fallback *)
(* and its three ways (the legacy reductions, the fit planner, the vLLM     *)
(* planner), the argument lists they hand from one load to the next, the    *)
(* profile cache, what is written back to models.toml, and the refreshes,   *)
(* edits and restarts that come in between.                                 *)
(*                                                                         *)
(* A load runs under load_lock; only the registry file, the reading half of *)
(* a refresh and the process itself move while one is in progress. Whether  *)
(* an attempt fails, and with which text, is the environment's choice.      *)
(***************************************************************************)
EXTENDS FitLadder

CONSTANTS
    Modes,          \* the load paths explored: "legacy", "fit", "pooling", "vllm"
    BlockCounts,    \* the layer counts explored, None when unreadable
    UserContexts,   \* context_size values of an entry, None included
    UserFloors,     \* ctx values of an entry, None included
    UserNgls,       \* ngl values of an entry, None included
    Ports,          \* the ports a refresh may assign to the model
    FreeVram,       \* readings of the free VRAM at the start of a load
    Symptoms,       \* what a failed attempt leaves in its message and stderr
    SizeMb, VramGb, DefaultContext, ReserveMb, ReservePercent,
    MaxAttempts, CacheProfiles, AutoNgl, ContextFallbackMin,
    MaxLoads, MaxEdits   \* bounds of the exploration

ASSUME BoundsAssumption ==
    /\ {SizeMb, VramGb, DefaultContext, ReserveMb, ReservePercent, MaxAttempts, ContextFallbackMin} \subseteq Nat
    /\ FreeVram \subseteq Nat /\ Ports \subseteq Nat
    /\ UserContexts \cup UserFloors \cup UserNgls \cup BlockCounts \subseteq Nat \cup {None}

\* The flags of an argument list that a load reads or rewrites.
ArgsType == [ctx : Nat, ngl : Nat \cup {None}, kv : {None, "q8_0"},
             batch : Nat \cup {None}, port : Ports]
ASSUME ArgsAssumption == None \notin ArgsType

VARIABLES
    mode, blocks,   \* the path this model takes and its layers, fixed
    entry,          \* models.toml: context_size, ctx, ngl
    live,           \* ModelConfig in the scheduler's map
    pending,        \* a registry read by a refresh and not yet installed
    runtime,        \* runtime_args, None before the first load
    backend,        \* the map entry: its arguments and the port it polls
    pc,             \* "idle", "attempt", "boot", "flush", "persist", "up"
    base,           \* base_args of the planners; ctx and ngl before a legacy load
    plans, rung,    \* the ladder and the rung tried; 0 is the cached profile
    tries,          \* oom_attempts
    profile,        \* runtime_profile of the model's configuration
    store,          \* the cached known-good profile on disk
    proven,         \* history: the (ctx, ngl) pairs that became healthy or were set by a user
    loads, edits    \* counters of the exploration

vars == <<mode, blocks, entry, live, pending, runtime, backend, pc, base, plans,
          rung, tries, profile, store, proven, loads, edits>>
disk     == <<entry, store>>
registry == <<live, pending, profile>>
load     == <<base, plans, rung, tries>>
fixed    == <<mode, blocks>>

MaxOomAttempts == 12

-----------------------------------------------------------------------------

\* Embedding and reranker models are planned by default, others if fit is enabled.
Planned == mode \in {"fit", "pooling"}
Pooling == mode = "pooling"

\* A pooling model keeps a share of the free VRAM in reserve.
Reserve(free) ==
    IF Pooling THEN Greatest((free * ReservePercent) \div 100, ReserveMb) ELSE ReserveMb

Hardware(free) == [free |-> free, total |-> VramGb * 1024, gpus |-> 1, ram |-> 0]

\* ModelsRegistry::expand for this entry; the fit flags of extra_args are dropped.
Expand(e, port) ==
    [args |-> [ctx   |-> IF mode = "vllm" THEN OrElse(e.ctx, OrElse(e.floor, DefaultContext))
                         ELSE SuggestContext(e.ctx, e.floor, Pooling, FALSE, SizeMb,
                                             VramGb, DefaultContext),
               ngl   |-> IF mode = "vllm" THEN None ELSE OrElse(e.ngl, FullOffload),
               kv    |-> None,
               batch |-> IF Pooling /\ mode # "vllm" THEN BatchFloor ELSE None,
               port  |-> port],
     floor  |-> e.floor,
     pinned |-> mode # "vllm" /\ e.ngl # None]

EffectiveArgs == OrElse(runtime, live.args)

Pair(args) == <<args.ctx, args.ngl>>

Init ==
    /\ mode \in Modes /\ blocks \in BlockCounts
    /\ entry \in [ctx : UserContexts, floor : UserFloors, ngl : UserNgls]
    /\ \E port \in Ports : live = Expand(entry, port)
    /\ pending = None /\ runtime = None /\ backend = None /\ profile = None
    /\ pc = "idle" /\ base = None /\ plans = <<>> /\ rung = 1 /\ tries = 0
    /\ store = None /\ proven = {<<entry.ctx, entry.ngl>>}
    /\ loads = 0 /\ edits = 0

-----------------------------------------------------------------------------
(* The start of a load, once per path *)

Begin ==
    /\ pc = "idle" /\ loads < MaxLoads
    /\ pc' = "attempt" /\ loads' = loads + 1
    /\ UNCHANGED <<fixed, disk, registry, proven, edits>>

\* An unpinned offload is rewritten from the free memory, whatever runs left behind.
ApplyAutoNgl(free) ==
    IF AutoNgl /\ ~live.pinned
    THEN /\ runtime' = [EffectiveArgs EXCEPT !.ngl = SuggestNgl(free, SizeMb, blocks)]
         /\ backend' = None
    ELSE UNCHANGED <<runtime, backend>>

\* base: what persist_reduced_profile will compare the result with.
StartLegacy(free) ==
    /\ mode = "legacy" /\ Begin
    /\ ApplyAutoNgl(free)
    /\ base' = OrElse(runtime', live.args)
    /\ tries' = 0 /\ UNCHANGED <<plans, rung>>

\* One model on one machine has one key in the store.
KnownGood == IF CacheProfiles THEN store ELSE None

StartFit(free) ==
    /\ Planned /\ Begin
    /\ base' = EffectiveArgs
    /\ plans' = FitPlans(Hardware(free),
                  [size |-> SizeMb, blocks |-> blocks, pooling |-> Pooling,
                   requested |-> EffectiveArgs.ctx, pinned |-> live.pinned,
                   pinnedNgl |-> EffectiveArgs.ngl, floor |-> live.floor],
                  Reserve(free), MaxAttempts)
    /\ rung' = IF KnownGood = None THEN 1 ELSE 0
    /\ UNCHANGED <<runtime, backend, tries>>

StartVllm(free) ==
    /\ mode = "vllm" /\ Begin
    /\ base' = EffectiveArgs
    /\ plans' = VllmPlans(Hardware(free), SizeMb, EffectiveArgs.ctx, None,
                          ReserveMb, MaxAttempts)
    /\ rung' = 1
    /\ UNCHANGED <<runtime, backend, tries>>

-----------------------------------------------------------------------------
(* One attempt *)

Plan == IF rung = 0 THEN store ELSE plans[rung]

\* apply_plan_to_args: a plan without a cache type or a batch leaves the base's.
Apply(args, plan) ==
    [args EXCEPT !.ctx = plan.ctx, !.ngl = plan.ngl,
                 !.kv = OrElse(plan.kv, @), !.batch = OrElse(plan.batch, @)]

ApplyVllm(args, plan) == [args EXCEPT !.ctx = plan.ctx]

\* recreate_backend: the arguments may be older than the URLs.
Recreate(args) ==
    /\ backend' = [args |-> args, url |-> live.args.port]
    /\ runtime' = args

AttemptLegacy ==
    /\ pc = "attempt" /\ mode = "legacy"
    /\ IF backend = None THEN Recreate(EffectiveArgs) ELSE UNCHANGED <<backend, runtime>>
    /\ pc' = "boot"
    /\ UNCHANGED <<fixed, disk, registry, load, proven, loads, edits>>

AttemptPlan ==
    /\ pc = "attempt" /\ Planned
    /\ Recreate(Apply(base, Plan))
    /\ pc' = "boot"
    /\ UNCHANGED <<fixed, disk, registry, load, proven, loads, edits>>

AttemptVllm ==
    /\ pc = "attempt" /\ mode = "vllm"
    /\ Recreate(ApplyVllm(base, Plan))
    /\ pc' = "boot"
    /\ UNCHANGED <<fixed, disk, registry, load, proven, loads, edits>>

\* What try_oom_recovery leaves in runtime_args; None when no lever moves.
ReducedContext(args) ==
    LET next == NextLowerContext(args.ctx, Greatest(ContextFallbackMin, OrElse(live.floor, 0)))
    IN  IF next = None THEN None ELSE [args EXCEPT !.ctx = next]

ReducedNgl(args) ==
    LET next == NextLowerNgl(args.ngl, blocks)
    IN  IF next = None THEN None ELSE [args EXCEPT !.ngl = next]

Recovery(kind, args) ==
    IF ContextFirst(kind) THEN OrElse(ReducedContext(args), ReducedNgl(args))
    ELSE OrElse(ReducedNgl(args), ReducedContext(args))

\* A port nobody answers on can only end in the startup timeout or an exit.
Fails(seen) ==
    /\ pc = "boot" /\ seen \in Symptoms
    /\ backend.args.port = backend.url \/ seen \cap {"unhealthy", "exited"} # {}
    /\ backend' = None

RetryLegacy(seen) ==
    /\ mode = "legacy" /\ Fails(seen)
    /\ tries < MaxOomAttempts /\ ShouldReduceFit(Classify(seen))
    /\ LET reduced == Recovery(Classify(seen), EffectiveArgs)
       IN  reduced # None /\ runtime' = reduced
    /\ tries' = tries + 1 /\ pc' = "attempt"
    /\ UNCHANGED <<fixed, disk, registry, base, plans, rung, proven, loads, edits>>

\* The failed arguments stay in runtime_args.
GiveUpLegacy(seen) ==
    /\ mode = "legacy" /\ Fails(seen)
    /\ \/ tries >= MaxOomAttempts
       \/ ~ShouldReduceFit(Classify(seen))
       \/ Recovery(Classify(seen), EffectiveArgs) = None
    /\ pc' = "idle"
    /\ UNCHANGED <<fixed, disk, registry, runtime, load, proven, loads, edits>>

\* Whatever the failure of a cached profile, the planner comes next.
CachedFails(seen) ==
    /\ Planned /\ rung = 0 /\ Fails(seen)
    /\ rung' = 1 /\ pc' = "attempt"
    /\ UNCHANGED <<fixed, disk, registry, runtime, base, plans, tries, proven, loads, edits>>

\* Mutant: the planner does not move on.
NextRungStays(seen) ==
    /\ rung # 0 /\ Fails(seen)
    /\ ShouldReduceFit(Classify(seen)) /\ rung < Len(plans)
    /\ pc' = "attempt"
    /\ UNCHANGED <<fixed, disk, registry, runtime, load, proven, loads, edits>>

\* advance(): the next plan of the ladder, if there is one.
NextRung(seen) ==
    /\ rung # 0 /\ Fails(seen)
    /\ ShouldReduceFit(Classify(seen)) /\ rung < Len(plans)
    /\ rung' = rung + 1 /\ pc' = "attempt"
    /\ UNCHANGED <<fixed, disk, registry, runtime, base, plans, tries, proven, loads, edits>>

NoRungLeft(seen) ==
    /\ rung # 0 /\ Fails(seen)
    /\ ~ShouldReduceFit(Classify(seen)) \/ rung = Len(plans)
    /\ pc' = "idle"
    /\ UNCHANGED <<fixed, disk, registry, runtime, load, proven, loads, edits>>

\* load() or the health check fails: the planners differ only in their ladders.
PlannedFails(seen) == Planned /\ (NextRung(seen) \/ NoRungLeft(seen))

VllmFails(seen) == mode = "vllm" /\ (NextRung(seen) \/ NoRungLeft(seen))

-----------------------------------------------------------------------------
(* A healthy child, and what is kept of its profile *)

Ready(next) ==
    /\ pc = "boot" /\ backend.args.port = backend.url
    /\ proven' = proven \cup {Pair(backend.args)}
    /\ pc' = next
    /\ UNCHANGED <<fixed, disk, live, pending, runtime, backend, load, loads, edits>>

\* persist_reduced_profile returns early when nothing changed.
HealthyLegacy ==
    /\ mode = "legacy"
    /\ Ready(IF tries > 0 /\ Pair(base) # Pair(EffectiveArgs) THEN "persist" ELSE "up")
    /\ UNCHANGED profile

HealthyCached == Planned /\ rung = 0 /\ Ready("up") /\ profile' = store

\* Mutant: the profile recorded is the first plan's.
HealthyPlannedFirst == Planned /\ rung # 0 /\ Ready("flush") /\ profile' = plans[1]

HealthyPlanned == Planned /\ rung # 0 /\ Ready("flush") /\ profile' = plans[rung]

HealthyVllm == mode = "vllm" /\ Ready("up") /\ UNCHANGED profile

\* A failed write of the store is ignored.
Put(plan) == store' \in {plan, store}

Flush ==
    /\ pc = "flush"
    /\ IF CacheProfiles THEN Put(plans[rung]) ELSE UNCHANGED store
    /\ pc' = "persist"
    /\ UNCHANGED <<fixed, entry, registry, runtime, backend, load, proven, loads, edits>>

WriteEntry(ctx, ngl) ==
    /\ pc = "persist"
    /\ \/ entry' = [entry EXCEPT !.ctx = ctx, !.ngl = ngl]
       \/ entry' = entry            \* an unwritable file is only logged
    /\ pc' = "up"
    /\ UNCHANGED <<fixed, store, registry, runtime, backend, load, proven, loads, edits>>

\* Mutant: what the load began with is written back.
PersistBase == Planned /\ WriteEntry(base.ctx, base.ngl)

\* persist_fit_params
PersistFit == Planned /\ WriteEntry(plans[rung].ctx, plans[rung].ngl)

\* persist_effective_ngl
PersistReduced == mode = "legacy" /\ WriteEntry(EffectiveArgs.ctx, EffectiveArgs.ngl)

\* The memory watcher unloads and keeps the entry in the map; others remove it.
Unload ==
    /\ pc = "up"
    /\ \E keep \in BOOLEAN : backend' = IF keep THEN backend ELSE None
    /\ pc' = "idle"
    /\ UNCHANGED <<fixed, disk, registry, runtime, load, proven, loads, edits>>

-----------------------------------------------------------------------------
(* The registry moves *)

EditEntry ==
    /\ edits < MaxEdits
    /\ \E ctx \in UserContexts, floor \in UserFloors, ngl \in UserNgls :
         /\ entry' = [ctx |-> ctx, floor |-> floor, ngl |-> ngl]
         /\ proven' = proven \cup {<<ctx, ngl>>}
    /\ edits' = edits + 1
    /\ UNCHANGED <<fixed, store, registry, runtime, backend, pc, load, loads>>

RefreshRead ==
    /\ pending = None
    /\ \E port \in Ports : pending' = Expand(entry, port)
    /\ UNCHANGED <<fixed, disk, live, profile, runtime, backend, pc, load, proven, loads, edits>>

\* replace_models keeps the runtime arguments and the backend of a listed model.
RefreshInstall ==
    /\ pending # None /\ pc \in {"idle", "up"}
    /\ live' = pending /\ pending' = None /\ profile' = None
    /\ UNCHANGED <<fixed, disk, runtime, backend, pc, load, proven, loads, edits>>

Restart ==
    /\ loads < MaxLoads
    /\ \E port \in Ports : live' = Expand(entry, port)
    /\ pending' = None /\ profile' = None /\ runtime' = None /\ backend' = None
    /\ pc' = "idle" /\ base' = None /\ plans' = <<>> /\ rung' = 1 /\ tries' = 0
    /\ UNCHANGED <<fixed, disk, proven, loads, edits>>

-----------------------------------------------------------------------------

Start == \E free \in FreeVram : StartLegacy(free) \/ StartFit(free) \/ StartVllm(free)

Attempt == AttemptLegacy \/ AttemptPlan \/ AttemptVllm

AttemptEnds ==
    \/ HealthyLegacy \/ HealthyCached \/ HealthyPlanned \/ HealthyVllm
    \/ \E seen \in Symptoms : \/ RetryLegacy(seen) \/ GiveUpLegacy(seen)
                              \/ CachedFails(seen) \/ PlannedFails(seen)
                              \/ VllmFails(seen)

LoadStep == Attempt \/ AttemptEnds \/ Flush \/ PersistFit \/ PersistReduced

Next ==
    \/ Start \/ LoadStep \/ Unload
    \/ EditEntry \/ RefreshRead \/ RefreshInstall \/ Restart

Spec == Init /\ [][Next]_vars

\* startup_timeout ends every attempt one way or the other, so a load moves on.
FairSpec == Spec /\ WF_vars(LoadStep)

-----------------------------------------------------------------------------

LiveType == [args : ArgsType, floor : UserFloors, pinned : BOOLEAN]

TypeOK ==
    /\ mode \in Modes /\ blocks \in BlockCounts
    /\ entry.floor \in UserFloors /\ {entry.ctx, entry.ngl} \subseteq Nat \cup {None}
    /\ live \in LiveType /\ pending \in LiveType \cup {None}
    /\ runtime \in ArgsType \cup {None}
    /\ backend \in [args : ArgsType, url : Ports] \cup {None}
    /\ pc \in {"idle", "attempt", "boot", "flush", "persist", "up"}
    /\ base \in ArgsType \cup {None}
    /\ rung \in Nat /\ tries \in 0..MaxOomAttempts
    /\ loads \in 0..MaxLoads /\ edits \in 0..MaxEdits

\* What outlives the process is proven: the cached profile and the entry of
\* models.toml hold a context and an offload that became healthy together, or
\* that a user wrote; a crash between the two writes, a load given up half way
\* and a refresh in between leave it so (profile_store.put, persist_fit_params,
\* persist_reduced_profile).
OnlyProven ==
    /\ Pair(entry) \in proven
    /\ store # None => Pair(store) \in proven

\* The runtime profile, which /v1/models reports and which sizes the requests
\* and the admission of an embedding model, is that of the running process, on
\* the cached path as on the planned one (store_runtime_profile, replace_models).
ProfileTruthful ==
    pc = "up" /\ profile # None =>
        /\ Pair(profile) = Pair(backend.args)
        /\ profile.batch # None => profile.batch = backend.args.batch

\* The reductions of a load end: none of the two levers and none of the rungs
\* ever asks for more than the attempt before, and each legacy retry takes
\* context or layers away, whatever the starting values (next_lower_context,
\* try_reduce_ngl, build_fallback_ladder).
Layers(args) == IF blocks = None \/ args.ngl = None THEN OrElse(args.ngl, 0)
                ELSE Least(args.ngl, blocks)

RetryShrinks ==
    [][ /\ tries' = tries + 1 =>
             \/ runtime'.ctx < runtime.ctx /\ Layers(runtime') = Layers(runtime)
             \/ Layers(runtime') < Layers(runtime) /\ runtime'.ctx = runtime.ctx
        /\ rung > 0 /\ rung' = rung + 1 =>
             /\ plans[rung'].ctx <= plans[rung].ctx
             /\ Planned => plans[rung'].ngl <= plans[rung].ngl
             /\ plans[rung'] # plans[rung] ]_vars

\* No llama.cpp retry takes the context of an attempt below the floor of the
\* model's configuration (try_reduce_context, with_context_floor).
ReductionKeepsFloor ==
    [][ mode # "vllm" =>
          /\ tries' > tries /\ runtime'.ctx # runtime.ctx =>
                 runtime'.ctx >= OrElse(live.floor, 0)
          /\ rung > 0 /\ rung' > rung => plans[rung'].ctx >= OrElse(live.floor, 0) ]_vars

\* Retrying goes down and stops at the floor.
RetriesDescend == RetryShrinks /\ ReductionKeepsFloor

\* Every load ends, in a healthy model or in an error, and with it load_lock is
\* given back, whatever the failures.
LoadEnds == (pc # "idle" /\ pc # "up") ~> (pc \in {"idle", "up"})

\* ModelConfig.ctx_floor, src/config/mod.rs: "Minimum context size this model
\* must always be served with, even after VRAM-pressure fallback reduces context".
FloorServed == [][ pc = "boot" /\ pc' \in {"flush", "persist", "up"} =>
                     backend.args.ctx >= OrElse(live.floor, 0) ]_vars

\* docs/superpowers/plans/2026-08-08-stable-model-port-allocation.md: "refresh
\* artifacts and runtime backend URLs use the same deterministic contract": a
\* child listens where its URLs point.
PolledPort == backend # None => backend.args.port = backend.url

=============================================================================
