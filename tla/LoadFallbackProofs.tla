-------------------------- MODULE LoadFallbackProofs --------------------------
(***************************************************************************)
(* Proofs about the load paths, for any memory, ladder length, symptoms and *)
(* number of loads, edits, refreshes and restarts: what is written to disk  *)
(* has run, what is reported is what runs, and every retry asks for less.   *)
(* The first two follow the profile of the attempt from the ladder (or      *)
(* runtime_args) to the child and from there to the two files; the third    *)
(* rests on what the operators of FitLadder return.                         *)
(***************************************************************************)
EXTENDS LoadFallback, TLAPS

-----------------------------------------------------------------------------
(* The two reduction steps *)

\* A context step is a real reduction that stops at the floor, and it is refused
\* exactly at the floor (next_lower_context).
THEOREM NextLowerContextDescends ==
  ASSUME NEW current \in Nat, NEW floor \in Nat
  PROVE  /\ current <= floor => NextLowerContext(current, floor) = None
         /\ current > floor /\ current > 0 =>
                /\ NextLowerContext(current, floor) \in floor..(current - 1)
                /\ 2 * NextLowerContext(current, floor) + 1 >= current
  BY NoneAssumption DEF NextLowerContext, Greatest

\* A layer step is a real reduction, refused exactly when no layer is known or
\* left; it takes a quarter of the model's layers or all there are (try_reduce_ngl).
THEOREM NextLowerNglDescends ==
  ASSUME NEW ngl \in Nat \cup {None}, NEW layers \in Nat \cup {None},
         EffectiveLayers(ngl, layers) \in Nat \ {0}
  PROVE  /\ NextLowerNgl(ngl, layers) \in 0..(EffectiveLayers(ngl, layers) - 1)
         /\ layers # None => 4 * (EffectiveLayers(ngl, layers) - NextLowerNgl(ngl, layers)) > layers - 4
                             \/ NextLowerNgl(ngl, layers) = 0
  BY NoneAssumption DEF NextLowerNgl, EffectiveLayers, Least, Greatest, SatSub, OrElse

-----------------------------------------------------------------------------
(* The shapes of argument lists and entries *)

IsArgs(a) == a = [ctx |-> a.ctx, ngl |-> a.ngl, kv |-> a.kv, batch |-> a.batch, port |-> a.port]

ShapeInv ==
    /\ entry = [ctx |-> entry.ctx, floor |-> entry.floor, ngl |-> entry.ngl]
    /\ IsArgs(live.args) /\ (pending # None => IsArgs(pending.args))
    /\ runtime # None => IsArgs(runtime)
    /\ mode # "legacy" /\ pc \notin {"idle", "up"} => IsArgs(base)

\* On the legacy path every list is well typed, and the child runs runtime_args.
OptNat == Nat \cup {None}
LiveOK(l) == l.args \in ArgsType /\ l.floor \in OptNat
LegacyInv ==
    mode = "legacy" =>
        /\ blocks \in OptNat
        /\ entry.ctx \in OptNat /\ entry.floor \in OptNat /\ entry.ngl \in OptNat
        /\ LiveOK(live) /\ (pending # None => LiveOK(pending))
        /\ runtime \in ArgsType \cup {None}
        /\ backend # None \/ pc \in {"boot", "persist"} =>
               runtime = backend.args /\ runtime # None
        /\ pc = "persist" => Pair(runtime) \in proven
        /\ pc # "flush"

\* On the planned paths the child runs the plan under trial.
PlanInv ==
    /\ rung \in Nat
    /\ pc = "flush" => Planned
    /\ Planned =>
        /\ pc = "boot" => Pair(backend.args) = Pair(Plan) /\ (rung = 0 => store # None)
        /\ pc = "attempt" /\ rung = 0 => store # None
        /\ pc \in {"flush", "persist"} => Pair(plans[rung]) \in proven

ProvenInv == ShapeInv /\ LegacyInv /\ PlanInv /\ OnlyProven

LEMMA ReduceType ==
  ASSUME NEW args \in ArgsType, live.floor \in OptNat, blocks \in OptNat, NEW kind
  PROVE  Recovery(kind, args) \in ArgsType \cup {None}
<1> USE NoneAssumption, BoundsAssumption DEF ArgsType, OptNat
<1>1. ReducedContext(args) \in ArgsType \cup {None}
  <2> DEFINE f == Greatest(ContextFallbackMin, OrElse(live.floor, 0))
  <2>1. f \in Nat
    BY DEF Greatest, OrElse
  <2>2. NextLowerContext(args.ctx, f) \in Nat \cup {None}
    BY <2>1 DEF NextLowerContext, Greatest
  <2> QED
    BY <2>2 DEF ReducedContext
<1>2. ReducedNgl(args) \in ArgsType \cup {None}
  <2>1. NextLowerNgl(args.ngl, blocks) \in Nat \cup {None}
    BY DEF NextLowerNgl, EffectiveLayers, Least, Greatest, SatSub, OrElse
  <2> QED
    BY <2>1 DEF ReducedNgl
<1> QED
  BY <1>1, <1>2 DEF Recovery, OrElse

LEMMA ExpandShape ==
  ASSUME NEW e, NEW port
  PROVE  IsArgs(Expand(e, port).args)
  BY DEF Expand, IsArgs

LEMMA ExpandType ==
  ASSUME NEW e, e.ctx \in OptNat, e.floor \in OptNat, e.ngl \in OptNat, NEW port \in Ports,
         mode = "legacy"
  PROVE  LiveOK(Expand(e, port))
<1> USE NoneAssumption, BoundsAssumption DEF OptNat
<1> DEFINE ctx == SuggestContext(e.ctx, e.floor, Pooling, FALSE, SizeMb, VramGb, DefaultContext)
           ngl == OrElse(e.ngl, FullOffload)
<1>1. ctx \in Nat
  BY DEF SuggestContext, Greatest, Least, OrElse
<1>2. ngl \in Nat
  BY DEF OrElse, FullOffload
<1>3. /\ Expand(e, port).args = [ctx |-> ctx, ngl |-> ngl, kv |-> None, batch |-> None, port |-> port]
      /\ Expand(e, port).floor = e.floor
  BY DEF Expand, Pooling
<1> HIDE DEF ctx, ngl
<1> QED
  BY <1>1, <1>2, <1>3 DEF LiveOK, ArgsType

\* What a legacy load starts from and ends with.
LEMMA EffectiveType ==
  ASSUME LegacyInv, mode = "legacy"
  PROVE  EffectiveArgs \in ArgsType /\ (runtime # None => EffectiveArgs = runtime)
  BY DEF LegacyInv, LiveOK, EffectiveArgs, OrElse

LEMMA EffectiveShape == ShapeInv => IsArgs(EffectiveArgs)
  BY DEF ShapeInv, EffectiveArgs, OrElse

LEMMA InitProven == Init => ProvenInv
<1> SUFFICES ASSUME Init PROVE ProvenInv
  OBVIOUS
<1> USE BoundsAssumption DEF Init
<1>1. entry.ctx \in UserContexts /\ entry.floor \in UserFloors /\ entry.ngl \in UserNgls
      /\ entry = [ctx |-> entry.ctx, floor |-> entry.floor, ngl |-> entry.ngl]
  OBVIOUS
<1>2. ShapeInv
  BY <1>1, ExpandShape DEF ShapeInv
<1>3. LegacyInv
  BY <1>1, ExpandType DEF LegacyInv, OptNat
<1>4. PlanInv /\ OnlyProven
  BY DEF PlanInv, OnlyProven, Pair
<1> QED
  BY <1>2, <1>3, <1>4 DEF ProvenInv

LEMMA StartsProven ==
  ASSUME ProvenInv, NEW free \in FreeVram, StartLegacy(free) \/ StartFit(free) \/ StartVllm(free)
  PROVE  ProvenInv'
<1> USE DEF ProvenInv, Begin, fixed, disk, registry
<1>1. CASE StartLegacy(free)
  <2>1. EffectiveArgs \in ArgsType /\ IsArgs(EffectiveArgs)
    BY <1>1, EffectiveType, EffectiveShape DEF StartLegacy
  <2>2. SuggestNgl(free, SizeMb, blocks) \in Nat
    BY <1>1, NoneAssumption, BoundsAssumption
       DEF StartLegacy, LegacyInv, OptNat, SuggestNgl, Greatest, Least, OrElse, FullOffload
  <2>3. \/ UNCHANGED <<runtime, backend>>
        \/ runtime' \in ArgsType /\ IsArgs(runtime') /\ backend' = None
    <3> DEFINE tuned == [EffectiveArgs EXCEPT !.ngl = SuggestNgl(free, SizeMb, blocks)]
    <3>1. tuned \in ArgsType /\ IsArgs(tuned)
      BY <2>1, <2>2 DEF ArgsType, IsArgs
    <3> QED
      BY <1>1, <3>1 DEF StartLegacy, ApplyAutoNgl
  <2>4. ShapeInv'
    BY <1>1, <2>3 DEF StartLegacy, ShapeInv, Planned
  <2>5. LegacyInv'
    BY <1>1, <2>3, ArgsAssumption DEF StartLegacy, LegacyInv, LiveOK
  <2> QED
    BY <1>1, <2>4, <2>5 DEF StartLegacy, PlanInv, OnlyProven, Planned
<1>2. CASE StartFit(free)
  <2>1. ShapeInv'
    BY <1>2, EffectiveShape DEF StartFit, ShapeInv, Planned
  <2>2. rung' = 0 => store' # None
    BY <1>2 DEF StartFit, KnownGood
  <2> QED
    BY <1>2, <2>1, <2>2 DEF StartFit, LegacyInv, PlanInv, OnlyProven, Planned
<1>3. CASE StartVllm(free)
  <2>1. ShapeInv'
    BY <1>3, EffectiveShape DEF StartVllm, ShapeInv, Planned
  <2> QED
    BY <1>3, <2>1 DEF StartVllm, LegacyInv, PlanInv, OnlyProven, Planned
<1> QED
  BY <1>1, <1>2, <1>3

LEMMA ApplyFields ==
  ASSUME IsArgs(base), NEW plan
  PROVE  Apply(base, plan) =
             [ctx |-> plan.ctx, ngl |-> plan.ngl, kv |-> OrElse(plan.kv, base.kv),
              batch |-> OrElse(plan.batch, base.batch), port |-> base.port]
<1> DEFINE kv == OrElse(plan.kv, base.kv)
           batch == OrElse(plan.batch, base.batch)
<1>1. Apply(base, plan) = [base EXCEPT !.ctx = plan.ctx, !.ngl = plan.ngl,
                                       !.kv = kv, !.batch = batch]
  BY DEF Apply
<1> HIDE DEF kv, batch
<1>2. Apply(base, plan) = [ctx |-> plan.ctx, ngl |-> plan.ngl, kv |-> kv,
                           batch |-> batch, port |-> base.port]
  BY <1>1 DEF IsArgs
<1> QED
  BY <1>2 DEF kv, batch

LEMMA AttemptsProven ==
  ASSUME ProvenInv, AttemptLegacy \/ AttemptPlan \/ AttemptVllm
  PROVE  ProvenInv'
<1> USE DEF ProvenInv, fixed, disk, registry, load
<1>1. CASE AttemptLegacy
  <2>1. EffectiveArgs \in ArgsType /\ IsArgs(EffectiveArgs)
        /\ (runtime # None => EffectiveArgs = runtime)
    BY <1>1, EffectiveType, EffectiveShape DEF AttemptLegacy
  <2>2. \/ backend # None /\ UNCHANGED <<backend, runtime>>
        \/ /\ backend' = [args |-> EffectiveArgs, url |-> live.args.port]
           /\ runtime' = EffectiveArgs
    BY <1>1 DEF AttemptLegacy, Recreate
  <2>3. ShapeInv'
    BY <1>1, <2>1, <2>2 DEF AttemptLegacy, ShapeInv, Planned
  <2>4. LegacyInv'
    <3>1. CASE backend # None /\ UNCHANGED <<backend, runtime>>
      BY <1>1, <2>2, <3>1 DEF AttemptLegacy, LegacyInv, LiveOK
    <3>2. CASE backend' = [args |-> EffectiveArgs, url |-> live.args.port] /\ runtime' = EffectiveArgs
      <4>1. runtime' # None /\ runtime' = backend'.args /\ runtime' \in ArgsType
        BY <2>1, <3>2, ArgsAssumption
      <4> QED
        BY <1>1, <4>1 DEF AttemptLegacy, LegacyInv, LiveOK
    <3> QED
      BY <2>2, <3>1, <3>2
  <2> QED
    BY <1>1, <2>3, <2>4 DEF AttemptLegacy, PlanInv, OnlyProven, Planned
<1>2. CASE AttemptPlan
  <2>1. ASSUME NEW plan
        PROVE  /\ IsArgs(Apply(base, plan))
               /\ Pair(Apply(base, plan)) = <<plan.ctx, plan.ngl>>
    <3>1. IsArgs(base)
      BY <1>2 DEF AttemptPlan, Planned, ShapeInv
    <3> QED
      BY <3>1, ApplyFields DEF IsArgs, Pair
  <2>2. ShapeInv'
    BY <1>2, <2>1 DEF AttemptPlan, Recreate, ShapeInv, Planned
  <2>3. LegacyInv'
    BY <1>2 DEF AttemptPlan, Planned, LegacyInv
  <2>4. Pair(backend'.args) = Pair(Plan) /\ Plan' = Plan
    BY <1>2, <2>1 DEF AttemptPlan, Recreate, Pair, Plan
  <2> QED
    BY <1>2, <2>2, <2>3, <2>4 DEF AttemptPlan, PlanInv, OnlyProven, Planned
<1>3. CASE AttemptVllm
  <2>1. runtime' # None => IsArgs(runtime')
    BY <1>3 DEF AttemptVllm, Recreate, ApplyVllm, IsArgs, ShapeInv
  <2>2. ShapeInv'
    BY <1>3, <2>1 DEF AttemptVllm, ShapeInv, Planned
  <2> QED
    BY <1>3, <2>2 DEF AttemptVllm, LegacyInv, PlanInv, OnlyProven, Planned
<1> QED
  BY <1>1, <1>2, <1>3

LEMMA FailuresProven ==
  ASSUME ProvenInv, NEW seen,
         \/ RetryLegacy(seen) \/ GiveUpLegacy(seen) \/ CachedFails(seen)
         \/ PlannedFails(seen) \/ VllmFails(seen)
  PROVE  ProvenInv'
<1> USE DEF ProvenInv, fixed, disk, registry, load, Fails
<1>1. CASE RetryLegacy(seen)
  <2>1. EffectiveArgs \in ArgsType /\ live.floor \in OptNat /\ blocks \in OptNat
    BY <1>1, EffectiveType DEF RetryLegacy, LegacyInv, LiveOK
  <2>2. runtime' = Recovery(Classify(seen), EffectiveArgs) /\ runtime' # None
    BY <1>1 DEF RetryLegacy
  <2>3. runtime' \in ArgsType
    BY <2>1, <2>2, ReduceType
  <2>4. IsArgs(runtime')
    BY <2>3 DEF ArgsType, IsArgs
  <2>5. ShapeInv'
    BY <1>1, <2>4 DEF RetryLegacy, ShapeInv
  <2>6. LegacyInv'
    BY <1>1, <2>3 DEF RetryLegacy, LegacyInv, LiveOK
  <2> QED
    BY <1>1, <2>5, <2>6 DEF RetryLegacy, PlanInv, OnlyProven, Planned
<1>2. CASE GiveUpLegacy(seen)
  BY <1>2 DEF GiveUpLegacy, ShapeInv, LegacyInv, LiveOK, PlanInv, OnlyProven, Planned
<1>3. CASE CachedFails(seen) \/ PlannedFails(seen) \/ VllmFails(seen)
  <2>1. /\ mode # "legacy" /\ pc = "boot" /\ pc' \in {"attempt", "idle"}
        /\ rung' \in Nat
        /\ UNCHANGED <<fixed, disk, registry, runtime, base, plans, proven>>
        /\ pc' = "attempt" => rung' # 0
    BY <1>3 DEF CachedFails, PlannedFails, VllmFails, NextRung, NoRungLeft, Planned, PlanInv
  <2> QED
    BY <2>1 DEF ShapeInv, LegacyInv, PlanInv, OnlyProven, Planned
<1> QED
  BY <1>1, <1>2, <1>3

LEMMA HealthyProven ==
  ASSUME ProvenInv, HealthyLegacy \/ HealthyCached \/ HealthyPlanned \/ HealthyVllm
  PROVE  ProvenInv'
<1> USE DEF ProvenInv, fixed, disk, registry, load, Ready
<1>0. OnlyProven'
  BY DEF HealthyLegacy, HealthyCached, HealthyPlanned, HealthyVllm, OnlyProven, Pair
<1>1. CASE HealthyLegacy
  <2>1. runtime = backend.args /\ Pair(runtime') \in proven'
    BY <1>1 DEF HealthyLegacy, LegacyInv, Pair
  <2> QED
    BY <1>0, <1>1, <2>1 DEF HealthyLegacy, ShapeInv, LegacyInv, LiveOK, PlanInv, Planned
<1>2. CASE HealthyCached \/ HealthyPlanned
  <2>1. Planned /\ pc = "boot" /\ (pc' = "flush" \/ pc' = "up") /\ (pc' = "flush" => rung # 0)
    BY <1>2 DEF HealthyCached, HealthyPlanned
  <2>2. rung # 0 => Pair(plans'[rung']) \in proven'
    BY <1>2, <2>1 DEF HealthyCached, HealthyPlanned, PlanInv, Pair, Plan
  <2>3. UNCHANGED <<mode, entry, live, pending, runtime, base, plans, rung, store>>
    BY <1>2 DEF HealthyCached, HealthyPlanned
  <2> QED
    BY <1>0, <2>1, <2>2, <2>3 DEF ShapeInv, LegacyInv, PlanInv, Planned
<1>3. CASE HealthyVllm
  BY <1>0, <1>3 DEF HealthyVllm, ShapeInv, LegacyInv, PlanInv, Planned
<1> QED
  BY <1>1, <1>2, <1>3

LEMMA WritesProven ==
  ASSUME ProvenInv, Flush \/ PersistFit \/ PersistReduced
  PROVE  ProvenInv'
<1> USE DEF ProvenInv, fixed, disk, registry, load
<1>1. CASE Flush
  <2>1. Planned /\ Pair(plans[rung]) \in proven
    BY <1>1 DEF Flush, PlanInv
  <2>2. store' = store \/ store' = plans[rung]
    BY <1>1 DEF Flush, Put
  <2>3. OnlyProven'
    BY <1>1, <2>1, <2>2 DEF Flush, OnlyProven, Pair
  <2> QED
    BY <1>1, <2>1, <2>3 DEF Flush, ShapeInv, LegacyInv, PlanInv, Planned, Pair
<1>2. CASE PersistFit
  <2>1. /\ Planned /\ Pair(plans[rung]) \in proven /\ pc' = "up"
        /\ \/ entry' = [entry EXCEPT !.ctx = plans[rung].ctx, !.ngl = plans[rung].ngl]
           \/ entry' = entry
        /\ UNCHANGED <<mode, blocks, store, live, pending, runtime, rung, proven>>
    BY <1>2 DEF PersistFit, WriteEntry, PlanInv
  <2> QED
    BY <2>1 DEF ShapeInv, LegacyInv, PlanInv, OnlyProven, Planned, Pair
<1>3. CASE PersistReduced
  <2>1. EffectiveArgs \in ArgsType /\ EffectiveArgs = runtime /\ Pair(runtime) \in proven
    BY <1>3, EffectiveType DEF PersistReduced, WriteEntry, LegacyInv
  <2>2. /\ mode = "legacy" /\ pc' = "up"
        /\ \/ entry' = [entry EXCEPT !.ctx = runtime.ctx, !.ngl = runtime.ngl]
           \/ entry' = entry
        /\ UNCHANGED <<mode, blocks, store, live, pending, runtime, backend, rung, proven>>
    BY <1>3, <2>1 DEF PersistReduced, WriteEntry
  <2>3. ShapeInv' /\ OnlyProven'
    BY <2>1, <2>2 DEF ShapeInv, OnlyProven, Pair
  <2>4. entry'.ctx \in OptNat /\ entry'.floor \in OptNat /\ entry'.ngl \in OptNat
    BY <2>1, <2>2 DEF ShapeInv, LegacyInv, ArgsType, OptNat
  <2>5. LegacyInv'
    BY <2>2, <2>4 DEF LegacyInv, LiveOK
  <2> QED
    BY <2>2, <2>3, <2>5 DEF PlanInv, Planned
<1> QED
  BY <1>1, <1>2, <1>3

LEMMA RegistryProven ==
  ASSUME ProvenInv, Unload \/ EditEntry \/ RefreshRead \/ RefreshInstall \/ Restart
  PROVE  ProvenInv'
<1> USE BoundsAssumption DEF ProvenInv, fixed, disk, registry, load
<1>0. \A port \in Ports : /\ IsArgs(Expand(entry, port).args)
                          /\ mode = "legacy" => LiveOK(Expand(entry, port))
  BY ExpandShape, ExpandType DEF LegacyInv
<1>1. CASE Unload
  BY <1>1 DEF Unload, ShapeInv, LegacyInv, LiveOK, PlanInv, OnlyProven, Planned
<1>2. CASE EditEntry
  <2>1. PICK ctx \in UserContexts, floor \in UserFloors, ngl \in UserNgls :
           /\ entry' = [ctx |-> ctx, floor |-> floor, ngl |-> ngl]
           /\ proven' = proven \cup {<<ctx, ngl>>}
    BY <1>2 DEF EditEntry
  <2>2. OnlyProven' /\ ShapeInv'
    BY <1>2, <2>1 DEF EditEntry, OnlyProven, Pair, ShapeInv, Planned
  <2>3. LegacyInv'
    BY <1>2, <2>1 DEF EditEntry, LegacyInv, LiveOK, OptNat
  <2>4. PlanInv'
    BY <1>2, <2>1 DEF EditEntry, PlanInv, Planned, Plan, Pair
  <2> QED
    BY <2>2, <2>3, <2>4
<1>3. CASE RefreshRead
  BY <1>0, <1>3 DEF RefreshRead, ShapeInv, LegacyInv, LiveOK, PlanInv, OnlyProven, Planned, Plan
<1>4. CASE RefreshInstall
  BY <1>4 DEF RefreshInstall, ShapeInv, LegacyInv, LiveOK, PlanInv, OnlyProven, Planned
<1>5. CASE Restart
  BY <1>0, <1>5 DEF Restart, ShapeInv, LegacyInv, LiveOK, PlanInv, OnlyProven, Planned
<1> QED
  BY <1>1, <1>2, <1>3, <1>4, <1>5

LEMMA StepProven == ProvenInv /\ [Next]_vars => ProvenInv'
<1> SUFFICES ASSUME ProvenInv, [Next]_vars PROVE ProvenInv'
  OBVIOUS
<1>1. CASE UNCHANGED vars
  BY <1>1 DEF vars, ProvenInv, ShapeInv, LegacyInv, LiveOK, PlanInv, OnlyProven, Planned, Plan
<1> QED
  BY <1>1, StartsProven, AttemptsProven, FailuresProven, HealthyProven, WritesProven, RegistryProven
     DEF Next, Start, LoadStep, Attempt, AttemptEnds

\* Whatever the memory, the ladder and the failures: the cached profile and the
\* entry of models.toml hold what became healthy together or what a user wrote,
\* after every crash, refresh and abandoned load.
THEOREM OnlyProvenCorrect == Spec => []OnlyProven
<1>1. ProvenInv => OnlyProven
  BY DEF ProvenInv
<1> QED
  BY InitProven, StepProven, <1>1, PTL DEF Spec

-----------------------------------------------------------------------------
(* The profile that is reported *)

Describes(p, args) ==
    Pair(p) = Pair(args) /\ (p.batch # None => p.batch = args.batch)

TruthInv ==
    /\ ~Planned => profile = None
    /\ Planned /\ pc = "boot" => Describes(Plan, backend.args)
    /\ pc \in {"flush", "persist", "up"} /\ profile # None => Describes(profile, backend.args)

LEMMA ApplyDescribes ==
  ASSUME IsArgs(base), NEW plan
  PROVE  Describes(plan, Apply(base, plan))
  BY ApplyFields DEF Describes, Pair, OrElse

LEMMA TruthStep == ProvenInv /\ TruthInv /\ [Next]_vars => TruthInv'
<1> SUFFICES ASSUME ProvenInv, TruthInv, [Next]_vars PROVE TruthInv'
  OBVIOUS
<1> USE DEF TruthInv, fixed, disk, registry, load, Planned
<1>1. ASSUME NEW free \in FreeVram, StartLegacy(free) \/ StartFit(free) \/ StartVllm(free)
      PROVE  TruthInv'
  BY <1>1 DEF StartLegacy, StartFit, StartVllm, Begin
<1>2. CASE AttemptLegacy \/ AttemptVllm
  BY <1>2 DEF AttemptLegacy, AttemptVllm
<1>3. CASE AttemptPlan
  <2>1. IsArgs(base)
    BY <1>3 DEF AttemptPlan, ProvenInv, ShapeInv
  <2>2. backend'.args = Apply(base, Plan) /\ Plan' = Plan
    BY <1>3 DEF AttemptPlan, Recreate, Plan
  <2> QED
    BY <1>3, <2>1, <2>2, ApplyDescribes DEF AttemptPlan, Describes, Pair
<1>4. ASSUME NEW seen,
             \/ RetryLegacy(seen) \/ GiveUpLegacy(seen) \/ CachedFails(seen)
             \/ PlannedFails(seen) \/ VllmFails(seen)
      PROVE  TruthInv'
  BY <1>4 DEF RetryLegacy, GiveUpLegacy, CachedFails, PlannedFails, VllmFails, NextRung,
              NoRungLeft, Fails
<1>5. CASE HealthyLegacy \/ HealthyVllm
  BY <1>5 DEF HealthyLegacy, HealthyVllm, Ready
<1>6. CASE HealthyCached \/ HealthyPlanned
  <2>1. profile' = Plan /\ pc = "boot" /\ backend' = backend /\ mode' = mode
        /\ pc' \in {"flush", "up"}
    BY <1>6 DEF HealthyCached, HealthyPlanned, Ready, Plan
  <2> QED
    BY <1>6, <2>1 DEF HealthyCached, HealthyPlanned, Describes, Pair
<1>7. CASE Flush \/ PersistFit \/ PersistReduced
  BY <1>7 DEF Flush, PersistFit, PersistReduced, WriteEntry, Describes, Pair
<1>8. CASE Unload \/ RefreshInstall \/ Restart
  BY <1>8 DEF Unload, RefreshInstall, Restart
<1>9. CASE EditEntry \/ RefreshRead \/ UNCHANGED vars
  <2>1. UNCHANGED <<mode, store, plans, rung, pc, profile, backend>>
    BY <1>9 DEF EditEntry, RefreshRead, vars
  <2> QED
    BY <2>1 DEF Plan, Describes, Pair
<1> QED
  BY <1>1, <1>2, <1>3, <1>4, <1>5, <1>6, <1>7, <1>8, <1>9
     DEF Next, Start, LoadStep, Attempt, AttemptEnds

\* Whatever the memory, the ladder, the failures and the refreshes: the runtime
\* profile of a running model is that of its process.
THEOREM ProfileTruthfulCorrect == Spec => []ProfileTruthful
<1>1. Init => ProvenInv /\ TruthInv
  BY InitProven DEF Init, TruthInv
<1>2. ProvenInv /\ TruthInv /\ [Next]_vars => (ProvenInv /\ TruthInv)'
  BY StepProven, TruthStep
<1>3. TruthInv => ProfileTruthful
  BY DEF TruthInv, ProfileTruthful, Describes
<1> QED
  BY <1>1, <1>2, <1>3, PTL DEF Spec
-----------------------------------------------------------------------------
(* The ladders of src/fit.rs: the operators of FitLadder *)

\* A list of all the elements of S, largest first.
Sorted(s, S) ==
    /\ \A x \in S : \E i \in DOMAIN s : s[i] = x
    /\ \A i, j \in DOMAIN s : i < j => s[i] > s[j]

\* The first n of four numbers fall and are all of S.
Falls(S, n, x, y, z, w) ==
    /\ n \in 1..4 /\ S \in SUBSET Nat
    /\ x \in S /\ y \in S /\ z \in S /\ w \in S
    /\ n > 1 => x > y
    /\ n > 2 => y > z
    /\ n > 3 => z > w
    /\ \A v \in S : \/ v = x
                    \/ n > 1 /\ v = y
                    \/ n > 2 /\ v = z
                    \/ n > 3 /\ v = w

LEMMA ListSorted ==
  ASSUME NEW S, NEW n, NEW x, NEW y, NEW z, NEW w, Falls(S, n, x, y, z, w)
  PROVE  \E m \in 1..4 : \E s \in [1..m -> S] : Sorted(s, S)
<1> USE DEF Falls
<1> DEFINE s == [i \in 1..n |-> IF i = 1 THEN x ELSE IF i = 2 THEN y ELSE IF i = 3 THEN z ELSE w]
<1>1. s \in [1..n -> S]
  OBVIOUS
<1>2. \A v \in S : \E i \in DOMAIN s : s[i] = v
  <2> TAKE v \in S
  <2>1. 1 \in 1..n /\ (n > 1 => 2 \in 1..n) /\ (n > 2 => 3 \in 1..n) /\ (n > 3 => 4 \in 1..n)
    OBVIOUS
  <2> QED
    BY <2>1
<1>3. \A i, j \in DOMAIN s : i < j => s[i] > s[j]
  OBVIOUS
<1>4. Sorted(s, S)
  BY <1>2, <1>3 DEF Sorted
<1> HIDE DEF s
<1> QED
  BY <1>1, <1>4

\* Four numbers in order, repetitions allowed, have a strictly falling list.
LEMMA SortedExists ==
  ASSUME NEW a \in Nat, NEW b \in Nat, NEW c \in Nat, NEW d \in Nat, a <= b, b <= c, c <= d,
         NEW S, S = {a, b, c, d}
  PROVE  \E n \in 1..4 : \E s \in [1..n -> S] : Sorted(s, S)
<1>0. S \in SUBSET Nat /\ a \in S /\ b \in S /\ c \in S /\ d \in S
      /\ \A v \in S : v = a \/ v = b \/ v = c \/ v = d
  OBVIOUS
<1>1. CASE a = b /\ b = c /\ c = d
  <2>1. Falls(S, 1, a, a, a, a)
    BY <1>0, <1>1 DEF Falls
  <2> QED
    BY <2>1, ListSorted
<1>2. CASE a < b /\ b = c /\ c = d
  <2>1. Falls(S, 2, b, a, a, a)
    BY <1>0, <1>2 DEF Falls
  <2> QED
    BY <2>1, ListSorted
<1>3. CASE c < d /\ a = b /\ b = c
  <2>1. Falls(S, 2, d, a, a, a)
    BY <1>0, <1>3 DEF Falls
  <2> QED
    BY <2>1, ListSorted
<1>4. CASE a = b /\ b < c /\ c = d
  <2>1. Falls(S, 2, c, a, a, a)
    BY <1>0, <1>4 DEF Falls
  <2> QED
    BY <2>1, ListSorted
<1>5. CASE a = b /\ b < c /\ c < d
  <2>1. Falls(S, 3, d, c, a, a)
    BY <1>0, <1>5 DEF Falls
  <2> QED
    BY <2>1, ListSorted
<1>6. CASE a < b /\ b = c /\ c < d
  <2>1. Falls(S, 3, d, b, a, a)
    BY <1>0, <1>6 DEF Falls
  <2> QED
    BY <2>1, ListSorted
<1>7. CASE a < b /\ b < c /\ c = d
  <2>1. Falls(S, 3, c, b, a, a)
    BY <1>0, <1>7 DEF Falls
  <2> QED
    BY <2>1, ListSorted
<1>8. CASE a < b /\ b < c /\ c < d
  <2>1. Falls(S, 4, d, c, b, a)
    BY <1>0, <1>8 DEF Falls
  <2> QED
    BY <2>1, ListSorted
<1>9. (a = b \/ a < b) /\ (b = c \/ b < c) /\ (c = d \/ c < d)
  OBVIOUS
<1> QED
  BY <1>1, <1>2, <1>3, <1>4, <1>5, <1>6, <1>7, <1>8, <1>9

LEMMA DescendingSorts ==
  ASSUME NEW a \in Nat, NEW b \in Nat, NEW c \in Nat, NEW d \in Nat, a <= b, b <= c, c <= d,
         NEW S, S = {a, b, c, d}
  PROVE  /\ \E n \in 1..4 : Descending(S) \in [1..n -> S]
         /\ Sorted(Descending(S), S)
<1> DEFINE Lists == UNION {[1..n -> S] : n \in 1..4}
<1>1. \E s \in Lists : Sorted(s, S)
  BY SortedExists
<1>2. Descending(S) = CHOOSE s \in Lists : Sorted(s, S)
  BY DEF Descending, Sorted
<1>3. Descending(S) \in Lists /\ Sorted(Descending(S), S)
  <2> HIDE DEF Lists
  <2> QED
    BY <1>1, <1>2
<1> QED
  BY <1>3

\* The ladder of contexts is not empty, falls strictly, and keeps the floor.
LEMMA ContextStepsDescend ==
  ASSUME NEW requested \in Nat, NEW floor \in Nat
  PROVE  /\ \E n \in 1..4 : ContextSteps(requested, floor) \in [1..n -> {x \in Nat : x >= floor}]
         /\ \A i, j \in DOMAIN ContextSteps(requested, floor) :
                i < j => ContextSteps(requested, floor)[i] > ContextSteps(requested, floor)[j]
<1> DEFINE At(q) == Greatest((requested * q) \div 4, floor)
           S == {At(q) : q \in 1..4}
<1>1. S = {At(1), At(2), At(3), At(4)}
  <2> HIDE DEF At
  <2> QED
    OBVIOUS
<1>2. /\ At(1) \in Nat /\ At(2) \in Nat /\ At(3) \in Nat /\ At(4) \in Nat
      /\ At(1) <= At(2) /\ At(2) <= At(3) /\ At(3) <= At(4) /\ At(1) >= floor
  BY DEF Greatest
<1>3. ContextSteps(requested, floor) = Descending(S)
  BY DEF ContextSteps
<1>4. \A x \in S : x \in Nat /\ x >= floor
  <2> HIDE DEF At
  <2> QED
  BY <1>1, <1>2
<1> HIDE DEF At, S
<1>5. /\ \E n \in 1..4 : Descending(S) \in [1..n -> S]
      /\ Sorted(Descending(S), S)
  BY <1>1, <1>2, DescendingSorts
<1>6. PICK n \in 1..4 : Descending(S) \in [1..n -> S]
  BY <1>5
<1>7. Descending(S) \in [1..n -> {x \in Nat : x >= floor}]
  BY <1>4, <1>6
<1> QED
  BY <1>3, <1>5, <1>7 DEF Sorted
\* A share of a number falls with the share.
LEMMA DivMonotone ==
  ASSUME NEW x \in Nat, NEW y \in Nat, NEW n \in Nat \ {0}, x <= y
  PROVE  x \div n <= y \div n /\ x \div n \in Nat
<1>1. x \div n \in Int /\ y \div n \in Int
  OBVIOUS
<1>2. n * (x \div n) <= x /\ y < n * (y \div n) + n
  OBVIOUS
<1>3. x \div n <= y \div n
  BY <1>1, <1>2
<1> QED
  BY <1>1, <1>3

LEMMA ShareMonotone ==
  ASSUME NEW layers \in Nat, NEW few \in Nat, NEW many \in Nat, few <= many, NEW n \in Nat \ {0}
  PROVE  /\ (layers * few) \div n \in Nat
         /\ (layers * few) \div n <= (layers * many) \div n
<1>1. layers * few \in Nat /\ layers * many \in Nat /\ layers * few <= layers * many
  OBVIOUS
<1> QED
  BY <1>1, DivMonotone


\* What the planners are given.
Measured(m) == /\ {m.size, m.requested} \subseteq Nat
               /\ {m.blocks, m.pinnedNgl, m.floor} \subseteq OptNat

LEMMA DefaultNglType ==
  ASSUME NEW hw, hw.free \in Nat, NEW m, Measured(m), NEW reserve \in Nat
  PROVE  DefaultNgl(hw, m, reserve) \in Nat
<1> USE NoneAssumption DEF Measured, OptNat
<1>1. Usable(hw, reserve) \in Nat
  BY DEF Usable, SatSub, Greatest
<1>2. Greatest(m.size, 1) \in Nat \ {0}
  BY DEF Greatest
<1>3. m.blocks # None => (Greatest(m.blocks, 1) * Usable(hw, reserve)) \div Greatest(m.size, 1) \in Nat
  <2> SUFFICES ASSUME m.blocks # None PROVE (Greatest(m.blocks, 1) * Usable(hw, reserve)) \div Greatest(m.size, 1) \in Nat
    OBVIOUS
  <2>1. Greatest(m.blocks, 1) \in Nat
    BY DEF Greatest
  <2> QED
    BY <1>1, <1>2, <2>1, ShareMonotone
<1>4. m.blocks # None => Greatest(m.blocks, 1) \in Nat
  BY DEF Greatest
<1>5. m.pinned => OrElse(m.pinnedNgl, FullOffload) \in Nat
  BY DEF OrElse, FullOffload
<1> QED
  BY <1>1, <1>3, <1>4, <1>5 DEF DefaultNgl, FullOffload, Least

\* The offload falls from rung to rung, and never below one layer once reduced.
LEMMA RungNglFalls ==
  ASSUME NEW hw, hw.free \in Nat, NEW m, Measured(m), NEW reserve \in Nat,
         NEW attempts \in Nat \ {0}, NEW i \in 1..attempts
  PROVE  /\ RungNgl(i, attempts, hw, m, reserve) \in Nat
         /\ i < attempts => RungNgl(i + 1, attempts, hw, m, reserve)
                                <= RungNgl(i, attempts, hw, m, reserve)
<1> DEFINE d == DefaultNgl(hw, m, reserve)
           layers == Greatest(OrElse(m.blocks, d), 1)
           Share(j) == Greatest(attempts - (j - 1), 1)
           Cut(j) == (layers * Share(j)) \div (attempts + 1)
           Reduces(j) == ReducesOffload(j, attempts, hw, m, reserve)
<1>1. d \in Nat
  BY DefaultNglType
<1>2. layers \in Nat
  BY <1>1, NoneAssumption DEF Measured, OptNat, OrElse, Greatest
<1>3. \A j \in 1..(attempts + 1) : RungNgl(j, attempts, hw, m, reserve) =
          IF Reduces(j) THEN Greatest(Least(Cut(j), d - 1), 1) ELSE d
  BY DEF RungNgl
<1>4. Share(i) \in Nat /\ Share(i + 1) \in Nat /\ Share(i + 1) <= Share(i)
  BY DEF Greatest
<1> HIDE DEF layers, Share
<1>5. Cut(i) \in Nat /\ Cut(i + 1) \in Nat /\ Cut(i + 1) <= Cut(i)
  <2>1. attempts + 1 \in Nat \ {0}
    OBVIOUS
  <2>2. \A few, many \in Nat : few <= many =>
            /\ (layers * few) \div (attempts + 1) \in Nat
            /\ (layers * few) \div (attempts + 1) <= (layers * many) \div (attempts + 1)
    BY <1>2, <2>1, ShareMonotone
  <2>3. Cut(i + 1) \in Nat /\ Cut(i + 1) <= Cut(i)
    BY <1>4, <2>2
  <2>4. Cut(i) \in Nat
    BY <1>4, <2>2
  <2> QED
    BY <2>3, <2>4
<1>6. /\ Reduces(i) => d > 1
      /\ Reduces(i + 1) => d > 1
      /\ Reduces(i) /\ i < attempts => Reduces(i + 1)
  <2>1. \A j : Reduces(j) => d > 1
    BY DEF ReducesOffload
  <2>2. Reduces(i) /\ i < attempts => Reduces(i + 1)
    BY DEF ReducesOffload, SatSub, Greatest
  <2> QED
    BY <2>1, <2>2
<1> HIDE DEF d, Cut, Reduces
<1>7. i \in 1..(attempts + 1) /\ i + 1 \in 1..(attempts + 1)
  OBVIOUS
<1> QED
  BY <1>1, <1>3, <1>5, <1>6, <1>7 DEF Greatest, Least

\* One rung after another.
Falling(ladder, floor) ==
    /\ Len(ladder) \in Nat \ {0}
    /\ \A i \in 1..Len(ladder) : ladder[i].ctx \in Nat /\ ladder[i].ctx >= OrElse(floor, 0)
    /\ \A i \in 1..(Len(ladder) - 1) : /\ ladder[i + 1].ctx <= ladder[i].ctx
                                       /\ ladder[i + 1] # ladder[i]

\* For any hardware and any model the planned ladder has a rung, falls in both
\* levers, never repeats a rung and keeps the model's floor (plan_fit,
\* build_fallback_ladder).
THEOREM FitPlansFall ==
  ASSUME NEW hw, hw.free \in Nat, NEW m, Measured(m), NEW reserve \in Nat, NEW max \in Nat
  PROVE  LET p == FitPlans(hw, m, reserve, max)
         IN  /\ Falling(p, m.floor)
             /\ \A i \in 1..Len(p) : p[i].ngl \in Nat
             /\ \A i \in 1..(Len(p) - 1) : p[i + 1].ngl <= p[i].ngl
<1> DEFINE attempts == Greatest(max, 1)
           floor == PlanFloor(m)
           request == PlanRequest(hw, m, reserve)
           steps == ContextSteps(request, floor)
           kvs == Len(KvTypes)
           n == Least(attempts, kvs * Len(steps))
           p == FitPlans(hw, m, reserve, max)
<1> USE NoneAssumption
<1>1. attempts \in Nat \ {0}
  BY DEF Greatest
<1>2. floor \in Nat /\ floor >= OrElse(m.floor, 0)
  BY DEF Measured, OptNat, PlanFloor, PoolingMinimum, ContextMinimum, Greatest, OrElse
<1>3. request \in Nat
  BY DEF Measured, PlanRequest, BalancedContext, Headroom, Usable, SatSub, Greatest, Least
<1>4. PICK k \in 1..4 : steps \in [1..k -> {x \in Nat : x >= floor}]
  <2> HIDE DEF request, floor, steps
  <2> QED
    BY <1>2, <1>3, ContextStepsDescend DEF steps
<1>5. \A i, j \in 1..k : i < j => steps[i] > steps[j]
  <2> HIDE DEF request, floor
  <2> QED
    BY <1>2, <1>3, <1>4, ContextStepsDescend
<1> HIDE DEF attempts, floor, request, steps
<1>6. Len(steps) = k /\ kvs = 2
  BY <1>4 DEF KvTypes
<1>7. n \in Nat \ {0} /\ n <= attempts /\ n <= 2 * k
  BY <1>1, <1>6 DEF Least
<1>8. p = [i \in 1..n |->
             [ctx   |-> steps[((i - 1) \div 2) + 1],
              kv    |-> KvTypes[((i - 1) % 2) + 1],
              ngl   |-> RungNgl(i, attempts, hw, m, reserve),
              batch |-> RungBatch(i, hw, m, reserve)]]
  BY <1>6 DEF FitPlans, attempts, steps, request, floor
<1> HIDE DEF n, p, kvs
<1>9. Len(p) = n
  BY <1>7, <1>8
<1>10. \A i \in 1..n : /\ ((i - 1) \div 2) + 1 \in 1..k
                       /\ p[i].ctx = steps[((i - 1) \div 2) + 1]
                       /\ p[i].kv = KvTypes[((i - 1) % 2) + 1]
                       /\ p[i].ngl = RungNgl(i, attempts, hw, m, reserve)
  BY <1>7, <1>8
<1>11. \A i \in 1..n : /\ p[i].ctx \in Nat /\ p[i].ctx >= OrElse(m.floor, 0)
                       /\ p[i].ngl \in Nat
  <2> TAKE i \in 1..n
  <2>1. i \in 1..attempts
    BY <1>1, <1>7
  <2>2. p[i].ngl \in Nat
    <3>1. RungNgl(i, attempts, hw, m, reserve) \in Nat
      BY <1>1, <2>1, RungNglFalls
    <3> QED
      BY <1>10, <3>1
  <2>3. p[i].ctx \in Nat /\ p[i].ctx >= floor
    BY <1>4, <1>10
  <2>4. OrElse(m.floor, 0) \in Nat
    BY DEF Measured, OptNat, OrElse
  <2> QED
    BY <1>2, <2>2, <2>3, <2>4
<1>12. \A i \in 1..(n - 1) : /\ p[i + 1].ctx <= p[i].ctx
                             /\ p[i + 1].ngl <= p[i].ngl
                             /\ p[i + 1] # p[i]
  <2> TAKE i \in 1..(n - 1)
  <2>1. i \in 1..n /\ i + 1 \in 1..n /\ i \in 1..attempts /\ i < attempts
    BY <1>1, <1>7
  <2>2. p[i + 1].ngl <= p[i].ngl
    <3>1. RungNgl(i + 1, attempts, hw, m, reserve) <= RungNgl(i, attempts, hw, m, reserve)
      BY <1>1, <2>1, RungNglFalls
    <3> QED
      BY <1>10, <2>1, <3>1
  <2>3. p[i + 1].kv # p[i].kv
    <3>0. \A j \in Nat : (j % 2 = 0 /\ (j + 1) % 2 = 1) \/ (j % 2 = 1 /\ (j + 1) % 2 = 0)
      OBVIOUS
    <3>1. i - 1 \in Nat /\ (i - 1) + 1 = (i + 1) - 1
      OBVIOUS
    <3>2. ((i - 1) % 2 = 0 /\ ((i + 1) - 1) % 2 = 1) \/ ((i - 1) % 2 = 1 /\ ((i + 1) - 1) % 2 = 0)
      BY <3>0, <3>1
    <3> QED
      BY <1>10, <2>1, <3>2 DEF KvTypes
  <2>4. p[i + 1].ctx <= p[i].ctx
    <3> DEFINE a == ((i - 1) \div 2) + 1
               b == (((i + 1) - 1) \div 2) + 1
    <3>1. a <= b
      BY <2>1
    <3>2. a \in 1..k /\ b \in 1..k /\ p[i].ctx = steps[a] /\ p[i + 1].ctx = steps[b]
      BY <1>10, <2>1
    <3> HIDE DEF a, b
    <3>3. steps[a] \in Nat /\ steps[b] \in Nat
      BY <1>4, <3>2
    <3> QED
      BY <1>5, <3>1, <3>2, <3>3
  <2> QED
    BY <2>2, <2>3, <2>4
<1> HIDE DEF p
<1>13. /\ Falling(p, m.floor)
       /\ \A i \in 1..Len(p) : p[i].ngl \in Nat
       /\ \A i \in 1..(Len(p) - 1) : p[i + 1].ngl <= p[i].ngl
  BY <1>7, <1>9, <1>11, <1>12 DEF Falling
<1> QED
  BY <1>13 DEF p

\* The ladder of a vLLM model falls too; it knows no floor of the configuration.
THEOREM VllmPlansFall ==
  ASSUME NEW hw, NEW size, NEW requested \in Nat, NEW pinned, NEW reserve, NEW max \in Nat
  PROVE  Falling(VllmPlans(hw, size, requested, pinned, reserve, max), 0)
<1> DEFINE steps == ContextSteps(requested, ContextMinimum)
           n == Least(Len(steps), Greatest(max, 1))
           p == VllmPlans(hw, size, requested, pinned, reserve, max)
<1>1. PICK k \in 1..4 : steps \in [1..k -> {x \in Nat : x >= ContextMinimum}]
  BY ContextStepsDescend DEF ContextMinimum
<1>2. \A i, j \in 1..k : i < j => steps[i] > steps[j]
  BY <1>1, ContextStepsDescend DEF ContextMinimum
<1>3. p = [i \in 1..n |-> [ctx |-> steps[i], tp |-> TensorParallel(hw, size, pinned, reserve)]]
  BY DEF VllmPlans
<1> HIDE DEF steps
<1>4. n \in Nat \ {0} /\ n <= k
  BY <1>1 DEF Least, Greatest
<1> HIDE DEF n, p
<1>5. Len(p) = n /\ \A i \in 1..n : p[i].ctx = steps[i] /\ steps[i] \in Nat /\ steps[i] >= 0
  BY <1>1, <1>3, <1>4 DEF ContextMinimum
<1>6. \A i \in 1..(n - 1) : p[i + 1].ctx <= p[i].ctx /\ p[i + 1] # p[i]
  <2> TAKE i \in 1..(n - 1)
  <2>1. i \in 1..n /\ i + 1 \in 1..n /\ i \in 1..k /\ i + 1 \in 1..k /\ i < i + 1
    BY <1>4
  <2>2. p[i].ctx > p[i + 1].ctx
    BY <1>2, <1>5, <2>1
  <2> QED
    BY <1>5, <2>1, <2>2
<1>7. Falling(p, 0)
  BY <1>4, <1>5, <1>6, NoneAssumption DEF Falling, OrElse
<1> QED
  BY <1>7 DEF p
-----------------------------------------------------------------------------
(* The retries of a load go down *)

\* Every number a reduction starts from is one, and a ladder under trial falls.
Sized(args) == args.ctx \in Nat /\ (mode # "vllm" => args.ngl \in Nat)

LadderInv ==
    /\ Falling(plans, IF Planned THEN live.floor ELSE 0)
    /\ Planned => /\ \A i \in 1..Len(plans) : plans[i].ngl \in Nat
                  /\ \A i \in 1..(Len(plans) - 1) : plans[i + 1].ngl <= plans[i].ngl
    /\ rung \in 0..Len(plans)
    /\ ~Planned \/ pc \in {"flush", "persist"} => rung > 0

DescentInv ==
    /\ blocks \in OptNat /\ tries \in Nat
    /\ entry.ctx \in OptNat /\ entry.floor \in OptNat /\ entry.ngl \in OptNat
    /\ Sized(live.args) /\ live.floor \in OptNat
    /\ pending # None => Sized(pending.args) /\ pending.floor \in OptNat
    /\ runtime # None => Sized(runtime)
    /\ store # None => store.ctx \in Nat /\ store.ngl \in Nat
    /\ mode # "legacy" /\ pc \notin {"idle", "up"} => LadderInv

LEMMA ExpandSized ==
  ASSUME NEW e, e.ctx \in OptNat, e.floor \in OptNat, e.ngl \in OptNat, NEW port
  PROVE  Sized(Expand(e, port).args) /\ Expand(e, port).floor = e.floor
<1> USE NoneAssumption, BoundsAssumption DEF OptNat
<1> DEFINE guess == SuggestContext(e.ctx, e.floor, Pooling, FALSE, SizeMb, VramGb, DefaultContext)
           asked == OrElse(e.ctx, OrElse(e.floor, DefaultContext))
           args  == Expand(e, port).args
<1>1. guess \in Nat /\ asked \in Nat
  BY DEF SuggestContext, Greatest, Least, OrElse
<1>2. OrElse(e.ngl, FullOffload) \in Nat
  BY DEF OrElse, FullOffload
<1>3. /\ args.ctx = IF mode = "vllm" THEN asked ELSE guess
      /\ mode # "vllm" => args.ngl = OrElse(e.ngl, FullOffload)
      /\ Expand(e, port).floor = e.floor
  BY DEF Expand
<1> HIDE DEF guess, asked, args
<1>4. Sized(args)
  BY <1>1, <1>2, <1>3 DEF Sized
<1> QED
  BY <1>3, <1>4 DEF args

LEMMA EffectiveSized == DescentInv => Sized(EffectiveArgs)
  BY DEF DescentInv, EffectiveArgs, OrElse

\* One legacy recovery takes context or layers away, and keeps the floor.
LEMMA RecoveryDescends ==
  ASSUME NEW args, IsArgs(args), args.ctx \in Nat, args.ngl \in Nat,
         live.floor \in OptNat, blocks \in OptNat, NEW kind,
         NEW less, less = Recovery(kind, args), less # None
  PROVE  /\ less.ctx \in Nat /\ less.ngl \in Nat
         /\ \/ less.ctx < args.ctx /\ Layers(less) = Layers(args)
            \/ Layers(less) < Layers(args) /\ less.ctx = args.ctx
         /\ less.ctx # args.ctx => less.ctx >= OrElse(live.floor, 0)
<1> USE NoneAssumption, BoundsAssumption DEF OptNat, IsArgs
<1>1. ASSUME less = ReducedContext(args)
      PROVE  /\ less.ctx \in Nat /\ less.ctx < args.ctx /\ less.ngl = args.ngl
             /\ less.ctx >= OrElse(live.floor, 0)
  <2> DEFINE f == Greatest(ContextFallbackMin, OrElse(live.floor, 0))
             next == NextLowerContext(args.ctx, f)
  <2>1. f \in Nat /\ f >= OrElse(live.floor, 0)
    BY DEF Greatest, OrElse
  <2>2. next # None
    BY <1>1 DEF ReducedContext
  <2>3. next \in Nat /\ next >= f /\ next < args.ctx
    BY <2>1, <2>2 DEF NextLowerContext, Greatest
  <2>4. less = [args EXCEPT !.ctx = next]
    BY <1>1 DEF ReducedContext
  <2>5. OrElse(live.floor, 0) \in Nat
    BY DEF OrElse
  <2> HIDE DEF f, next
  <2> QED
    BY <2>1, <2>3, <2>4, <2>5
<1>2. ASSUME less = ReducedNgl(args)
      PROVE  less.ngl \in Nat /\ less.ctx = args.ctx /\ Layers(less) < Layers(args)
  <2> DEFINE next == NextLowerNgl(args.ngl, blocks)
  <2>1. next # None
    BY <1>2 DEF ReducedNgl
  <2>2. less = [args EXCEPT !.ngl = next]
    BY <1>2 DEF ReducedNgl
  <2>3. /\ next \in Nat /\ next < args.ngl
        /\ blocks # None => next < blocks
    BY <2>1 DEF NextLowerNgl, EffectiveLayers, Least, Greatest, SatSub, OrElse
  <2> HIDE DEF next
  <2>4. less.ngl = next /\ less.ctx = args.ctx
    BY <2>2
  <2> QED
    BY <2>3, <2>4 DEF Layers, OrElse, Least
<1>3. less = ReducedContext(args) \/ less = ReducedNgl(args)
  BY DEF Recovery, OrElse
<1> QED
  BY <1>1, <1>2, <1>3 DEF Layers

LEMMA InitDescent == Init => DescentInv
<1> SUFFICES ASSUME Init PROVE DescentInv
  OBVIOUS
<1>1. entry.ctx \in OptNat /\ entry.floor \in OptNat /\ entry.ngl \in OptNat /\ blocks \in OptNat
  BY BoundsAssumption DEF Init, OptNat
<1>2. Sized(live.args) /\ live.floor = entry.floor
  BY <1>1, ExpandSized DEF Init
<1> QED
  BY <1>1, <1>2 DEF Init, DescentInv

LEMMA StartsDescent ==
  ASSUME ProvenInv, DescentInv, NEW free \in FreeVram,
         StartLegacy(free) \/ StartFit(free) \/ StartVllm(free)
  PROVE  DescentInv'
<1> USE NoneAssumption, BoundsAssumption
<1>1. CASE StartLegacy(free)
  <2>1. Sized(EffectiveArgs) /\ IsArgs(EffectiveArgs)
    BY EffectiveSized, EffectiveShape DEF ProvenInv
  <2>2. SuggestNgl(free, SizeMb, blocks) \in Nat
    BY DEF DescentInv, OptNat, SuggestNgl, Greatest, Least, OrElse, FullOffload
  <2>3. runtime' # None => Sized(runtime')
    BY <1>1, <2>1, <2>2 DEF StartLegacy, ApplyAutoNgl, Sized, IsArgs, DescentInv, Begin, fixed
  <2> QED
    BY <1>1, <2>3 DEF StartLegacy, Begin, fixed, disk, registry, DescentInv, Sized
<1>2. CASE StartFit(free)
  <2> DEFINE m == [size |-> SizeMb, blocks |-> blocks, pooling |-> Pooling,
                   requested |-> EffectiveArgs.ctx, pinned |-> live.pinned,
                   pinnedNgl |-> EffectiveArgs.ngl, floor |-> live.floor]
             hw == Hardware(free)
             reserve == Reserve(free)
  <2>1. mode # "vllm" /\ mode # "legacy" /\ Planned
    BY <1>2 DEF StartFit, Planned
  <2>2. Sized(EffectiveArgs)
    BY EffectiveSized
  <2>3. Measured(m) /\ m.floor = live.floor
    BY <2>1, <2>2 DEF Measured, Sized, DescentInv, OptNat
  <2>4. hw.free \in Nat /\ reserve \in Nat
    BY DEF Hardware, Reserve, Greatest
  <2>5. plans' = FitPlans(hw, m, reserve, MaxAttempts) /\ rung' \in {0, 1}
    BY <1>2 DEF StartFit
  <2> HIDE DEF m, hw, reserve
  <2>6. LET p == FitPlans(hw, m, reserve, MaxAttempts)
        IN  /\ Falling(p, m.floor)
            /\ \A i \in 1..Len(p) : p[i].ngl \in Nat
            /\ \A i \in 1..(Len(p) - 1) : p[i + 1].ngl <= p[i].ngl
    BY <2>3, <2>4, FitPlansFall
  <2>7. Len(plans') \in Nat \ {0}
    BY <2>5, <2>6 DEF Falling
  <2>8. UNCHANGED <<mode, live>> /\ pc' = "attempt"
    BY <1>2 DEF StartFit, Begin, fixed, registry
  <2>9. LadderInv'
    <3>1. Falling(plans', IF Planned' THEN live'.floor ELSE 0)
      BY <2>1, <2>3, <2>5, <2>6, <2>8 DEF Planned
    <3>2. /\ \A i \in 1..Len(plans') : plans'[i].ngl \in Nat
          /\ \A i \in 1..(Len(plans') - 1) : plans'[i + 1].ngl <= plans'[i].ngl
      BY <2>5, <2>6
    <3>3. rung' \in 0..Len(plans')
      BY <2>5, <2>7
    <3> QED
      BY <2>1, <2>8, <3>1, <3>2, <3>3 DEF LadderInv, Planned
  <2> QED
    BY <1>2, <2>9 DEF StartFit, Begin, fixed, disk, registry, DescentInv, Sized
<1>3. CASE StartVllm(free)
  <2>1. mode = "vllm" /\ ~Planned
    BY <1>3 DEF StartVllm, Planned
  <2>2. EffectiveArgs.ctx \in Nat
    BY EffectiveSized DEF Sized
  <2>3. plans' = VllmPlans(Hardware(free), SizeMb, EffectiveArgs.ctx, None, ReserveMb, MaxAttempts)
        /\ rung' = 1
    BY <1>3 DEF StartVllm
  <2>4. Falling(plans', 0)
    BY <2>2, <2>3, VllmPlansFall
  <2>5. UNCHANGED <<mode, live>> /\ pc' = "attempt"
    BY <1>3 DEF StartVllm, Begin, fixed, registry
  <2>6. LadderInv'
    <3>1. Falling(plans', IF Planned' THEN live'.floor ELSE 0)
      BY <2>1, <2>4, <2>5 DEF Planned
    <3>2. rung' \in 0..Len(plans') /\ rung' > 0
      BY <2>3, <2>4 DEF Falling
    <3> QED
      BY <2>1, <2>5, <3>1, <3>2 DEF LadderInv, Planned
  <2> QED
    BY <1>3, <2>6 DEF StartVllm, Begin, fixed, disk, registry, DescentInv, Sized
<1> QED
  BY <1>1, <1>2, <1>3

\* The plan under trial is one of the ladder or the cached one.
LEMMA PlanSized ==
  ASSUME ProvenInv, DescentInv, pc = "attempt", Planned
  PROVE  Plan.ctx \in Nat /\ Plan.ngl \in Nat
<1>1. LadderInv
  BY DEF DescentInv, Planned
<1>2. rung = 0 => store # None
  BY DEF ProvenInv, PlanInv
<1>3. rung # 0 => rung \in 1..Len(plans)
  BY <1>1 DEF LadderInv, Falling
<1> QED
  BY <1>1, <1>2, <1>3 DEF Plan, LadderInv, Falling, DescentInv

LEMMA AttemptsDescent ==
  ASSUME ProvenInv, DescentInv, AttemptLegacy \/ AttemptPlan \/ AttemptVllm
  PROVE  DescentInv'
<1> USE DEF fixed, disk, registry, load
<1>1. CASE AttemptLegacy
  <2>1. runtime' # None => Sized(runtime')
    BY <1>1, EffectiveSized DEF AttemptLegacy, Recreate, DescentInv, Sized
  <2> QED
    BY <1>1, <2>1 DEF AttemptLegacy, DescentInv, Sized
<1>2. CASE AttemptPlan
  <2>1. IsArgs(base) /\ Plan.ctx \in Nat /\ Plan.ngl \in Nat
    BY <1>2, PlanSized DEF AttemptPlan, Planned, ProvenInv, ShapeInv
  <2>2. runtime'.ctx \in Nat /\ runtime'.ngl \in Nat
    BY <1>2, <2>1, ApplyFields DEF AttemptPlan, Recreate
  <2>3. pc = "attempt" /\ pc' = "boot"
        /\ UNCHANGED <<mode, blocks, entry, store, live, pending, plans, rung, tries>>
    BY <1>2 DEF AttemptPlan
  <2> QED
    BY <2>2, <2>3 DEF DescentInv, Sized, LadderInv, Planned
<1>3. CASE AttemptVllm
  <2>1. IsArgs(base) /\ mode = "vllm" /\ LadderInv
    BY <1>3 DEF AttemptVllm, Planned, ProvenInv, ShapeInv, DescentInv
  <2>2. rung \in 1..Len(plans)
    BY <2>1 DEF LadderInv, Falling, Planned
  <2>3. Plan.ctx \in Nat
    BY <2>1, <2>2 DEF Plan, LadderInv, Falling
  <2>4. runtime' = [base EXCEPT !.ctx = Plan.ctx]
    BY <1>3 DEF AttemptVllm, Recreate, ApplyVllm
  <2>5. runtime'.ctx \in Nat
    BY <2>1, <2>3, <2>4 DEF IsArgs
  <2>6. pc = "attempt" /\ pc' = "boot"
        /\ UNCHANGED <<mode, blocks, entry, store, live, pending, plans, rung, tries>>
    BY <1>3 DEF AttemptVllm
  <2> QED
    BY <2>1, <2>5, <2>6 DEF DescentInv, Sized, LadderInv, Planned
<1> QED
  BY <1>1, <1>2, <1>3

LEMMA FailuresDescent ==
  ASSUME ProvenInv, DescentInv, NEW seen,
         \/ RetryLegacy(seen) \/ GiveUpLegacy(seen) \/ CachedFails(seen)
         \/ PlannedFails(seen) \/ VllmFails(seen)
  PROVE  DescentInv'
<1> USE DEF fixed, disk, registry, load
<1>1. CASE RetryLegacy(seen)
  <2>1. /\ mode = "legacy" /\ Sized(EffectiveArgs) /\ IsArgs(EffectiveArgs)
        /\ runtime' = Recovery(Classify(seen), EffectiveArgs) /\ runtime' # None
    BY <1>1, EffectiveSized, EffectiveShape DEF RetryLegacy, ProvenInv
  <2>2. runtime'.ctx \in Nat /\ runtime'.ngl \in Nat
    BY <2>1, RecoveryDescends DEF Sized, DescentInv
  <2> QED
    BY <1>1, <2>1, <2>2 DEF RetryLegacy, DescentInv, Sized
<1>2. CASE GiveUpLegacy(seen)
  BY <1>2 DEF GiveUpLegacy, DescentInv, Sized
<1>3. CASE CachedFails(seen) \/ PlannedFails(seen) \/ VllmFails(seen)
  <2>1. /\ mode # "legacy" /\ pc = "boot" /\ pc' \in {"attempt", "idle"}
        /\ UNCHANGED <<mode, blocks, entry, store, live, pending, runtime, plans, tries>>
        /\ pc' = "attempt" => \/ rung = 0 /\ rung' = 1
                              \/ rung < Len(plans) /\ rung' = rung + 1
    BY <1>3 DEF CachedFails, PlannedFails, VllmFails, NextRung, NoRungLeft, Planned, Fails
  <2>2. LadderInv
    BY <2>1 DEF DescentInv
  <2>3. pc' = "attempt" => LadderInv'
    <3>1. Len(plans) \in Nat \ {0} /\ rung \in 0..Len(plans)
      BY <2>2 DEF LadderInv, Falling
    <3>2. pc' = "attempt" => rung' \in 0..Len(plans) /\ rung' > 0
      BY <2>1, <3>1
    <3> QED
      BY <2>1, <2>2, <3>2 DEF LadderInv, Planned
  <2> QED
    BY <2>1, <2>3 DEF DescentInv, Sized
<1> QED
  BY <1>1, <1>2, <1>3

LEMMA HealthyDescent ==
  ASSUME ProvenInv, DescentInv, HealthyLegacy \/ HealthyCached \/ HealthyPlanned \/ HealthyVllm
  PROVE  DescentInv'
<1>1. /\ UNCHANGED <<mode, blocks, entry, store, live, pending, runtime, plans, rung, tries>>
      /\ pc = "boot" /\ pc' \in {"flush", "persist", "up"}
      /\ mode # "legacy" /\ pc' # "up" => rung # 0
  BY DEF HealthyLegacy, HealthyCached, HealthyPlanned, HealthyVllm, Ready, fixed, disk, load
<1>2. mode # "legacy" => LadderInv
  BY <1>1 DEF DescentInv
<1>3. mode # "legacy" /\ pc' # "up" => LadderInv'
  BY <1>1, <1>2 DEF LadderInv, Planned, Falling
<1> QED
  BY <1>1, <1>3 DEF DescentInv, Sized

LEMMA WritesDescent ==
  ASSUME ProvenInv, DescentInv, Flush \/ PersistFit \/ PersistReduced
  PROVE  DescentInv'
<1> USE DEF fixed, disk, registry, load
<1>1. CASE Flush
  <2>1. Planned /\ mode # "legacy" /\ LadderInv
    BY <1>1 DEF Flush, ProvenInv, PlanInv, Planned, DescentInv
  <2>2. rung \in 1..Len(plans)
    BY <1>1, <2>1 DEF Flush, LadderInv, Falling
  <2>3. store' = store \/ store' = plans[rung]
    BY <1>1 DEF Flush, Put
  <2>4. store' # None => store'.ctx \in Nat /\ store'.ngl \in Nat
    BY <2>1, <2>2, <2>3 DEF LadderInv, Falling, DescentInv
  <2>5. LadderInv'
    BY <1>1, <2>1, <2>2 DEF Flush, LadderInv, Planned
  <2> QED
    BY <1>1, <2>4, <2>5 DEF Flush, DescentInv, Sized
<1>2. CASE PersistFit
  <2>1. Planned /\ mode # "legacy" /\ LadderInv /\ pc = "persist" /\ pc' = "up"
    BY <1>2 DEF PersistFit, WriteEntry, Planned, DescentInv
  <2>2. rung \in 1..Len(plans)
    BY <2>1 DEF LadderInv, Falling
  <2>3. plans[rung].ctx \in OptNat /\ plans[rung].ngl \in OptNat
    BY <2>1, <2>2 DEF LadderInv, Falling, OptNat
  <2>4. \/ entry' = [entry EXCEPT !.ctx = plans[rung].ctx, !.ngl = plans[rung].ngl]
        \/ entry' = entry
    BY <1>2 DEF PersistFit, WriteEntry
  <2>5. entry'.ctx \in OptNat /\ entry'.floor \in OptNat /\ entry'.ngl \in OptNat
    BY <2>3, <2>4 DEF ProvenInv, ShapeInv, DescentInv
  <2> QED
    BY <1>2, <2>1, <2>5 DEF PersistFit, WriteEntry, DescentInv, Sized
<1>3. CASE PersistReduced
  <2>1. mode = "legacy" /\ EffectiveArgs.ctx \in OptNat /\ EffectiveArgs.ngl \in OptNat
    BY <1>3, EffectiveSized DEF PersistReduced, Sized, OptNat
  <2>2. \/ entry' = [entry EXCEPT !.ctx = EffectiveArgs.ctx, !.ngl = EffectiveArgs.ngl]
        \/ entry' = entry
    BY <1>3 DEF PersistReduced, WriteEntry
  <2>3. entry'.ctx \in OptNat /\ entry'.floor \in OptNat /\ entry'.ngl \in OptNat
    BY <2>1, <2>2 DEF ProvenInv, ShapeInv, DescentInv
  <2> QED
    BY <1>3, <2>1, <2>3 DEF PersistReduced, WriteEntry, DescentInv, Sized
<1> QED
  BY <1>1, <1>2, <1>3

LEMMA RegistryDescent ==
  ASSUME DescentInv, Unload \/ EditEntry \/ RefreshRead \/ RefreshInstall \/ Restart
  PROVE  DescentInv'
<1> USE DEF fixed, disk, registry, load
<1>0. \A port \in Ports : /\ Sized(Expand(entry, port).args)
                          /\ Expand(entry, port).floor \in OptNat
  BY ExpandSized DEF DescentInv
<1>1. CASE Unload
  BY <1>1 DEF Unload, DescentInv, Sized
<1>2. CASE EditEntry
  <2>1. entry'.ctx \in OptNat /\ entry'.floor \in OptNat /\ entry'.ngl \in OptNat
    BY <1>2, BoundsAssumption DEF EditEntry, OptNat
  <2> QED
    BY <1>2, <2>1 DEF EditEntry, DescentInv, Sized, LadderInv, Planned
<1>3. CASE RefreshRead
  BY <1>0, <1>3 DEF RefreshRead, DescentInv, Sized, LadderInv, Planned
<1>4. CASE RefreshInstall
  BY <1>4 DEF RefreshInstall, DescentInv, Sized
<1>5. CASE Restart
  BY <1>0, <1>5 DEF Restart, DescentInv, Sized
<1> QED
  BY <1>1, <1>2, <1>3, <1>4, <1>5

LEMMA StepDescent == ProvenInv /\ DescentInv /\ [Next]_vars => DescentInv'
<1> SUFFICES ASSUME ProvenInv, DescentInv, [Next]_vars PROVE DescentInv'
  OBVIOUS
<1>1. CASE UNCHANGED vars
  BY <1>1 DEF vars, DescentInv, Sized, LadderInv, Planned
<1> QED
  BY <1>1, StartsDescent, AttemptsDescent, FailuresDescent, HealthyDescent, WritesDescent,
     RegistryDescent
     DEF Next, Start, LoadStep, Attempt, AttemptEnds

\* What the two action properties say of one step.
Shrinks ==
    /\ tries' = tries + 1 =>
         \/ runtime'.ctx < runtime.ctx /\ Layers(runtime') = Layers(runtime)
         \/ Layers(runtime') < Layers(runtime) /\ runtime'.ctx = runtime.ctx
    /\ rung > 0 /\ rung' = rung + 1 =>
         /\ plans[rung'].ctx <= plans[rung].ctx
         /\ Planned => plans[rung'].ngl <= plans[rung].ngl
         /\ plans[rung'] # plans[rung]

KeepsFloor ==
    mode # "vllm" =>
       /\ tries' > tries /\ runtime'.ctx # runtime.ctx => runtime'.ctx >= OrElse(live.floor, 0)
       /\ rung > 0 /\ rung' > rung => plans[rung'].ctx >= OrElse(live.floor, 0)

LEMMA StepShrinks == ProvenInv /\ DescentInv /\ [Next]_vars => Shrinks /\ KeepsFloor
<1> SUFFICES ASSUME ProvenInv, DescentInv, [Next]_vars PROVE Shrinks /\ KeepsFloor
  OBVIOUS
<1>0. tries \in Nat /\ rung \in Nat
  BY DEF ProvenInv, PlanInv, DescentInv
<1>1. ASSUME NEW seen \in Symptoms, RetryLegacy(seen) PROVE Shrinks /\ KeepsFloor
  <2>1. /\ mode = "legacy"
        /\ runtime' = Recovery(Classify(seen), EffectiveArgs) /\ runtime' # None
        /\ UNCHANGED <<rung, blocks, live>> /\ tries' = tries + 1
    BY <1>1 DEF RetryLegacy, Fails, fixed, registry
  <2>2. runtime # None /\ EffectiveArgs = runtime
    BY <1>1 DEF RetryLegacy, Fails, ProvenInv, LegacyInv, EffectiveArgs, OrElse
  <2>3. IsArgs(runtime) /\ runtime.ctx \in Nat /\ runtime.ngl \in Nat
    BY <1>1, <2>2 DEF RetryLegacy, ProvenInv, ShapeInv, DescentInv, Sized
  <2>4. live.floor \in OptNat /\ blocks \in OptNat
    BY DEF DescentInv
  <2>5. /\ \/ runtime'.ctx < runtime.ctx /\ Layers(runtime') = Layers(runtime)
           \/ Layers(runtime') < Layers(runtime) /\ runtime'.ctx = runtime.ctx
        /\ runtime'.ctx # runtime.ctx => runtime'.ctx >= OrElse(live.floor, 0)
    BY <2>1, <2>2, <2>3, <2>4, RecoveryDescends
  <2> QED
    BY <1>0, <2>1, <2>5 DEF Shrinks, KeepsFloor
<1>2. ASSUME NEW seen \in Symptoms, NextRung(seen), Planned \/ mode = "vllm"
      PROVE  Shrinks /\ KeepsFloor
  <2>1. /\ mode # "legacy" /\ pc = "boot" /\ rung # 0 /\ rung < Len(plans) /\ rung' = rung + 1
        /\ UNCHANGED <<plans, tries, live, mode>>
    BY <1>2 DEF NextRung, Fails, Planned, fixed, registry
  <2>2. LadderInv
    BY <2>1 DEF DescentInv
  <2>3. rung \in 1..(Len(plans) - 1) /\ rung' \in 1..Len(plans)
    BY <1>0, <2>1, <2>2 DEF LadderInv, Falling
  <2>4. /\ plans[rung'].ctx <= plans[rung].ctx /\ plans[rung'] # plans[rung]
        /\ Planned => /\ plans[rung'].ngl <= plans[rung].ngl
                      /\ plans[rung'].ctx >= OrElse(live.floor, 0)
    BY <2>1, <2>2, <2>3 DEF LadderInv, Falling
  <2> QED
    BY <1>0, <1>2, <2>1, <2>4 DEF Shrinks, KeepsFloor
<1>3. ASSUME tries' \in {tries, 0}, rung' \in {rung, 0, 1}
      PROVE  Shrinks /\ KeepsFloor
  BY <1>0, <1>3 DEF Shrinks, KeepsFloor
<1>4. CASE Start
  BY <1>3, <1>4 DEF Start, StartLegacy, StartFit, StartVllm
<1>5. CASE Attempt \/ Flush \/ PersistFit \/ PersistReduced
  BY <1>3, <1>5 DEF Attempt, AttemptLegacy, AttemptPlan, AttemptVllm, Flush, PersistFit,
                    PersistReduced, WriteEntry, load
<1>6. CASE HealthyLegacy \/ HealthyCached \/ HealthyPlanned \/ HealthyVllm
  BY <1>3, <1>6 DEF HealthyLegacy, HealthyCached, HealthyPlanned, HealthyVllm, Ready, load
<1>7. ASSUME NEW seen \in Symptoms, GiveUpLegacy(seen) \/ CachedFails(seen) \/ NoRungLeft(seen)
      PROVE  Shrinks /\ KeepsFloor
  BY <1>3, <1>7 DEF GiveUpLegacy, CachedFails, NoRungLeft, load
<1>8. CASE Unload \/ EditEntry \/ RefreshRead \/ RefreshInstall \/ Restart
  BY <1>3, <1>8 DEF Unload, EditEntry, RefreshRead, RefreshInstall, Restart, load
<1>9. CASE UNCHANGED vars
  BY <1>3, <1>9 DEF vars
<1> QED
  BY <1>1, <1>2, <1>4, <1>5, <1>6, <1>7, <1>8, <1>9
     DEF Next, LoadStep, AttemptEnds, PlannedFails, VllmFails

\* Whatever the memory, the model, the ladder's length and the failures: a legacy
\* retry takes context or layers away, a rung never asks for more than the one
\* before and differs from it, and no retry of llama.cpp goes below the floor of
\* the model's configuration.
THEOREM RetriesDescendCorrect == Spec => RetriesDescend
<1>1. Init => ProvenInv /\ DescentInv
  BY InitProven, InitDescent
<1>2. ProvenInv /\ DescentInv /\ [Next]_vars => (ProvenInv /\ DescentInv)'
  BY StepProven, StepDescent
<1>3. ProvenInv /\ DescentInv /\ [Next]_vars => [Shrinks]_vars /\ [KeepsFloor]_vars
  BY StepShrinks
<1>4. Spec => [][Shrinks]_vars /\ [][KeepsFloor]_vars
  BY <1>1, <1>2, <1>3, PTL DEF Spec
<1> QED
  BY <1>4 DEF RetriesDescend, RetryShrinks, ReductionKeepsFloor, Shrinks, KeepsFloor
=============================================================================
