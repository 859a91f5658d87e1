------------------------------ MODULE Scheduler ------------------------------
(***************************************************************************)
(* The single-slot model scheduler of src/scheduler/mod.rs and its          *)
(* callers: request handlers, the priority watcher, the memory watcher and  *)
(* the registry refresh all share one slot behind `load_lock`.              *)
(*                                                                          *)
(* A step is what runs between two awaits that another task can observe.    *)
(* Covered: the fast path and its unlocked re-checks, the lock, preflight,  *)
(* drain, unload, load with retries, rollback, both switch strategies,      *)
(* request tracking, watcher gates, registry replacement, backend crashes   *)
(* and health loss, failed unloads, and callers that disconnect mid-call.   *)
(* Abstracted: time (a deadline may pass whenever its wait is not over),    *)
(* arguments and fit plans (a load attempt may be retried MaxRetries times),*)
(* metrics, the last-switch report and the page-cache prewarm.              *)
(***************************************************************************)
EXTENDS Naturals, FiniteSets

CONSTANTS
    Model,              \* model ids a registry may name
    Handler,            \* concurrently served client connections
    PriorityWatcher, MemoryWatcher, Refresher,  \* the background tasks
    NoModel, NoTask,
    Strategy,           \* Config::switch_strategy
    Priority,           \* the id with priority = true, or NoModel
    Registry,           \* the registries a refresh may install
    Damaged,            \* models whose GGUF fails the integrity check
    MaxRetries,         \* bound on the retries of one load
    MemoryPressure,     \* the host may report critical memory use
    UnloadCanFail,      \* unload() may fail: SIGKILL or the wait for it errs
    ClientsDisconnect   \* the server may drop a handler between awaits

Loader == Handler \cup {PriorityWatcher}
Task   == Loader \cup {MemoryWatcher, Refresher}

ASSUME TaskAssumption ==
    /\ PriorityWatcher \notin Handler
    /\ MemoryWatcher \notin Loader
    /\ Refresher \notin Loader
    /\ MemoryWatcher # Refresher
    /\ NoTask \notin Task
    /\ IsFiniteSet(Handler)
ASSUME ModelAssumption ==
    /\ NoModel \notin Model
    /\ Priority \in Model \cup {NoModel}
    /\ Damaged \subseteq Model
    /\ Registry \subseteq SUBSET Model
    /\ IsFiniteSet(Model)
ASSUME ConfigAssumption ==
    /\ Strategy \in {"unload_first", "load_first"}
    /\ MaxRetries \in Nat
    /\ MemoryPressure \in BOOLEAN
    /\ UnloadCanFail \in BOOLEAN
    /\ ClientsDisconnect \in BOOLEAN

VARIABLES
    \* SchedulerInner
    lock,         \* holder of load_lock
    loaded,       \* the slot
    models,       \* ids in the live registry
    backends,     \* ids with an entry in the backend map
    active,       \* tracked requests per model
    recent,       \* models touched within idle_timeout
    userSwitched, \* last_user_switch_at is under 30 s old
    cooldown,     \* last_priority_load_failed_at is within the cooldown
    \* backend processes
    proc,         \* the child owned by each model's backend
    stuck,        \* children whose unload failed; nothing owns them
    \* one record of progress per task
    pc, stage, want, prev, tries,
    incoming      \* the registry the refresh is installing

slotVars  == <<lock, loaded, models, backends>>
gateVars  == <<recent, userSwitched, cooldown>>
procVars  == <<proc, stuck>>
taskVars  == <<pc, stage, want, prev, tries>>
vars == <<slotVars, active, gateVars, procVars, taskVars, incoming>>

-----------------------------------------------------------------------------
(* Types *)

ProcState == {"none", "starting", "ready", "sick"}
Outcome   == {"notfound", "busy", "failed"}
PC == {"idle", "slot", "lookup", "probe", "queue", "plan", "decide", "drain",
       "stop", "stopping", "clear", "load", "boot", "giveup",
       "drainold", "retire", "mark", "install", "handed", "serving"} \cup Outcome
\* Where a load call stands: ensure_loaded, load_model_id before and under the
\* lock, and the reload of the previous model.
Stage == {"ensure", "unlocked", "locked", "rollback"}

TypeOK ==
    /\ lock \in Task \cup {NoTask}
    /\ loaded \in Model \cup {NoModel}
    /\ models \in SUBSET Model
    /\ backends \in SUBSET Model
    /\ active \in [Model -> Nat]
    /\ recent \in SUBSET Model
    /\ userSwitched \in BOOLEAN
    /\ cooldown \in BOOLEAN
    /\ proc \in [Model -> ProcState]
    /\ stuck \in SUBSET Model
    /\ pc \in [Task -> PC]
    /\ stage \in [Task -> Stage]
    /\ want \in [Task -> Model \cup {NoModel}]
    /\ prev \in [Task -> Model \cup {NoModel}]
    /\ tries \in [Task -> 0..MaxRetries]
    /\ incoming \in SUBSET Model

Init ==
    /\ lock = NoTask
    /\ loaded = NoModel
    /\ models = Model
    /\ backends = {}
    /\ active = [m \in Model |-> 0]
    /\ recent = {}
    /\ userSwitched = FALSE
    /\ cooldown = FALSE
    /\ proc = [m \in Model |-> "none"]
    /\ stuck = {}
    /\ pc = [p \in Task |-> "idle"]
    /\ stage = [p \in Task |-> "ensure"]
    /\ want = [p \in Task |-> NoModel]
    /\ prev = [p \in Task |-> NoModel]
    /\ tries = [p \in Task |-> 0]
    /\ incoming = {}

-----------------------------------------------------------------------------
(* Helpers *)

HasActiveRequests == \E m \in Model : active[m] > 0

\* unload_model_no_drain holds the map's write lock until the child has exited.
MapLocked == \E p \in Task : pc[p] = "stopping"

\* The model a load attempt of p is for.
Goal(p) == IF stage[p] = "rollback" THEN prev[p] ELSE want[p]

Goto(p, label) == pc' = [pc EXCEPT ![p] = label]

\* The call returns: its guard on load_lock, if any, is dropped.
Return(p, result) ==
    /\ pc' = [pc EXCEPT ![p] = IF p \in Loader THEN result ELSE "idle"]
    /\ stage' = [stage EXCEPT ![p] = "ensure"]
    /\ prev' = [prev EXCEPT ![p] = NoModel]
    /\ tries' = [tries EXCEPT ![p] = 0]
    /\ lock' = IF lock = p THEN NoTask ELSE lock
    /\ UNCHANGED want

\* Ok(backend): a handler goes on with it, the priority watcher drops it.
Deliver(p) == Return(p, IF p \in Handler THEN "handed" ELSE "idle")

\* last_activity and last_user_switch_at are read by the priority watcher alone.
Touch(m) == recent' = IF Priority = NoModel THEN recent ELSE recent \cup {m}
NoteSwitch(p) ==
    userSwitched' = (userSwitched \/ (p \in Handler /\ Priority # NoModel))

\* drain_model is over.
DrainedUnchecked(m) == TRUE     \* mutant: the wait is skipped
Drained(m) == active[m] = 0

\* mutant: the target is loaded first whatever the strategy.
AfterDrainLoads(p) == IF p = MemoryWatcher THEN "retire" ELSE "load"
\* Phase 2 of a switch follows the drain only under unload_first.
AfterDrain(p) ==
    IF p = MemoryWatcher THEN "retire"
    ELSE IF Strategy = "load_first" THEN "load" ELSE "stop"

\* preflight_model_file refuses the file.
RefusesNothing(p) == FALSE      \* mutant: no preflight
Refuses(p) == want[p] \in Damaged

\* The failure reads as out-of-memory and an attempt is left.
MayRetryOnce(p) == tries[p] <= MaxRetries   \* mutant: off by one
MayRetry(p) == tries[p] < MaxRetries

\* A failed load took the previous model away.
OwesNothing(p) == FALSE         \* mutant: no rollback
OwesRollback(p) == prev[p] # NoModel /\ Strategy = "unload_first"

\* A dropped unload() call drops the child it had taken (kill_on_drop).
DropsNothing(p) == proc         \* mutant: no kill_on_drop
DropsChild(p) == IF pc[p] = "stopping" THEN [proc EXCEPT ![prev[p]] = "none"] ELSE proc

-----------------------------------------------------------------------------
(* ensure_loaded and the three calls of live_loaded_backend *)

Arrive(h, m) ==
    /\ pc[h] = "idle"
    /\ want' = [want EXCEPT ![h] = m]
    /\ Goto(h, IF m \in models THEN "slot" ELSE "notfound")
    /\ UNCHANGED <<slotVars, active, gateVars, procVars, stage, prev, tries, incoming>>

\* live_loaded_backend answered None: the next check, the lock, or the switch.
NotLive(p) ==
    /\ Goto(p, CASE stage[p] = "ensure"   -> "slot"
                 [] stage[p] = "unlocked" -> "queue"
                 [] OTHER                 -> "plan")
    /\ stage' = [stage EXCEPT ![p] = IF @ = "ensure" THEN "unlocked" ELSE @]
    /\ UNCHANGED <<lock, want, prev, tries, recent>>

ReadSlot(p) ==
    /\ pc[p] = "slot"
    /\ \/ /\ loaded = want[p]
          /\ Goto(p, "lookup")
          /\ UNCHANGED <<lock, stage, want, prev, tries, recent>>
       \/ /\ loaded # want[p]
          /\ NotLive(p)
    /\ UNCHANGED <<loaded, models, backends, active, userSwitched, cooldown, procVars, incoming>>

\* get_backend, then process_running.
Lookup(p) ==
    /\ pc[p] = "lookup"
    /\ ~MapLocked
    /\ \/ /\ want[p] \notin backends
          /\ Return(p, "notfound")
          /\ UNCHANGED recent
       \/ /\ want[p] \in backends
          /\ proc[want[p]] = "none"
          /\ NotLive(p)
       \/ /\ want[p] \in backends
          /\ proc[want[p]] # "none"
          /\ Goto(p, "probe")
          /\ UNCHANGED <<lock, stage, want, prev, tries, recent>>
    /\ UNCHANGED <<loaded, models, backends, active, userSwitched, cooldown, procVars, incoming>>

\* The health request.
Probe(p) ==
    /\ pc[p] = "probe"
    /\ \/ /\ proc[want[p]] = "ready"
          /\ Touch(want[p])
          /\ Deliver(p)
       \/ /\ proc[want[p]] # "ready"
          /\ NotLive(p)
    /\ UNCHANGED <<loaded, models, backends, active, userSwitched, cooldown, procVars, incoming>>

Acquire(p) ==
    /\ pc[p] = "queue"
    /\ lock = NoTask
    /\ lock' = p
    /\ stage' = [stage EXCEPT ![p] = "locked"]
    /\ Goto(p, IF p \in Loader THEN "slot" ELSE "decide")
    /\ UNCHANGED <<loaded, models, backends, active, gateVars, procVars, want, prev, tries, incoming>>

-----------------------------------------------------------------------------
(* load_model_id under the lock *)

\* Registry lookup and preflight come first; then a slot that names the model
\* itself is reloaded without a drain, and any other resident is drained.
Plan(p) ==
    /\ pc[p] = "plan"
    /\ \/ /\ want[p] \notin models
          /\ Return(p, "notfound")
       \/ /\ want[p] \in models /\ Refuses(p)
          /\ Return(p, "failed")
       \/ /\ want[p] \in models /\ ~Refuses(p)
          /\ prev' = [prev EXCEPT ![p] = loaded]
          /\ Goto(p, CASE loaded = NoModel -> "load"
                       [] loaded = want[p] -> "stop"
                       [] OTHER            -> "drain")
          /\ UNCHANGED <<lock, stage, want, tries>>
    /\ UNCHANGED <<loaded, models, backends, active, gateVars, procVars, incoming>>

DrainDone(p) ==
    /\ pc[p] = "drain"
    /\ Drained(prev[p])
    /\ Goto(p, AfterDrain(p))
    /\ UNCHANGED <<slotVars, active, gateVars, procVars, stage, want, prev, tries, incoming>>

NoDrainTimeout(p) == FALSE      \* mutant: the drain has no deadline
DrainTimeout(p) ==
    /\ pc[p] = "drain"
    /\ ~Drained(prev[p])
    /\ Return(p, "busy")
    /\ UNCHANGED <<loaded, models, backends, active, gateVars, procVars, incoming>>

\* unload_model_no_drain takes the entry out of the map before it signals.
Stop(p) ==
    /\ pc[p] = "stop"
    /\ backends' = backends \ {prev[p]}
    /\ Goto(p, IF prev[p] \in backends THEN "stopping" ELSE "clear")
    /\ UNCHANGED <<lock, loaded, models, active, gateVars, procVars, stage, want, prev, tries, incoming>>

Stopped(p) ==
    /\ pc[p] = "stopping"
    /\ proc' = [proc EXCEPT ![prev[p]] = "none"]
    /\ Goto(p, "clear")
    /\ UNCHANGED <<slotVars, active, gateVars, stuck, stage, want, prev, tries, incoming>>

\* A switch aborts on a failed unload; a reload and a refresh ignore it.
StopFailed(p) ==
    /\ UnloadCanFail
    /\ pc[p] = "stopping"
    /\ proc[prev[p]] # "none"
    /\ proc' = [proc EXCEPT ![prev[p]] = "none"]
    /\ stuck' = stuck \cup {prev[p]}
    /\ \/ /\ p \in Loader /\ prev[p] # want[p]
          /\ Return(p, "failed")
       \/ /\ p = Refresher \/ prev[p] = want[p]
          /\ Goto(p, "clear")
          /\ UNCHANGED <<lock, stage, want, prev, tries>>
    /\ UNCHANGED <<loaded, models, backends, active, gateVars, incoming>>

\* wait_for_backend_drain finds no entry and returns; the slot is emptied.
Clear(p) ==
    /\ pc[p] = "clear"
    /\ loaded' = NoModel
    /\ prev' = [prev EXCEPT ![p] = IF p = Refresher \/ @ = want[p] THEN NoModel ELSE @]
    /\ Goto(p, IF p = Refresher THEN "install" ELSE "load")
    /\ UNCHANGED <<lock, models, backends, active, gateVars, procVars, stage, want, tries, incoming>>

\* One attempt of load_model_with_context_fallback starts a child; one that the
\* backend object still owned is killed when it is overwritten.
Spawn(p) ==
    /\ pc[p] = "load"
    /\ backends' = backends \cup {Goal(p)}
    /\ proc' = [proc EXCEPT ![Goal(p)] = "starting"]
    /\ Goto(p, "boot")
    /\ UNCHANGED <<lock, loaded, models, active, gateVars, stuck, stage, want, prev, tries, incoming>>

\* load() fails before a child exists, or the child exits or misses the startup
\* deadline. The child is unloaded and its entry dropped; a failure that reads
\* as out-of-memory is retried with a smaller fit.
AttemptFailed(p) ==
    /\ pc[p] \in {"load", "boot"}
    /\ backends' = backends \ {Goal(p)}
    /\ proc' = [proc EXCEPT ![Goal(p)] = "none"]
    /\ \/ UNCHANGED stuck
       \/ /\ UnloadCanFail /\ proc[Goal(p)] # "none"
          /\ stuck' = stuck \cup {Goal(p)}
    /\ \/ /\ MayRetry(p)
          /\ tries' = [tries EXCEPT ![p] = @ + 1]
          /\ Goto(p, "load")
       \/ /\ Goto(p, "giveup")
          /\ UNCHANGED tries
    /\ UNCHANGED <<lock, loaded, models, active, gateVars, stage, want, prev, incoming>>

\* mutant: the slot is not written after a load.
MarkLoadedForgets(p) ==
    /\ loaded' = loaded
    /\ Touch(want[p])
    /\ NoteSwitch(p)
    /\ Deliver(p)

\* mark_loaded, touch, last_user_switch_at; the lock is dropped on return.
MarkLoaded(p) ==
    /\ loaded' = want[p]
    /\ Touch(want[p])
    /\ NoteSwitch(p)
    /\ Deliver(p)

\* The child answered its health check.
BootReady(p) ==
    /\ pc[p] = "boot"
    /\ proc[Goal(p)] = "ready"
    /\ \/ /\ stage[p] = "rollback"
          /\ loaded' = prev[p]
          /\ Return(p, "failed")
          /\ UNCHANGED <<recent, userSwitched>>
       \/ /\ stage[p] = "locked"
          /\ prev[p] = NoModel \/ Strategy = "unload_first"
          /\ MarkLoaded(p)
       \/ /\ stage[p] = "locked"
          /\ prev[p] # NoModel /\ Strategy = "load_first"
          /\ Goto(p, "drainold")
          /\ UNCHANGED <<lock, loaded, recent, userSwitched, stage, want, prev, tries>>
    /\ UNCHANGED <<models, backends, active, cooldown, procVars, incoming>>

\* mutant: the slot is emptied however the load failed.
GiveUpClears(p) ==
    /\ pc[p] = "giveup"
    /\ loaded' = NoModel
    /\ Return(p, "failed")
    /\ UNCHANGED <<models, backends, active, gateVars, procVars, incoming>>

\* Every attempt failed: reload what unload_first took away, or give up.
GiveUp(p) ==
    /\ pc[p] = "giveup"
    /\ \/ /\ stage[p] = "locked" /\ OwesRollback(p)
          /\ stage' = [stage EXCEPT ![p] = "rollback"]
          /\ tries' = [tries EXCEPT ![p] = 0]
          /\ Goto(p, "load")
          /\ UNCHANGED <<lock, loaded, want, prev>>
       \/ /\ stage[p] = "locked" /\ ~OwesRollback(p)
          /\ Return(p, "failed")
          /\ UNCHANGED loaded
       \/ /\ stage[p] = "rollback"
          /\ loaded' = NoModel
          /\ Return(p, "failed")
    /\ UNCHANGED <<models, backends, active, gateVars, procVars, incoming>>

-----------------------------------------------------------------------------
(* unload_model: load_first's last phase, and the memory watcher *)

RetireDrained(p) ==
    /\ pc[p] = "drainold"
    /\ Goto(p, IF Drained(prev[p]) THEN "retire" ELSE "mark")  \* a timeout only warns
    /\ UNCHANGED <<slotVars, active, gateVars, procVars, stage, want, prev, tries, incoming>>

\* The entry stays in the map; a failure is only logged.
Retire(p) ==
    /\ pc[p] = "retire"
    /\ \E survives \in BOOLEAN :
        LET owned == prev[p] \in backends /\ proc[prev[p]] # "none"
        IN  /\ survives => UnloadCanFail /\ owned
            /\ proc' = IF owned THEN [proc EXCEPT ![prev[p]] = "none"] ELSE proc
            /\ stuck' = IF survives THEN stuck \cup {prev[p]} ELSE stuck
            /\ \/ /\ p \in Loader
                  /\ Goto(p, "mark")
                  /\ UNCHANGED <<lock, loaded, stage, want, prev, tries>>
               \/ /\ p = MemoryWatcher
                  /\ loaded' = IF survives THEN loaded ELSE NoModel
                  /\ Return(p, "idle")
    /\ UNCHANGED <<models, backends, active, gateVars, incoming>>

Mark(p) ==
    /\ pc[p] = "mark"
    /\ MarkLoaded(p)
    /\ UNCHANGED <<models, backends, active, cooldown, procVars, incoming>>

-----------------------------------------------------------------------------
(* The watchers *)

\* The 30 s tick: every gate is read before load_model_id is called.
PriorityTick ==
    /\ pc[PriorityWatcher] = "idle"
    /\ Priority \in models
    /\ loaded # Priority
    /\ ~HasActiveRequests
    /\ ~cooldown
    /\ ~userSwitched
    /\ loaded \notin recent
    /\ want' = [want EXCEPT ![PriorityWatcher] = Priority]
    /\ stage' = [stage EXCEPT ![PriorityWatcher] = "unlocked"]
    /\ Goto(PriorityWatcher, "slot")
    /\ UNCHANGED <<slotVars, active, gateVars, procVars, prev, tries, incoming>>

\* The error is recorded after the lock was released.
PriorityFailed ==
    /\ pc[PriorityWatcher] \in Outcome
    /\ cooldown' = TRUE
    /\ Goto(PriorityWatcher, "idle")
    /\ UNCHANGED <<slotVars, active, recent, userSwitched, procVars, stage, want, prev, tries, incoming>>

MemoryTick ==
    /\ MemoryPressure
    /\ pc[MemoryWatcher] = "idle"
    /\ Goto(MemoryWatcher, "queue")
    /\ UNCHANGED <<slotVars, active, gateVars, procVars, stage, want, prev, tries, incoming>>

MemoryDecide ==
    /\ pc[MemoryWatcher] = "decide"
    /\ \/ /\ loaded = NoModel \/ HasActiveRequests
          /\ Return(MemoryWatcher, "idle")
       \/ /\ loaded # NoModel /\ ~HasActiveRequests
          /\ prev' = [prev EXCEPT ![MemoryWatcher] = loaded]
          /\ Goto(MemoryWatcher, "drain")
          /\ UNCHANGED <<lock, stage, want, tries>>
    /\ UNCHANGED <<loaded, models, backends, active, gateVars, procVars, incoming>>

-----------------------------------------------------------------------------
(* replace_models *)

RefreshTick(r) ==
    /\ pc[Refresher] = "idle"
    /\ incoming' = r
    /\ Goto(Refresher, "queue")
    /\ UNCHANGED <<slotVars, active, gateVars, procVars, stage, want, prev, tries>>

RefreshDecide ==
    /\ pc[Refresher] = "decide"
    /\ \/ /\ loaded \in Model \ incoming
          /\ prev' = [prev EXCEPT ![Refresher] = loaded]
          /\ Goto(Refresher, "stop")
       \/ /\ loaded \notin Model \ incoming
          /\ Goto(Refresher, "install")
          /\ UNCHANGED prev
    /\ UNCHANGED <<slotVars, active, gateVars, procVars, stage, want, tries, incoming>>

\* Backends the registry no longer names are unloaded, then the map is swapped.
Install ==
    /\ pc[Refresher] = "install"
    /\ LET stale == {m \in backends \ incoming : proc[m] # "none"}
       IN  \E survivors \in SUBSET stale :
            /\ survivors # {} => UnloadCanFail
            /\ stuck' = stuck \cup survivors
            /\ proc' = [m \in Model |-> IF m \in stale THEN "none" ELSE proc[m]]
    /\ backends' = backends \cap incoming
    /\ models' = incoming
    /\ incoming' = {}
    /\ Return(Refresher, "idle")
    /\ UNCHANGED <<loaded, active, gateVars>>

-----------------------------------------------------------------------------
(* Request handlers after ensure_loaded *)

\* track_request.
Track(h) ==
    /\ pc[h] = "handed"
    /\ active' = [active EXCEPT ![want[h]] = @ + 1]
    /\ Goto(h, "serving")
    /\ UNCHANGED <<slotVars, gateVars, procVars, stage, want, prev, tries, incoming>>

\* mutant: the guard outlives the response.
FinishLeaks(h) ==
    /\ pc[h] = "serving"
    /\ Goto(h, "idle")
    /\ want' = [want EXCEPT ![h] = NoModel]
    /\ UNCHANGED <<slotVars, active, gateVars, procVars, stage, prev, tries, incoming>>

\* RequestGuard::drop, at the end of the response or on disconnect.
Finish(h) ==
    /\ pc[h] = "serving"
    /\ active' = [active EXCEPT ![want[h]] = IF @ > 0 THEN @ - 1 ELSE 0]
    /\ Goto(h, "idle")
    /\ want' = [want EXCEPT ![h] = NoModel]
    /\ UNCHANGED <<slotVars, gateVars, procVars, stage, prev, tries, incoming>>

\* The error response is sent.
Respond(h) ==
    /\ pc[h] \in Outcome
    /\ Goto(h, "idle")
    /\ want' = [want EXCEPT ![h] = NoModel]
    /\ UNCHANGED <<slotVars, active, gateVars, procVars, stage, prev, tries, incoming>>

\* The handler's future is dropped at an await: the lock guard goes with it, and
\* a child that unload() had taken is killed (kill_on_drop).
Disconnect(p) ==
    /\ ClientsDisconnect
    /\ p \in Handler \cup {Refresher}
    /\ pc[p] \notin {"idle", "serving"} \cup Outcome
    /\ proc' = DropsChild(p)
    /\ pc' = [pc EXCEPT ![p] = "idle"]
    /\ stage' = [stage EXCEPT ![p] = "ensure"]
    /\ want' = [want EXCEPT ![p] = NoModel]
    /\ prev' = [prev EXCEPT ![p] = NoModel]
    /\ tries' = [tries EXCEPT ![p] = 0]
    /\ lock' = IF lock = p THEN NoTask ELSE lock
    /\ incoming' = IF p = Refresher THEN {} ELSE incoming
    /\ UNCHANGED <<loaded, models, backends, active, gateVars, stuck>>

-----------------------------------------------------------------------------
(* The environment: child processes and clocks *)

ProcStep(m, from, to) ==
    /\ proc[m] \in from
    /\ proc' = [proc EXCEPT ![m] = to]
    /\ UNCHANGED <<slotVars, active, gateVars, stuck, taskVars, incoming>>

Boots(m)    == ProcStep(m, {"starting"}, "ready")
Sickens(m)  == ProcStep(m, {"ready"}, "sick")
Recovers(m) == ProcStep(m, {"sick"}, "ready")
Crashes(m)  == ProcStep(m, {"starting", "ready", "sick"}, "none")

\* A child that outlived its unload is gone at last.
StuckExits(m) ==
    /\ m \in stuck
    /\ stuck' = stuck \ {m}
    /\ UNCHANGED <<slotVars, active, gateVars, proc, taskVars, incoming>>

Idles(m) ==
    /\ m \in recent
    /\ recent' = recent \ {m}
    /\ UNCHANGED <<slotVars, active, userSwitched, cooldown, procVars, taskVars, incoming>>

SwitchAges ==
    /\ userSwitched
    /\ userSwitched' = FALSE
    /\ UNCHANGED <<slotVars, active, recent, cooldown, procVars, taskVars, incoming>>

CooldownEnds ==
    /\ cooldown
    /\ cooldown' = FALSE
    /\ UNCHANGED <<slotVars, active, recent, userSwitched, procVars, taskVars, incoming>>

-----------------------------------------------------------------------------
(* Specification *)

\* One step of the scheduler's code on behalf of p.
Step(p) ==
    \/ ReadSlot(p) \/ Lookup(p) \/ Probe(p) \/ Acquire(p)
    \/ Plan(p) \/ DrainDone(p) \/ DrainTimeout(p)
    \/ Stop(p) \/ Stopped(p) \/ StopFailed(p) \/ Clear(p)
    \/ Spawn(p) \/ AttemptFailed(p) \/ BootReady(p) \/ GiveUp(p)
    \/ RetireDrained(p) \/ Retire(p) \/ Mark(p)

Watchers ==
    \/ PriorityTick \/ PriorityFailed
    \/ MemoryTick \/ MemoryDecide
    \/ (\E r \in Registry : RefreshTick(r)) \/ RefreshDecide \/ Install

Clients ==
    \/ \E h \in Handler : \/ \E m \in Model : Arrive(h, m)
                          \/ Track(h) \/ Finish(h) \/ Respond(h)
    \/ \E p \in Task : Disconnect(p)

Environment ==
    \/ \E m \in Model : Boots(m) \/ Sickens(m) \/ Recovers(m) \/ Crashes(m)
                        \/ StuckExits(m) \/ Idles(m)
    \/ SwitchAges \/ CooldownEnds

Next == (\E p \in Task : Step(p)) \/ Watchers \/ Clients \/ Environment

Spec == Init /\ [][Next]_vars

\* load_lock and the map's RwLock queue their waiters in order, a poll loop
\* wakes until its deadline, and a startup ends at the latest at
\* startup_timeout. Nothing is assumed of clients: a response may stream on.
Fairness ==
    /\ \A p \in Task : SF_vars(Step(p))
    /\ WF_vars(MemoryDecide \/ RefreshDecide \/ Install)

FairSpec == Spec /\ Fairness

-----------------------------------------------------------------------------
(* Properties *)

Children == {m \in Model : proc[m] # "none"}

\* Under unload_first at most one backend process holds the GPU at any moment:
\* unload, load, retry, rollback, watcher unloads and refreshes never overlap.
OneResident == Cardinality(Children) + Cardinality(stuck) <= 1

\* Whenever load_lock is free, the only child that may run is the one in the
\* slot, and the slot names a registered model that the backend map can serve.
SlotSettled ==
    lock = NoTask =>
        /\ Children \subseteq {loaded}
        /\ loaded # NoModel => loaded \in backends \cap models

\* Every live child is still in the backend map, or is just being stopped, so a
\* refresh or the shutdown can reach it.
Reachable ==
    \A m \in Children :
        m \in backends \/ \E p \in Task : pc[p] = "stopping" /\ prev[p] = m

\* The per-model counters are exactly the responses in progress.
ActiveExact ==
    \A m \in Model :
        active[m] = Cardinality({h \in Handler : pc[h] = "serving" /\ want[h] = m})

\* A request for a model whose file is damaged leaves the slot and the backend
\* map as they are ("before touching the resident model").
DamagedKeepsResident ==
    [][\A p \in Loader : lock = p /\ want[p] \in Damaged
            => UNCHANGED <<loaded, backends>>]_vars

\* A switch that fails leaves the previous model in the slot, unless reloading
\* that model failed as well.
FailedSwitchRestores ==
    [][\A p \in Loader :
            /\ lock = p /\ prev[p] # NoModel
            /\ pc'[p] \in {"busy", "failed"}
            => \/ loaded' = prev[p]
               \/ loaded' = NoModel /\ stage[p] = "rollback"]_vars

\* Every request is handed a backend or answered with an error, however long
\* the responses of other requests stream.
Answered ==
    \A h \in Handler :
        pc[h] \notin {"idle", "handed", "serving"} \cup Outcome
            ~> pc[h] \in {"handed"} \cup Outcome

\* Every critical section of load_lock ends.
LockReleased == []<>(lock = NoTask)

\* Nobody is left behind, neither the requests nor the tasks that wait for
\* load_lock.
Progress == Answered /\ LockReleased

\* Under unload_first the scheduler is a one-slot machine.
Machine == INSTANCE OneSlot WITH running <- Children, slot <- loaded
MachineSpec == Machine!Spec

-----------------------------------------------------------------------------
(* What the documentation says and the code does not keep *)

\* docs/runtimes/model-switching.md: during a switch "New requests for the
\* current model are queued". Only an unregistered model is reported unknown.
KnownModelFound ==
    [][\A h \in Handler :
            pc[h] # "notfound" /\ pc'[h] = "notfound" => want'[h] \notin models]_vars

\* docs/runtimes/model-switching.md: "In-flight requests are allowed to
\* complete" before the model is unloaded for a switch.
InFlightCompletes ==
    \A p \in Loader :
        pc[p] = "stopping" /\ prev[p] # want[p] => active[prev[p]] = 0

\* README.md: "the scheduler runs one model at a time". Both strategies are to
\* end with a single process; load_first overlaps two only during the switch.
OneResidentAtRest == lock = NoTask => Cardinality(Children) <= 1

\* README.md: "Failed switches roll back to the previous model when possible".
\* A slot that survives a failed switch can be served.
SurvivorServes ==
    lock = NoTask /\ loaded # NoModel => loaded \in backends

\* docs/plans/2026-07-10-001: "Before priority swap, skip if ... A user-initiated
\* switch occurred within the last N seconds".
PriorityYieldsToUser ==
    pc[PriorityWatcher] \in {"drain", "stop"} => ~userSwitched

=============================================================================
