---------------------------- MODULE Conformance ----------------------------
(***************************************************************************)
(* The conformance console: inspect, resolve-template, battery and compare *)
(* runs against models of the scheduler or external endpoints, beside the  *)
(* priority watcher, and the history database they are recorded in.        *)
(*                                                                         *)
(* Of the scheduler only what a run meets is here: one resident model, the *)
(* load lock, the drain before a switch.  Module Scheduler has the rest.   *)
(***************************************************************************)
EXTENDS ToolCalls

CONSTANTS
    Run,         \* requests to the console
    Jobs,        \* what they may ask: [kind, targets, mode, case]
    Known,       \* registered chat models
    Priority,    \* the priority model, or None
    Responses,   \* sequences of choices a backend may answer with
    MaxListed    \* a page of the history

External == "external"
Watcher == "watcher"
\* A reply, as Messages has it; its texts are sequences of tokens.
IsReply(m) ==
    /\ m = [content |-> m.content, reasoning |-> m.reasoning, calls |-> m.calls,
            finish |-> m.finish, usage |-> m.usage]
    /\ m.content = None \/ m.content \in Seq(STRING)
    /\ m.reasoning \in Seq(STRING)

ASSUME ConformanceAssumption ==
    /\ Watcher \notin Run /\ External \notin Known
    /\ None \notin Known \cup Run /\ None # Watcher
    /\ \A response \in Responses : \A i \in DOMAIN response : IsReply(response[i])

VARIABLES
    job, pc,
    guard,      \* models whose active count the run holds
    passes,     \* verdicts on the targets finished
    tests,      \* verdicts of the battery under way
    heard,      \* the response just classified
    resident, prev, lock, watch,
    rows, nextId, \* conformance_runs and its AUTOINCREMENT sequence
    issued,     \* every row ever inserted
    told,       \* what the caller was answered
    lost,       \* runs whose insert failed
    listed      \* rows a console has on screen
runVars  == <<job, pc, guard, passes, tests, heard>>
slotVars == <<resident, prev, lock, watch>>
dbVars   == <<rows, nextId, issued, lost, listed>>
vars     == <<runVars, slotVars, dbVars, told>>

Target(r) == job[r].targets[Len(passes[r]) + 1]
Managed(r) == Target(r) # External
Active(m) == \E r \in Run : m \in guard[r]
Ended == {"refused", "done", "gone"}

Init ==
    /\ job \in [Run -> Jobs] /\ pc = [r \in Run |-> "new"]
    /\ guard = [r \in Run |-> {}] /\ passes = [r \in Run |-> <<>>]
    /\ tests = [r \in Run |-> <<>>] /\ heard = [r \in Run |-> None]
    /\ resident \in {None} \cup Known /\ prev = None /\ lock = None /\ watch = "idle"
    /\ rows = {} /\ nextId = 1 /\ issued = {} /\ lost = {} /\ listed = {}
    /\ told = [r \in Run |-> None]

Put(f, r, v) == f' = [f EXCEPT ![r] = v]

-----------------------------------------------------------------------------
(* A run.                                                                  *)

(* compare without the case or the request its mode needs.                 *)
Refuse(r) ==
    /\ pc[r] = "new" /\ job[r].mode = "nothing"
    /\ Put(pc, r, "refused")
    /\ UNCHANGED <<job, guard, passes, tests, heard, slotVars, dbVars, told>>

\* Mutant: the run is not counted, as if it only asked for a status.
UncountedGuard(r) == {}
(* conformance_request_guard: taken before the load and its lock.          *)
RequestGuard(r) == IF Managed(r) THEN {Target(r)} ELSE {}

(* The verdict on a target: the battery's or compare's next, or the end.   *)
Decide(r, passed) ==
    /\ Put(passes, r, Append(passes[r], passed))
    /\ Put(pc, r, IF Len(passes[r]) + 1 < Len(job[r].targets) THEN "new" ELSE "record")
    /\ Put(tests, r, <<>>)
    /\ Put(guard, r, guard[r] \ RequestGuard(r))

(* resolve_conformance_backend, to the fast path or the queue of the lock. *)
Resolve(r) ==
    /\ pc[r] = "new" /\ job[r].mode # "nothing"
    /\ IF Managed(r) /\ Target(r) \notin Known
       THEN Decide(r, FALSE)
       ELSE /\ Put(guard, r, guard[r] \cup RequestGuard(r))
            /\ Put(pc, r, IF ~Managed(r) \/ resident = Target(r) THEN "call" ELSE "queued")
            /\ UNCHANGED <<passes, tests>>
    /\ Put(heard, r, None)
    /\ UNCHANGED <<job, slotVars, dbVars, told>>

(* The lock is ours; another run may have loaded the model meanwhile.      *)
TakeLock(r) ==
    /\ pc[r] = "queued" /\ lock = None
    /\ IF resident = Target(r)
       THEN Put(pc, r, "call") /\ UNCHANGED lock
       ELSE Put(pc, r, IF resident = None THEN "load" ELSE "drain") /\ lock' = r
    /\ UNCHANGED <<job, guard, passes, tests, heard, resident, prev, watch, dbVars, told>>

(* Nothing is counted for the resident model: it is stopped.               *)
Drained(r) ==
    /\ pc[r] = "drain" /\ ~Active(resident)
    /\ prev' = resident /\ resident' = None
    /\ Put(pc, r, "load")
    /\ UNCHANGED <<job, guard, passes, tests, heard, lock, watch, dbVars, told>>

\* Mutant: the drain has no deadline.
NoDrainTimeout(r) == FALSE
(* ModelBusy: the run fails, the resident model stays.                     *)
DrainTimeout(r) ==
    /\ pc[r] = "drain" /\ Active(resident)
    /\ lock' = None
    /\ Decide(r, FALSE)
    /\ UNCHANGED <<job, heard, resident, prev, watch, dbVars, told>>

Loaded(r) ==
    /\ pc[r] = "load"
    /\ resident' = Target(r) /\ prev' = None /\ lock' = None
    /\ Put(pc, r, "call")
    /\ UNCHANGED <<job, guard, passes, tests, heard, watch, dbVars, told>>

(* The load failed; the previous model is brought back, if that works.     *)
LoadFails(r) ==
    /\ pc[r] = "load"
    /\ resident' \in {None, prev} /\ prev' = None /\ lock' = None
    /\ Decide(r, FALSE)
    /\ UNCHANGED <<job, heard, watch, dbVars, told>>

(* The verdict on a response, by the kind of the run.                      *)
Normalized(response) == [i \in DOMAIN response |-> NormalizeReply(response[i])]
Locations(response) == [i \in DOMAIN response |-> ClassifyMessage(Normalized(response)[i])]
FirstChoice(response) == IF response = <<>> THEN None ELSE Normalized(response)[1]

(* inspect and compare's custom request: every choice is classified.       *)
Inspect(r) ==
    /\ pc[r] = "call" /\ job[r].mode = "custom"
    /\ \E response \in Responses :
        /\ Decide(r, InspectPassed(Locations(response)))
        /\ Put(heard, r, response)
    /\ UNCHANGED <<job, slotVars, dbVars, told>>

(* One case of the battery, an error of the backend among the outcomes.    *)
Outcomes ==
    [case \in ToSet(Cases) |->
        {Evaluate(case, FirstChoice(response)) : response \in Responses \cup {<<>>}}]
BatteryPassed(r, all) ==
    IF job[r].case = None THEN ToSet(all) = {TRUE}
    ELSE all[CHOOSE i \in 1..4 : Cases[i] = job[r].case]
Battery(r) ==
    /\ pc[r] = "call" /\ job[r].mode = "battery"
    /\ \E passed \in Outcomes[Cases[Len(tests[r]) + 1]] :
       LET all == Append(tests[r], passed)
       IN  \/ /\ Len(all) < 4
              /\ Put(tests, r, all) /\ UNCHANGED <<pc, guard, passes>>
           \/ /\ Len(all) = 4
              /\ Decide(r, BatteryPassed(r, all))
    /\ UNCHANGED <<job, heard, slotVars, dbVars, told>>

(* resolve-template passes when the backend rendered a prompt; an external *)
(* endpoint has neither /apply-template nor /props.                        *)
ResolveTemplate(r) ==
    /\ pc[r] = "call" /\ job[r].mode = "template"
    /\ \E resolved \in IF Managed(r) THEN BOOLEAN ELSE {FALSE} : Decide(r, resolved)
    /\ UNCHANGED <<job, heard, slotVars, dbVars, told>>

(* The backend fails.                                                      *)
CallFails(r) ==
    /\ pc[r] = "call" /\ job[r].mode = "custom"
    /\ Decide(r, FALSE)
    /\ UNCHANGED <<job, heard, slotVars, dbVars, told>>

Verdict(r) == \A i \in DOMAIN passes[r] : passes[r][i]

NewId == nextId

(* record_run, record_error: best effort, then the caller is answered.     *)
\* Mutant: a run that failed before it was answered is not recorded.
RecordPassing(r) ==
    /\ pc[r] = "record"
    /\ LET row == [id |-> NewId, run |-> r, passed |-> Verdict(r)]
       IN  IF Verdict(r) THEN /\ rows' = rows \cup {row} /\ issued' = issued \cup {row}
                              /\ nextId' = row.id + 1 /\ UNCHANGED lost
           ELSE UNCHANGED <<rows, issued, nextId, lost>>
    /\ Put(told, r, Verdict(r)) /\ Put(pc, r, "done") /\ Put(heard, r, None) /\ Put(passes, r, <<>>)
    /\ UNCHANGED <<job, guard, tests, slotVars, listed>>
Record(r) ==
    /\ pc[r] = "record"
    /\ LET row == [id |-> NewId, run |-> r, passed |-> Verdict(r)]
       IN  \/ /\ rows' = rows \cup {row} /\ issued' = issued \cup {row}
              /\ nextId' = row.id + 1 /\ UNCHANGED lost
           \/ lost' = lost \cup {r} /\ UNCHANGED <<rows, issued, nextId>>
    /\ Put(told, r, Verdict(r)) /\ Put(pc, r, "done") /\ Put(heard, r, None) /\ Put(passes, r, <<>>)
    /\ UNCHANGED <<job, guard, tests, slotVars, listed>>

(* The caller hangs up: guard and lock are dropped with the future, a      *)
(* model already stopped stays stopped.                                    *)
Disconnect(r) ==
    /\ pc[r] \in {"queued", "drain", "load", "call"}
    /\ Put(pc, r, "gone") /\ Put(guard, r, {}) /\ Put(tests, r, <<>>)
    /\ Put(passes, r, <<>>) /\ Put(heard, r, None)
    /\ lock' = IF lock = r THEN None ELSE lock
    /\ prev' = IF lock = r THEN None ELSE prev
    /\ UNCHANGED <<job, resident, watch, dbVars, told>>

-----------------------------------------------------------------------------
(* The priority watcher: idle gates, then the same lock and drain.         *)

WatchTick ==
    /\ watch = "idle" /\ Priority # None
    /\ resident # Priority /\ \A r \in Run : guard[r] = {}
    /\ watch' = "queued"
    /\ UNCHANGED <<runVars, resident, prev, lock, dbVars, told>>
WatchLock ==
    /\ watch = "queued" /\ lock = None
    /\ IF resident = Priority THEN watch' = "idle" /\ UNCHANGED lock
       ELSE watch' = (IF resident = None THEN "load" ELSE "drain") /\ lock' = Watcher
    /\ UNCHANGED <<runVars, resident, prev, dbVars, told>>
WatchDrain ==
    /\ watch = "drain"
    /\ IF Active(resident)
       THEN watch' = "idle" /\ lock' = None /\ UNCHANGED <<resident, prev>>  \* timed out
       ELSE watch' = "load" /\ prev' = resident /\ resident' = None /\ UNCHANGED lock
    /\ UNCHANGED <<runVars, dbVars, told>>
WatchLoad ==
    /\ watch = "load"
    /\ resident' \in {Priority, prev, None}
    /\ prev' = None /\ lock' = None /\ watch' = "idle"
    /\ UNCHANGED <<runVars, dbVars, told>>

-----------------------------------------------------------------------------
(* The history.                                                            *)

Newest(limit) ==
    LET n == IF limit < 1 THEN 1 ELSE IF limit > 500 THEN 500 ELSE limit
    IN  {row \in rows : Cardinality({x \in rows : x.id > row.id}) < n}
HistoryList ==
    /\ listed' = Newest(MaxListed)
    /\ UNCHANGED <<runVars, slotVars, rows, nextId, issued, lost, told>>
HistoryDelete(row) ==
    /\ rows' = {x \in rows : x.id # row.id}
    /\ UNCHANGED <<runVars, slotVars, nextId, issued, lost, listed, told>>
HistoryClear ==
    /\ rows' = {}
    /\ UNCHANGED <<runVars, slotVars, nextId, issued, lost, listed, told>>

(* A restart: the database is all that is left.                            *)
Restart ==
    /\ pc' = [r \in Run |-> IF pc[r] \in Ended \cup {"new"} THEN pc[r] ELSE "gone"]
    /\ guard' = [r \in Run |-> {}] /\ tests' = [r \in Run |-> <<>>]
    /\ heard' = [r \in Run |-> None]
    /\ passes' = [r \in Run |-> <<>>]
    /\ resident' = None /\ prev' = None /\ lock' = None /\ watch' = "idle"
    /\ UNCHANGED <<job, dbVars, told>>

Step(r) ==
    \/ Refuse(r) \/ Resolve(r) \/ TakeLock(r) \/ Drained(r) \/ DrainTimeout(r) \/ Loaded(r)
    \/ LoadFails(r) \/ Inspect(r) \/ Battery(r) \/ ResolveTemplate(r) \/ CallFails(r) \/ Record(r)
Watch == WatchTick \/ WatchLock \/ WatchDrain \/ WatchLoad
Next ==
    \/ \E r \in Run : Step(r) \/ Disconnect(r)
    \/ Watch \/ HistoryList \/ (\E row \in listed : HistoryDelete(row)) \/ HistoryClear \/ Restart

(* tokio runs every task, the load lock is first come first served, and a  *)
(* backend call ends: the client of the backend has a timeout.             *)
Fairness ==
    /\ \A r \in Run : WF_vars(Step(r)) /\ SF_vars(TakeLock(r))
    /\ WF_vars(WatchLock \/ WatchDrain \/ WatchLoad)
Spec == Init /\ [][Next]_vars
FairSpec == Spec /\ Fairness

-----------------------------------------------------------------------------
TypeOK ==
    /\ pc \in [Run -> {"new", "queued", "drain", "load", "call", "record"} \cup Ended]
    /\ guard \in [Run -> SUBSET Known]
    /\ resident \in Known \cup {None} /\ prev \in Known \cup {None}
    /\ lock \in Run \cup {None, Watcher}
    /\ watch \in {"idle", "queued", "drain", "load"}
    /\ \A r \in Run : /\ Len(passes[r]) <= Len(job[r].targets) /\ Len(tests[r]) < 4
                      /\ pc[r] \in {"drain", "load"} <=> lock = r
    /\ watch \in {"drain", "load"} <=> lock = Watcher
    /\ rows \subseteq issued /\ \A row \in issued : row.id < nextId

(* A run that talks to a managed model talks to the resident one: neither  *)
(* another run nor a priority switch queued behind its load takes it away. *)
StaysResident ==
    \A r \in Run : pc[r] = "call" /\ Managed(r) => resident = Target(r)

(* A run never waits for itself: the model it drains is one it has let go. *)
NotItsOwnDrain == \A r \in Run : pc[r] = "drain" => resident \notin guard[r]

(* What the guard taken before the wait for load_lock is for, and its price. *)
GuardsHold == StaysResident /\ NotItsOwnDrain

(* A call that stands in a text outside any larger pair of braces is seen, *)
(* whatever surrounds it: no reply with such a call counts as none.        *)
Standing(text) ==
    \E i, j \in DOMAIN text :
        /\ i <= j /\ SubSeq(text, i, j) \in CallShaped
        /\ \A k \in 1..(i - 1) : text[k] # "{"
CallNotMissed ==
    \A r \in Run : heard[r] # None =>
        \A i \in DOMAIN heard[r] :
            LET m == heard[r][i]
            IN  Structured(m) \/ (m.content # None /\ Standing(m.content)) \/ Standing(m.reasoning)
                    => Locations(heard[r])[i] # "none"

(* Every answered run has left one row with the verdict the caller got,    *)
(* failures included, unless the insert failed; a run that was refused, or *)
(* whose caller went away, has left none.                                  *)
OutcomeRecorded ==
    \A r \in Run :
        LET mine == {row \in issued : row.run = r}
        IN  /\ pc[r] = "done" /\ r \notin lost =>
                   Cardinality(mine) = 1 /\ \A row \in mine : row.passed = told[r]
            /\ pc[r] # "done" => mine = {}

(* A row id names one run for good: what a console fetches or deletes by   *)
(* an id it listed is that run or nothing, after deletions and restarts.   *)
IdNamesOneRun ==
    \A row \in rows, seen \in listed : row.id = seen.id => row = seen

(* The history tells what happened, now and to whoever kept an id.         *)
HistoryTrue == OutcomeRecorded /\ IdNamesOneRun

(* A call that the model put in its reasoning alone is reported as leaked. *)
LeakTold ==
    \A r \in Run : heard[r] # None =>
        \A i \in DOMAIN heard[r] :
            LET m == heard[r][i]
            IN  ~Structured(m) /\ HoldsCall(m.reasoning) /\ (m.content = None \/ ~HoldsCall(m.content))
                    => Locations(heard[r])[i] = "leaked"

(* Every run ends, also those that wait for each other's drain.            *)
RunEnds == \A r \in Run : pc[r] \notin Ended \cup {"new"} ~> pc[r] \in Ended \cup {"new"}
=============================================================================
