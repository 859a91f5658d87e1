------------------------- MODULE ConformanceProofs -------------------------
(***************************************************************************)
(* Proofs about console runs, for any number of runs, models and jobs and  *)
(* whatever the backends answer.  The invariant says what the guard is for: *)
(* it names exactly the model a run waits for or talks to, so whoever holds *)
(* the load lock and drains the resident model sees every run on it.  And   *)
(* about the classifier: its scanner does what the grammar of JSON says, so *)
(* it finds a call wherever one stands.                                    *)
(***************************************************************************)
EXTENDS Conformance, FiniteSetTheorems, FunctionTheorems, SequenceTheorems, WellFoundedInduction,
        TLAPS

Waiting == {"queued", "drain", "load"}
Busy == Waiting \cup {"call"}

\* The state a step of one run updates is indexed by the runs.
IndexInv ==
    /\ pc = [r \in Run |-> pc[r]]
    /\ guard = [r \in Run |-> guard[r]]
    /\ passes = [r \in Run |-> passes[r]]
    /\ told = [r \in Run |-> told[r]]

\* The guard of a run names its target, from the queue to the verdict.
CountInv ==
    \A r \in Run :
        /\ guard[r] = IF pc[r] \in Busy THEN RequestGuard(r) ELSE {}
        /\ pc[r] \in Waiting => Managed(r)
        /\ pc[r] \in Busy /\ Managed(r) => Target(r) \in Known

\* Who holds the lock, and what it has done to the slot so far.
LockInv ==
    /\ \A r \in Run :
        /\ pc[r] \in {"drain", "load"} <=> lock = r
        /\ pc[r] = "drain" => resident # None /\ resident # Target(r)
        /\ pc[r] = "load" => resident = None
    /\ watch \in {"drain", "load"} <=> lock = Watcher
    /\ watch = "drain" => resident # None
    /\ watch = "load" => resident = None

SlotInv == IndexInv /\ CountInv /\ LockInv /\ StaysResident

\* A run's step leaves the others where they are.
OnlyMoves(r) ==
    \A s \in Run \ {r} : /\ pc'[s] = pc[s] /\ guard'[s] = guard[s]
                         /\ Target(s)' = Target(s)

LEMMA InitSlot == Init => SlotInv
  BY ConformanceAssumption
     DEF Init, SlotInv, IndexInv, CountInv, LockInv, StaysResident, Busy, Waiting

\* A run that ends a target, or that hangs up, is neither busy nor counted.
LEMMA DecideEnds ==
  ASSUME SlotInv, NEW r \in Run, NEW passed, Decide(r, passed), UNCHANGED <<job, told>>
  PROVE  /\ IndexInv' /\ OnlyMoves(r)
         /\ pc'[r] \in {"new", "record"} /\ guard'[r] = {}
<1>1. pc'[r] \in {"new", "record"}
  BY DEF Decide, Put, SlotInv, IndexInv
<1>2. guard'[r] = {}
  BY DEF Decide, Put, SlotInv, IndexInv, CountInv
<1>3. IndexInv'
  BY DEF Decide, Put, SlotInv, IndexInv
<1>4. OnlyMoves(r)
  BY DEF Decide, Put, SlotInv, IndexInv, OnlyMoves, Target
<1> QED
  BY <1>1, <1>2, <1>3, <1>4

\* Leaving a target without touching the slot, with or without the lock.
LEMMA LeaveSlot ==
  ASSUME SlotInv, NEW r \in Run, IndexInv', OnlyMoves(r), UNCHANGED watch,
         pc'[r] \notin Busy, guard'[r] = {},
         lock' = IF lock = r THEN None ELSE lock,
         resident' = resident \/ (pc[r] = "load" /\ resident' \in {None, prev})
  PROVE  SlotInv'
<1> USE ConformanceAssumption DEF SlotInv, OnlyMoves, Busy, Waiting
<1>1. CountInv'
  BY DEF CountInv, RequestGuard, Managed
<1>2. \A s \in Run \ {r} : pc[s] = "call" /\ Managed(s) => resident # None
  BY DEF StaysResident, CountInv
<1>3. StaysResident'
  BY <1>2 DEF StaysResident, LockInv, Managed
<1>4. LockInv'
  BY DEF LockInv
<1> QED
  BY <1>1, <1>3, <1>4

\* The run talks to a model that another run has loaded for it, or has it.
LEMMA StepSlot == SlotInv /\ [Next]_vars => SlotInv'
<1> SUFFICES ASSUME SlotInv, [Next]_vars PROVE SlotInv'
  OBVIOUS
<1> USE ConformanceAssumption
<1>1. ASSUME NEW r \in Run, Refuse(r) PROVE SlotInv'
  BY <1>1 DEF Refuse, Put, slotVars, SlotInv, IndexInv, CountInv, LockInv, StaysResident,
              Target, Managed, RequestGuard, Busy, Waiting
<1>2. ASSUME NEW r \in Run, Resolve(r) PROVE SlotInv'
  <2>1. CASE Managed(r) /\ Target(r) \notin Known
    <3>1. Decide(r, FALSE) /\ UNCHANGED <<job, told, slotVars>> /\ pc[r] = "new"
      BY <1>2, <2>1 DEF Resolve
    <3>2. lock # r
      BY <3>1 DEF SlotInv, LockInv
    <3> QED
      BY <3>1, <3>2, DecideEnds, LeaveSlot DEF Busy, Waiting, slotVars
  <2>2. CASE ~(Managed(r) /\ Target(r) \notin Known)
    <3>1. /\ pc[r] = "new" /\ UNCHANGED <<job, passes, told, resident, prev, lock, watch>>
          /\ guard' = [guard EXCEPT ![r] = guard[r] \cup RequestGuard(r)]
          /\ pc' = [pc EXCEPT ![r] = IF ~Managed(r) \/ resident = Target(r)
                                     THEN "call" ELSE "queued"]
      BY <1>2, <2>2 DEF Resolve, Put, slotVars
    <3>2. \A s \in Run : Target(s)' = Target(s) /\ RequestGuard(s)' = RequestGuard(s)
                            /\ Managed(s)' = Managed(s)
      BY <3>1 DEF Target, RequestGuard, Managed
    <3> QED
      BY <2>2, <3>1, <3>2
         DEF SlotInv, IndexInv, CountInv, LockInv, StaysResident, Busy, Waiting
  <2> QED
    BY <2>1, <2>2
<1>3. ASSUME NEW r \in Run,
             \/ TakeLock(r) \/ Drained(r) \/ Loaded(r)
      PROVE SlotInv'
  <2>1. /\ UNCHANGED <<job, passes, told, guard, watch>>
        /\ \A s \in Run : Target(s)' = Target(s) /\ RequestGuard(s)' = RequestGuard(s)
                            /\ Managed(s)' = Managed(s)
    BY <1>3 DEF TakeLock, Drained, Loaded, Target, RequestGuard, Managed
  <2>2. CASE TakeLock(r)
    BY <2>1, <2>2
       DEF TakeLock, Put, SlotInv, IndexInv, CountInv, LockInv, StaysResident, Busy, Waiting
  <2>3. CASE Drained(r)
    <3>1. \A s \in Run : pc[s] = "call" /\ Managed(s) => resident # Target(s)
      BY <2>3 DEF Drained, Active, SlotInv, CountInv, Busy, RequestGuard
    <3> QED
      BY <2>1, <2>3, <3>1
         DEF Drained, Put, SlotInv, IndexInv, CountInv, LockInv, StaysResident, Busy, Waiting
  <2>4. CASE Loaded(r)
    <3>1. \A s \in Run : pc[s] = "call" => ~Managed(s)
      BY <2>4 DEF Loaded, SlotInv, CountInv, LockInv, StaysResident, Busy
    <3> QED
      BY <2>1, <2>4, <3>1
         DEF Loaded, Put, SlotInv, IndexInv, CountInv, LockInv, StaysResident, Busy, Waiting
  <2> QED
    BY <1>3, <2>2, <2>3, <2>4
<1>4. ASSUME NEW r \in Run, DrainTimeout(r) \/ LoadFails(r) PROVE SlotInv'
  <2>1. /\ Decide(r, FALSE) /\ UNCHANGED <<job, told, watch>> /\ lock = r /\ lock' = None
        /\ resident' = resident \/ (pc[r] = "load" /\ resident' \in {None, prev})
    BY <1>4 DEF DrainTimeout, LoadFails, SlotInv, LockInv
  <2> QED
    BY <2>1, DecideEnds, LeaveSlot DEF Busy, Waiting
<1>5. ASSUME NEW r \in Run, CallFails(r) \/ Inspect(r) \/ ResolveTemplate(r) PROVE SlotInv'
  <2>1. /\ \E passed : Decide(r, passed)
        /\ UNCHANGED <<job, told, slotVars>> /\ pc[r] = "call"
    BY <1>5 DEF CallFails, Inspect, ResolveTemplate
  <2>2. lock # r
    BY <2>1 DEF SlotInv, LockInv
  <2> QED
    BY <2>1, <2>2, DecideEnds, LeaveSlot DEF Busy, Waiting, slotVars
<1>6. ASSUME NEW r \in Run, Battery(r) PROVE SlotInv'
  <2>1. /\ UNCHANGED <<pc, guard, passes>> \/ \E passed : Decide(r, passed)
        /\ UNCHANGED <<job, told, slotVars>> /\ pc[r] = "call"
    BY <1>6 DEF Battery, Put
  <2>2. lock # r
    BY <2>1 DEF SlotInv, LockInv
  <2>3. CASE UNCHANGED <<pc, guard, passes>>
    BY <2>1, <2>3 DEF slotVars, SlotInv, IndexInv, CountInv, LockInv, StaysResident,
                      Target, Managed, RequestGuard, Busy, Waiting
  <2> QED
    BY <2>1, <2>2, <2>3, DecideEnds, LeaveSlot DEF Busy, Waiting, slotVars
<1>7. ASSUME NEW r \in Run, Record(r) PROVE SlotInv'
  <2>1. /\ pc[r] = "record" /\ UNCHANGED <<job, guard, slotVars>>
        /\ pc' = [pc EXCEPT ![r] = "done"] /\ passes' = [passes EXCEPT ![r] = <<>>]
        /\ told' = [told EXCEPT ![r] = Verdict(r)]
    BY <1>7 DEF Record, Put
  <2>2. IndexInv' /\ OnlyMoves(r) /\ pc'[r] = "done" /\ guard'[r] = {} /\ lock # r
    BY <2>1 DEF SlotInv, IndexInv, CountInv, LockInv, OnlyMoves, Target, Busy, Waiting
  <2> QED
    BY <2>1, <2>2, LeaveSlot DEF Busy, Waiting, slotVars
<1>8. ASSUME NEW r \in Run, Disconnect(r) PROVE SlotInv'
  <2>1. /\ pc' = [pc EXCEPT ![r] = "gone"] /\ guard' = [guard EXCEPT ![r] = {}]
        /\ passes' = [passes EXCEPT ![r] = <<>>] /\ UNCHANGED <<job, told, watch, resident>>
        /\ lock' = IF lock = r THEN None ELSE lock
    BY <1>8 DEF Disconnect, Put
  <2>2. IndexInv' /\ OnlyMoves(r) /\ pc'[r] = "gone" /\ guard'[r] = {}
    BY <2>1 DEF SlotInv, IndexInv, OnlyMoves, Target
  <2> QED
    BY <2>1, <2>2, LeaveSlot DEF Busy, Waiting
<1>9. CASE Watch
  <2>1. /\ UNCHANGED <<job, pc, guard, passes, told>>
        /\ \A s \in Run : Target(s)' = Target(s) /\ RequestGuard(s)' = RequestGuard(s)
                            /\ Managed(s)' = Managed(s)
    BY <1>9 DEF Watch, WatchTick, WatchLock, WatchDrain, WatchLoad, runVars,
                Target, RequestGuard, Managed
  <2>2. CASE WatchTick \/ WatchLock
    BY <2>1, <2>2
       DEF WatchTick, WatchLock, SlotInv, IndexInv, CountInv, LockInv, StaysResident
  <2>3. CASE WatchDrain
    <3>1. \A s \in Run : pc[s] = "call" /\ Managed(s) => Active(Target(s))
      BY DEF Active, SlotInv, CountInv, Busy, RequestGuard
    <3> QED
      BY <2>1, <2>3, <3>1
         DEF WatchDrain, SlotInv, IndexInv, CountInv, LockInv, StaysResident
  <2>4. CASE WatchLoad
    <3>1. \A s \in Run : pc[s] = "call" => ~Managed(s)
      BY <2>4 DEF WatchLoad, SlotInv, CountInv, LockInv, StaysResident, Busy
    <3> QED
      BY <2>1, <2>4, <3>1
         DEF WatchLoad, SlotInv, IndexInv, CountInv, LockInv, StaysResident
  <2> QED
    BY <1>9, <2>2, <2>3, <2>4 DEF Watch
<1>10. CASE Restart
  BY <1>10 DEF Restart, SlotInv, IndexInv, CountInv, LockInv, StaysResident, Ended, Busy, Waiting
<1>11. CASE HistoryList \/ HistoryClear \/ (\E row \in listed : HistoryDelete(row)) \/ UNCHANGED vars
  <2>1. UNCHANGED <<runVars, slotVars, told>>
    BY <1>11 DEF HistoryList, HistoryClear, HistoryDelete, vars
  <2> QED
    BY <2>1 DEF runVars, slotVars, SlotInv, IndexInv, CountInv, LockInv, StaysResident,
                Target, Managed, RequestGuard, Busy, Waiting
<1> QED
  BY <1>1, <1>2, <1>3, <1>4, <1>5, <1>6, <1>7, <1>8, <1>9, <1>10, <1>11 DEF Next, Step

\* For any number of runs, models and jobs and any answers: a run talks to the
\* resident model until its last call, and never drains a model it holds.
THEOREM GuardsHoldCorrect == Spec => []GuardsHold
<1>1. SlotInv => GuardsHold
  BY DEF SlotInv, CountInv, LockInv, GuardsHold, StaysResident, NotItsOwnDrain,
         RequestGuard, Busy, Waiting
<1> QED
  BY InitSlot, StepSlot, <1>1, PTL DEF Spec

-----------------------------------------------------------------------------
(* The history.                                                            *)

Mine(r) == {row \in issued : row.run = r}

\* An id is taken from a counter that no deletion and no restart moves back.
IdInv ==
    /\ nextId \in Nat
    /\ \A row \in issued : row.id \in Nat /\ row.id < nextId
    /\ \A x, y \in issued : x.id = y.id => x = y
    /\ rows \subseteq issued /\ listed \subseteq issued

\* A run leaves its row in the step that answers it.
RowInv ==
    /\ pc = [r \in Run |-> pc[r]] /\ told = [r \in Run |-> told[r]]
    /\ \A r \in Run :
        /\ pc[r] # "done" => Mine(r) = {}
        /\ pc[r] = "done" /\ r \notin lost => \E row : Mine(r) = {row} /\ row.passed = told[r]

HistoryInv == IdInv /\ RowInv

LEMMA InitHistory == Init => HistoryInv
  BY DEF Init, HistoryInv, IdInv, RowInv, Mine

\* A step that inserts nothing and answers nobody.
LEMMA QuietStep ==
  ASSUME HistoryInv, UNCHANGED <<nextId, issued, lost, told>>, rows' \subseteq issued,
         listed' \subseteq issued, pc' = [r \in Run |-> pc'[r]],
         \A r \in Run : pc'[r] = pc[r] \/ (pc[r] # "done" /\ pc'[r] # "done")
  PROVE  HistoryInv'
<1>1. IdInv'
  BY DEF HistoryInv, IdInv
<1>2. \A r \in Run : Mine(r)' = Mine(r)
  BY DEF Mine
<1> QED
  BY <1>1, <1>2 DEF HistoryInv, RowInv

LEMMA StepHistory == HistoryInv /\ [Next]_vars => HistoryInv'
<1> SUFFICES ASSUME HistoryInv, [Next]_vars PROVE HistoryInv'
  OBVIOUS
<1>1. ASSUME NEW r \in Run, Record(r) PROVE HistoryInv'
  <2> DEFINE row == [id |-> nextId, run |-> r, passed |-> Verdict(r)]
  <2>1. /\ pc[r] = "record" /\ pc' = [pc EXCEPT ![r] = "done"]
        /\ told' = [told EXCEPT ![r] = Verdict(r)] /\ listed' = listed
    BY <1>1 DEF Record, Put
  <2>2. \A s \in Run \ {r} : pc'[s] = pc[s] /\ told'[s] = told[s]
    BY <2>1 DEF HistoryInv, RowInv
  <2>3. pc'[r] = "done" /\ told'[r] = Verdict(r) /\ Mine(r) = {}
    BY <2>1 DEF HistoryInv, RowInv
  <2>4. pc' = [s \in Run |-> pc'[s]] /\ told' = [s \in Run |-> told'[s]]
    BY <2>1 DEF HistoryInv, RowInv
  <2>5. CASE /\ rows' = rows \cup {row} /\ issued' = issued \cup {row}
             /\ nextId' = nextId + 1 /\ lost' = lost
    <3>1. IdInv'
      BY <2>1, <2>5 DEF HistoryInv, IdInv
    <3>2. Mine(r)' = {row} /\ row.passed = told'[r]
      BY <2>3, <2>5 DEF Mine
    <3>3. \A s \in Run \ {r} : Mine(s)' = Mine(s)
      BY <2>5 DEF Mine
    <3> HIDE DEF row
    <3> QED
      BY <2>2, <2>3, <2>4, <2>5, <3>1, <3>2, <3>3 DEF HistoryInv, RowInv
  <2>6. CASE lost' = lost \cup {r} /\ UNCHANGED <<rows, issued, nextId>>
    <3>1. IdInv' /\ \A s \in Run : Mine(s)' = Mine(s)
      BY <2>1, <2>6 DEF HistoryInv, IdInv, Mine
    <3> QED
      BY <2>2, <2>3, <2>4, <2>6, <3>1 DEF HistoryInv, RowInv
  <2> QED
    BY <1>1, <2>5, <2>6 DEF Record, NewId
<1>2. ASSUME NEW r \in Run,
             \/ Refuse(r) \/ Resolve(r) \/ TakeLock(r) \/ Drained(r) \/ DrainTimeout(r)
             \/ Loaded(r) \/ LoadFails(r) \/ Inspect(r) \/ Battery(r)
             \/ ResolveTemplate(r) \/ CallFails(r) \/ Disconnect(r)
      PROVE HistoryInv'
  <2>1. UNCHANGED <<dbVars, told>>
    BY <1>2 DEF Refuse, Resolve, TakeLock, Drained, DrainTimeout, Loaded, LoadFails,
                Inspect, Battery, ResolveTemplate, CallFails, Disconnect
  <2>2. pc[r] # "done" /\ (pc' = pc \/ \E label : label # "done" /\ Put(pc, r, label))
    <3>1. ASSUME NEW passed, Decide(r, passed)
          PROVE  \E label : label # "done" /\ Put(pc, r, label)
      BY <3>1 DEF Decide
    <3>2. CASE DrainTimeout(r) \/ LoadFails(r) \/ Inspect(r) \/ ResolveTemplate(r) \/ CallFails(r)
      BY <3>1, <3>2 DEF DrainTimeout, LoadFails, Inspect, ResolveTemplate, CallFails
    <3>3. CASE Battery(r)
      BY <3>1, <3>3 DEF Battery, Put
    <3>4. CASE Resolve(r)
      <4>1. pc[r] = "new" /\ \/ Decide(r, FALSE)
                             \/ Put(pc, r, "call") \/ Put(pc, r, "queued")
        BY <3>4 DEF Resolve
      <4> QED
        BY <3>1, <4>1
    <3>5. CASE Refuse(r) \/ TakeLock(r) \/ Drained(r) \/ Loaded(r) \/ Disconnect(r)
      BY <3>5 DEF Refuse, TakeLock, Drained, Loaded, Disconnect
    <3> QED
      BY <1>2, <3>2, <3>3, <3>4, <3>5
  <2> QED
    BY <2>1, <2>2, QuietStep DEF dbVars, HistoryInv, IdInv, RowInv, Put
<1>3. CASE Watch
  BY <1>3, QuietStep DEF Watch, WatchTick, WatchLock, WatchDrain, WatchLoad, runVars, dbVars,
                         HistoryInv, IdInv, RowInv
<1>4. CASE HistoryList \/ HistoryClear \/ \E row \in listed : HistoryDelete(row)
  <2>1. Newest(MaxListed) \subseteq rows
    BY DEF Newest
  <2> QED
    BY <1>4, <2>1, QuietStep DEF HistoryList, HistoryClear, HistoryDelete, runVars,
                                 HistoryInv, IdInv, RowInv
<1>5. CASE Restart
  BY <1>5, QuietStep DEF Restart, Ended, dbVars, HistoryInv, IdInv, RowInv
<1>6. CASE UNCHANGED vars
  BY <1>6, QuietStep DEF vars, runVars, dbVars, HistoryInv, IdInv, RowInv
<1> QED
  BY <1>1, <1>2, <1>3, <1>4, <1>5, <1>6 DEF Next, Step

\* For any number of runs, deletions, restarts and failing inserts: an answered
\* run has exactly one row ever, and an id is one run for good.
THEOREM HistoryTrueCorrect == Spec => []HistoryTrue
<1>1. ASSUME HistoryInv PROVE HistoryTrue
  <2>1. IdNamesOneRun
    BY <1>1 DEF HistoryInv, IdInv, IdNamesOneRun
  <2>2. ASSUME NEW r \in Run
        PROVE  /\ pc[r] = "done" /\ r \notin lost =>
                      Cardinality(Mine(r)) = 1 /\ \A row \in Mine(r) : row.passed = told[r]
               /\ pc[r] # "done" => Mine(r) = {}
    BY <1>1, FS_Singleton DEF HistoryInv, RowInv
  <2> QED
    BY <2>1, <2>2 DEF HistoryTrue, OutcomeRecorded, Mine
<1> QED
  BY InitHistory, StepHistory, <1>1, PTL DEF Spec

-----------------------------------------------------------------------------
(* Induction *)

\* A set of naturals that is not empty has a least element.
LEMMA LeastNatural ==
  ASSUME NEW S \in SUBSET Nat, S # {}
  PROVE  \E n \in S : \A m \in S : n <= m
<1>1. PICK top \in S : TRUE
  OBVIOUS
<1> DEFINE D == 0 .. top
           T == {0 .. k : k \in {k \in S : k <= top}}
<1>2. IsFiniteSet(D)
  BY <1>1, FS_Interval
<1>3. T \subseteq SUBSET D
  BY <1>1
<1>4. SUBSET D = FiniteSubsetsOf(D)
  BY <1>2, FS_FiniteSubsetsOfFinite
<1>5. 0 .. top \in T
  BY <1>1
<1> HIDE DEF T
<1>6. \E x \in T : \A y \in T : ~ (<<y, x>> \in StrictSubsetOrdering(D))
  <2>1. IsWellFoundedOn(StrictSubsetOrdering(D), SUBSET D)
    BY <1>4, FS_StrictSubsetOrderingWellFounded
  <2>2. T # {}
    BY <1>5
  <2> HIDE DEF D
  <2>3. QED BY <2>1, <2>2, <1>3, WFMin
<1>7. PICK x \in T : \A y \in T : ~ (<<y, x>> \in StrictSubsetOrdering(D))
  BY <1>6
<1>8. PICK n \in S : n <= top /\ x = 0 .. n
  BY DEF T
<1>9. ASSUME NEW m \in S PROVE n <= m
  <2>1. SUFFICES ASSUME m < n PROVE FALSE
    BY <1>8, <1>9
  <2>2. 0 .. m \in T
    BY <2>1, <1>8, <1>1 DEF T
  <2>3. 0 .. m \subseteq 0 .. n /\ n \in 0 .. n /\ n \notin 0 .. m
    BY <2>1, <1>8
  <2>4. <<0 .. m, 0 .. n>> \in StrictSubsetOrdering(D)
    BY <2>2, <2>3, <1>3, <1>8 DEF StrictSubsetOrdering
  <2>5. QED BY <2>2, <2>4, <1>7, <1>8
<1>10. QED BY <1>9

\* Induction up to N, for a property given as the set of the numbers that have it.
LEMMA Climb ==
  ASSUME NEW N \in Nat, NEW S, 0 \in S, \A k \in 1..N : k - 1 \in S => k \in S
  PROVE  \A k \in 0..N : k \in S
<1> DEFINE Bad == {k \in 0..N : k \notin S}
<1>1. SUFFICES ASSUME Bad # {} PROVE FALSE
  OBVIOUS
<1>2. PICK k \in Bad : \A j \in Bad : k <= j
  <2>1. Bad \in SUBSET Nat
    OBVIOUS
  <2> HIDE DEF Bad
  <2>2. QED BY <1>1, <2>1, LeastNatural
<1>3. k \in 1..N /\ k - 1 \in 0..N /\ k - 1 \notin Bad
  BY <1>2
<1>4. QED BY <1>2, <1>3

-----------------------------------------------------------------------------
(* The scanner *)

ScanState == [depth : Int, str : BOOLEAN, esc : BOOLEAN]
Start == [depth |-> 0, str |-> FALSE, esc |-> FALSE]
Nests(token) == IF token = "{" THEN 1 ELSE IF token = "}" THEN -1 ELSE 0

\* What a token does to the scanner, inside a string literal and outside.
LEMMA AdvanceDoes ==
  ASSUME NEW s \in ScanState, NEW token
  PROVE  /\ Advance(s, token) \in ScanState
         /\ s.str => /\ Advance(s, token).str <=> s.esc \/ token # "quote"
                     /\ Advance(s, token).esc <=> ~s.esc /\ token = "backslash"
                     /\ Advance(s, token).depth = s.depth
         /\ ~s.str => /\ Advance(s, token).str <=> token = "quote"
                      /\ Advance(s, token).esc <=> s.esc
                      /\ Advance(s, token).depth = s.depth + Nests(token)
<1>1. PICK d \in Int, q \in BOOLEAN, e \in BOOLEAN : s = [depth |-> d, str |-> q, esc |-> e]
  BY DEF ScanState
<1>2. CASE q
  <2>1. Advance(s, token) = [depth |-> d, str |-> e \/ token # "quote",
                             esc |-> ~e /\ token = "backslash"]
    BY <1>1, <1>2 DEF Advance
  <2>2. (e \/ token # "quote") \in BOOLEAN /\ (~e /\ token = "backslash") \in BOOLEAN
    OBVIOUS
  <2>3. /\ Advance(s, token).depth = d
        /\ Advance(s, token).str = (e \/ token # "quote")
        /\ Advance(s, token).esc = (~e /\ token = "backslash")
        /\ s.depth = d /\ s.str = q /\ s.esc = e
    BY <1>1, <2>1
  <2>4. Advance(s, token) \in ScanState
    BY <2>1, <2>2 DEF ScanState
  <2> QED
    BY <1>2, <2>3, <2>4
<1>3. CASE ~q
  <2>1. Advance(s, token) = [depth |-> d + Nests(token), str |-> token = "quote", esc |-> e]
    <3>1. CASE token = "{"
      BY <1>1, <1>3, <3>1 DEF Advance, Nests
    <3>2. CASE token = "}"
      BY <1>1, <1>3, <3>2 DEF Advance, Nests
    <3>3. CASE token # "{" /\ token # "}"
      <4>1. (CASE token = "{" -> d + 1 [] token = "}" -> d - 1 [] OTHER -> d) = d
        BY <3>3, Zenon
      <4>2. Nests(token) = 0
        BY <3>3, Zenon DEF Nests
      <4>3. d + Nests(token) = d
        BY <4>2
      <4>4. Advance(s, token) = [s EXCEPT !.str = token = "quote", !.depth = d]
        BY <1>1, <1>3, <4>1 DEF Advance
      <4> QED
        BY <1>1, <4>3, <4>4
    <3> QED
      BY <3>1, <3>2, <3>3
  <2>2. d + Nests(token) \in Int
    BY DEF Nests
  <2>3. /\ Advance(s, token).depth = d + Nests(token)
        /\ Advance(s, token).str = (token = "quote")
        /\ Advance(s, token).esc = e
        /\ s.depth = d /\ s.str = q /\ s.esc = e
    BY <1>1, <2>1
  <2>4. Advance(s, token) \in ScanState
    BY <2>1, <2>2 DEF ScanState
  <2> QED
    BY <1>3, <2>3, <2>4
<1> QED
  BY <1>2, <1>3

\* The function that Scan is defined by exists.
LEMMA ScanUnfolds ==
  ASSUME NEW T, NEW text \in Seq(T), NEW open \in 1..Len(text)
  PROVE  /\ Scan(text, open)[0] = Start
         /\ \A n \in 1..(Len(text) + 1 - open) :
                Scan(text, open)[n] = Advance(Scan(text, open)[n - 1], text[open + n - 1])
<1> DEFINE N == Len(text) + 1 - open
           After(f, n) == IF n = 0 THEN Start ELSE Advance(f[n - 1], text[open + n - 1])
           Has(k) == \E f : f = [n \in 0..k |-> After(f, n)]
<1>1. N \in Nat
  OBVIOUS
<1>0. Scan(text, open) = CHOOSE f : f = [n \in 0..N |-> After(f, n)]
  BY DEF Scan, Start
<1> HIDE DEF N
<1>2. Has(0)
  <2> DEFINE f == [n \in 0..0 |-> Start]
  <2>1. \A n \in 0..0 : After(f, n) = Start
    <3>1. \A n \in 0..0 : n = 0
      OBVIOUS
    <3> QED
      BY <3>1
  <2>2. f = [n \in 0..0 |-> After(f, n)]
    <3> HIDE DEF After
    <3> QED
      BY <2>1
  <2> QED
    BY <2>2
<1>3. ASSUME NEW k \in 1..N, Has(k - 1) PROVE Has(k)
  <2>1. PICK f : f = [n \in 0..(k - 1) |-> After(f, n)]
    BY <1>3
  <2> DEFINE g == [n \in 0..k |-> After(f, n)]
  <2>2. \A n \in 0..(k - 1) : g[n] = f[n]
    <3> HIDE DEF After
    <3>1. \A n \in 0..(k - 1) : n \in 0..k
      BY <1>1
    <3>2. \A n \in 0..(k - 1) : f[n] = After(f, n)
      BY <2>1
    <3> QED
      BY <3>1, <3>2
  <2>3. \A n \in 0..k : After(g, n) = After(f, n)
    <3> HIDE DEF g
    <3>1. \A n \in 0..k : n # 0 => n - 1 \in 0..(k - 1)
      BY <1>1
    <3>2. \A n \in 0..k : n # 0 => g[n - 1] = f[n - 1]
      BY <2>2, <3>1
    <3> QED
      BY <3>2
  <2>4. g = [n \in 0..k |-> After(g, n)]
    <3>1. g = [n \in 0..k |-> After(f, n)]
      OBVIOUS
    <3> HIDE DEF g, After
    <3> QED
      BY <2>3, <3>1
  <2> QED
    BY <2>4
<1>4. Has(N)
  <2> HIDE DEF Has
  <2> DEFINE Good == {k \in 0..N : Has(k)}
  <2>1. 0 \in Good
    BY <1>1, <1>2
  <2>2. \A k \in 1..N : k - 1 \in Good => k \in Good
    BY <1>1, <1>3
  <2>3. \A k \in 0..N : k \in Good
    <3> HIDE DEF Good
    <3> QED
      BY <1>1, <2>1, <2>2, Climb
  <2> QED
    BY <2>3, <1>1
<1>5. Scan(text, open) = [n \in 0..N |-> After(Scan(text, open), n)]
  <2> HIDE DEF After
  <2> QED
    BY <1>0, <1>4
<1>6. \A n \in 0..N : Scan(text, open)[n] = After(Scan(text, open), n)
  <2> HIDE DEF After
  <2> QED
    BY <1>5
<1>7. Scan(text, open)[0] = Start
  BY <1>1, <1>6
<1>8. \A n \in 1..N : Scan(text, open)[n] = Advance(Scan(text, open)[n - 1], text[open + n - 1])
  BY <1>1, <1>6
<1> QED
  BY <1>7, <1>8 DEF N

-----------------------------------------------------------------------------
(* String literals and braces *)

\* What the lexing of an object says, token by token.
LEMMA LexedSays ==
  ASSUME NEW T, NEW c \in Seq(T), NEW literals, NEW escapes, Lexed(c, literals, escapes)
  PROVE  /\ \A l \in literals : /\ l[1] \in 1..Len(c) /\ l[2] \in 1..Len(c) /\ l[1] < l[2]
                                /\ c[l[1]] = "quote" /\ c[l[2]] = "quote"
         /\ \A l, k \in literals : l = k \/ l[2] < k[1] \/ k[2] < l[1]
         /\ \A i \in 1..Len(c) : c[i] = "quote" =>
                (i - 1 \in escapes <=> ~\E l \in literals : i = l[1] \/ i = l[2])
         /\ \A i \in escapes : i - 1 \in Inside(literals)
         /\ \A i \in 1..Len(c) : i \in escapes <=> c[i] = "backslash" /\ i - 1 \notin escapes
         /\ \A n \in Int : n \in Inside(literals) <=> \E l \in literals : l[1] <= n /\ n < l[2]
<1>1. DOMAIN c = 1..Len(c)
  OBVIOUS
<1>2. \A l \in literals : /\ l[1] \in 1..Len(c) /\ l[2] \in 1..Len(c) /\ l[1] < l[2]
                          /\ c[l[1]] = "quote" /\ c[l[2]] = "quote"
  BY <1>1 DEF Lexed, Quotes
<1>3. \A n \in Int : n \in Inside(literals) <=> \E l \in literals : l[1] <= n /\ n < l[2]
  <2> TAKE n \in Int
  <2>1. n \in Inside(literals) <=> \E l \in literals : n \in l[1]..(l[2] - 1)
    BY DEF Inside
  <2> QED
    BY <1>2, <2>1
<1>4. \A i \in 1..Len(c) : c[i] = "quote" =>
          (i - 1 \in escapes <=> ~\E l \in literals : i = l[1] \/ i = l[2])
  BY <1>1 DEF Lexed, Quotes
<1>5. \A l, k \in literals : l = k \/ l[2] < k[1] \/ k[2] < l[1]
  BY DEF Lexed
<1>6. \A i \in escapes : i - 1 \in Inside(literals)
  BY DEF Lexed
<1>7. \A i \in 1..Len(c) : i \in escapes <=> c[i] = "backslash" /\ i - 1 \notin escapes
  BY <1>1 DEF Lexed
<1> QED
  BY <1>2, <1>3, <1>4, <1>5, <1>6, <1>7

\* Whether a literal is open after a token, and whether the token escapes the next.
LEMMA LexedStep ==
  ASSUME NEW T, NEW c \in Seq(T), NEW literals, NEW escapes, Lexed(c, literals, escapes),
         NEW n \in 1..Len(c)
  PROVE  /\ n - 1 \in Inside(literals) =>
                /\ n \in Inside(literals) <=> n - 1 \in escapes \/ c[n] # "quote"
                /\ n \in escapes <=> n - 1 \notin escapes /\ c[n] = "backslash"
         /\ n - 1 \notin Inside(literals) =>
                /\ n \in Inside(literals) <=> c[n] = "quote"
                /\ n - 1 \notin escapes /\ n \notin escapes
<1> DEFINE In(i) == i \in Inside(literals)
<1>1. n \in Int /\ n - 1 \in Int /\ Len(c) \in Nat
  OBVIOUS
<1>2. \A l \in literals : /\ l[1] \in Int /\ l[2] \in Int /\ l[1] < l[2]
                          /\ c[l[1]] = "quote" /\ c[l[2]] = "quote"
  BY <1>1, LexedSays
<1>3. \A l, k \in literals : l = k \/ l[2] < k[1] \/ k[2] < l[1]
  BY LexedSays
<1>4. c[n] = "quote" => (n - 1 \in escapes <=> ~\E l \in literals : n = l[1] \/ n = l[2])
  BY LexedSays
<1>5. /\ n \in escapes => In(n - 1)
      /\ n \in escapes <=> c[n] = "backslash" /\ n - 1 \notin escapes
  BY LexedSays
<1>6. /\ In(n) <=> \E l \in literals : l[1] <= n /\ n < l[2]
      /\ In(n - 1) <=> \E l \in literals : l[1] <= n - 1 /\ n - 1 < l[2]
  <2>1. \A m \in Int : m \in Inside(literals) <=> \E l \in literals : l[1] <= m /\ m < l[2]
    BY LexedSays
  <2> QED
    BY <1>1, <2>1
<1>7. CASE In(n - 1)
  <2>1. PICK l \in literals : l[1] <= n - 1 /\ n - 1 < l[2]
    BY <1>6, <1>7
  <2>2. c[n] # "quote" => In(n)
    BY <1>1, <1>2, <1>6, <2>1
  <2>3. c[n] = "quote" /\ n - 1 \in escapes => In(n)
    BY <1>1, <1>2, <1>4, <1>6, <2>1
  <2>4. ASSUME c[n] = "quote", n - 1 \notin escapes, In(n) PROVE FALSE
    <3>1. PICK k \in literals : n = k[1] \/ n = k[2]
      BY <1>4, <2>4
    <3>2. k = l
      BY <1>1, <1>2, <1>3, <2>1, <3>1
    <3>3. n = l[2]
      BY <1>1, <2>1, <3>1, <3>2
    <3>4. PICK m \in literals : m[1] <= n /\ n < m[2]
      BY <1>6, <2>4
    <3>5. m = l
      BY <1>1, <1>2, <1>3, <3>3, <3>4
    <3> QED
      BY <1>1, <1>2, <3>3, <3>4, <3>5
  <2> QED
    BY <1>5, <1>7, <2>2, <2>3, <2>4
<1>8. CASE ~In(n - 1)
  <2>1. n \notin escapes
    BY <1>5, <1>8
  <2>2. n - 1 \notin escapes
    <3>1. SUFFICES ASSUME n - 1 \in escapes PROVE FALSE
      OBVIOUS
    <3>2. n - 2 \in Inside(literals) /\ n - 2 \in Int
      <4>1. (n - 1) - 1 \in Inside(literals)
        BY <3>1, LexedSays
      <4> QED
        BY <1>1, <4>1
    <3>3. PICK l \in literals : l[1] <= n - 2 /\ n - 2 < l[2]
      BY <3>2, LexedSays
    <3>4. n - 1 = l[2] /\ n - 1 \in 1..Len(c)
      BY <1>1, <1>2, <1>6, <1>8, <3>3, LexedSays
    <3>5. c[n - 1] = "backslash"
      BY <3>1, <3>4, LexedSays
    <3> QED
      BY <1>2, <3>4, <3>5
  <2>3. In(n) => c[n] = "quote"
    BY <1>1, <1>2, <1>6, <1>8
  <2>4. c[n] = "quote" => In(n)
    <3>1. SUFFICES ASSUME c[n] = "quote" PROVE In(n)
      OBVIOUS
    <3>2. PICK l \in literals : n = l[1] \/ n = l[2]
      BY <1>4, <2>2, <3>1
    <3>3. n = l[1]
      BY <1>1, <1>2, <1>6, <1>8, <3>2
    <3> QED
      BY <1>1, <1>2, <1>6, <3>3
  <2> QED
    BY <1>8, <2>1, <2>2, <2>3, <2>4
<1> QED
  BY <1>7, <1>8

\* One more token nests the braces by what it is, outside of literals.
LEMMA NestingStep ==
  ASSUME NEW T, NEW c \in Seq(T), NEW literals, NEW escapes, Lexed(c, literals, escapes)
  PROVE  /\ Nesting(c, literals, 0) = 0
         /\ \A n \in 0..Len(c) : Nesting(c, literals, n) \in Int
         /\ \A n \in 1..Len(c) :
                /\ n - 1 \in Inside(literals) =>
                       Nesting(c, literals, n) = Nesting(c, literals, n - 1)
                /\ n - 1 \notin Inside(literals) =>
                       Nesting(c, literals, n) = Nesting(c, literals, n - 1) + Nests(c[n])
<1> DEFINE B(n, brace) == Braces(c, literals, n, brace)
<1>0. Len(c) \in Nat
  OBVIOUS
<1>1. \A brace : B(0, brace) = {}
  BY DEF Braces
<1>2. \A n \in 0..Len(c) : \A brace : IsFiniteSet(B(n, brace)) /\ Cardinality(B(n, brace)) \in Nat
  <2> TAKE n \in 0..Len(c)
  <2> TAKE brace
  <2>1. IsFiniteSet(1..n)
    BY FS_Interval
  <2>2. B(n, brace) \subseteq 1..n
    BY DEF Braces
  <2>3. IsFiniteSet(B(n, brace))
    BY <2>1, <2>2, FS_Subset
  <2> QED
    BY <2>3, FS_CardinalityType
<1>3. \A n \in 1..Len(c) : \A brace :
          B(n, brace) = IF n \notin Inside(literals) /\ c[n] = brace
                        THEN B(n - 1, brace) \cup {n} ELSE B(n - 1, brace)
  <2> TAKE n \in 1..Len(c)
  <2> TAKE brace
  <2>1. 1..n = (1..(n - 1)) \cup {n}
    BY <1>0
  <2> QED
    BY <2>1 DEF Braces
<1>4. \A n \in 1..Len(c) : \A brace :
          /\ n \notin Inside(literals) /\ c[n] = brace
                 => Cardinality(B(n, brace)) = Cardinality(B(n - 1, brace)) + 1
          /\ n \in Inside(literals) \/ c[n] # brace
                 => Cardinality(B(n, brace)) = Cardinality(B(n - 1, brace))
  <2> TAKE n \in 1..Len(c)
  <2> TAKE brace
  <2>1. n - 1 \in 0..Len(c) /\ n \in 0..Len(c)
    BY <1>0
  <2>2. n \notin B(n - 1, brace)
    BY <1>0 DEF Braces
  <2>3. /\ IsFiniteSet(B(n - 1, brace)) /\ Cardinality(B(n - 1, brace)) \in Nat
    BY <1>2, <2>1
  <2> HIDE DEF B
  <2>4. Cardinality(B(n - 1, brace) \cup {n}) = Cardinality(B(n - 1, brace)) + 1
    BY <2>2, <2>3, FS_AddElement
  <2>5. CASE n \notin Inside(literals) /\ c[n] = brace
    <3>1. B(n, brace) = B(n - 1, brace) \cup {n}
      BY <1>3, <2>5
    <3> QED
      BY <2>3, <2>4, <2>5, <3>1
  <2>6. CASE n \in Inside(literals) \/ c[n] # brace
    <3>1. B(n, brace) = B(n - 1, brace)
      BY <1>3, <2>6
    <3> QED
      BY <2>3, <2>6, <3>1
  <2> QED
    BY <2>5, <2>6
<1> HIDE DEF B
<1> DEFINE Opens(n) == Cardinality(B(n, "{"))
           Closes(n) == Cardinality(B(n, "}"))
<1>5. \A n \in 0..Len(c) : Nesting(c, literals, n) = Opens(n) - Closes(n)
  BY DEF Nesting, B
<1>6. Opens(0) = 0 /\ Closes(0) = 0
  BY <1>1, FS_EmptySet
<1>7. \A n \in 0..Len(c) : Opens(n) \in Nat /\ Closes(n) \in Nat
  BY <1>2
<1>8. \A n \in 1..Len(c) :
          /\ n \notin Inside(literals) /\ c[n] = "{" => Opens(n) = Opens(n - 1) + 1
          /\ n \in Inside(literals) \/ c[n] # "{" => Opens(n) = Opens(n - 1)
          /\ n \notin Inside(literals) /\ c[n] = "}" => Closes(n) = Closes(n - 1) + 1
          /\ n \in Inside(literals) \/ c[n] # "}" => Closes(n) = Closes(n - 1)
  BY <1>4
<1> HIDE DEF Opens, Closes
<1>9. Nesting(c, literals, 0) = 0
  BY <1>0, <1>5, <1>6
<1>10. \A n \in 0..Len(c) : Nesting(c, literals, n) \in Int
  BY <1>5, <1>7
<1>11. ASSUME NEW n \in 1..Len(c)
       PROVE  /\ n - 1 \in Inside(literals) =>
                     Nesting(c, literals, n) = Nesting(c, literals, n - 1)
              /\ n - 1 \notin Inside(literals) =>
                     Nesting(c, literals, n) = Nesting(c, literals, n - 1) + Nests(c[n])
  <2>1. n - 1 \in 0..Len(c) /\ n \in 0..Len(c)
    BY <1>0
  <2>2. /\ Nesting(c, literals, n) = Opens(n) - Closes(n)
        /\ Nesting(c, literals, n - 1) = Opens(n - 1) - Closes(n - 1)
        /\ Opens(n - 1) \in Nat /\ Closes(n - 1) \in Nat
    BY <1>5, <1>7, <2>1
  <2>3. c[n] = "{" \/ c[n] = "}" => (n \in Inside(literals) <=> n - 1 \in Inside(literals))
    BY LexedStep
  <2>4. CASE n - 1 \in Inside(literals)
    <3>1. Opens(n) = Opens(n - 1) /\ Closes(n) = Closes(n - 1)
      BY <1>8, <2>3, <2>4
    <3> QED
      BY <2>2, <2>4, <3>1
  <2>5. CASE n - 1 \notin Inside(literals) /\ c[n] = "{"
    <3>1. Opens(n) = Opens(n - 1) + 1 /\ Closes(n) = Closes(n - 1)
      BY <1>8, <2>3, <2>5
    <3>2. Nests(c[n]) = 1
      BY <2>5 DEF Nests
    <3>3. Nesting(c, literals, n) = Nesting(c, literals, n - 1) + Nests(c[n])
      BY ONLY <2>2, <3>1, <3>2
    <3> QED
      BY <2>5, <3>3
  <2>6. CASE n - 1 \notin Inside(literals) /\ c[n] = "}"
    <3>1. Opens(n) = Opens(n - 1) /\ Closes(n) = Closes(n - 1) + 1
      BY <1>8, <2>3, <2>6
    <3>2. Nests(c[n]) = -1
      BY <2>6 DEF Nests
    <3>3. Nesting(c, literals, n) = Nesting(c, literals, n - 1) + Nests(c[n])
      BY ONLY <2>2, <3>1, <3>2
    <3> QED
      BY <2>6, <3>3
  <2>7. CASE n - 1 \notin Inside(literals) /\ c[n] # "{" /\ c[n] # "}"
    <3>1. Opens(n) = Opens(n - 1) /\ Closes(n) = Closes(n - 1)
      BY <1>8, <2>7
    <3>2. Nests(c[n]) = 0
      BY <2>7, Zenon DEF Nests
    <3>3. Nesting(c, literals, n) = Nesting(c, literals, n - 1) + Nests(c[n])
      BY ONLY <2>2, <3>1, <3>2
    <3> QED
      BY <2>7, <3>3
  <2> QED
    BY <2>4, <2>5, <2>6, <2>7
<1> QED
  BY <1>9, <1>10, <1>11

-----------------------------------------------------------------------------
(* The brace that matches *)

\* The scanner's state is where the grammar says an object has got to.
Agrees(s, c, literals, escapes, n) ==
    /\ s \in ScanState
    /\ s.str <=> n \in Inside(literals)
    /\ s.esc <=> n \in escapes
    /\ s.depth = Nesting(c, literals, n)

\* One token keeps them together.
LEMMA AgreesStep ==
  ASSUME NEW T, NEW c \in Seq(T), NEW literals, NEW escapes, Lexed(c, literals, escapes),
         NEW n \in 1..Len(c), NEW s, Agrees(s, c, literals, escapes, n - 1)
  PROVE  Agrees(Advance(s, c[n]), c, literals, escapes, n)
<1> DEFINE t == Advance(s, c[n])
<1>1. /\ s \in ScanState
      /\ s.str <=> n - 1 \in Inside(literals)
      /\ s.esc <=> n - 1 \in escapes
      /\ s.depth = Nesting(c, literals, n - 1)
  BY DEF Agrees
<1>2. /\ t \in ScanState
      /\ s.str => /\ t.str <=> s.esc \/ c[n] # "quote"
                  /\ t.esc <=> ~s.esc /\ c[n] = "backslash"
                  /\ t.depth = s.depth
      /\ ~s.str => /\ t.str <=> c[n] = "quote"
                   /\ t.esc <=> s.esc
                   /\ t.depth = s.depth + Nests(c[n])
  BY <1>1, AdvanceDoes
<1> HIDE DEF t
<1>3. CASE n - 1 \in Inside(literals)
  <2>1. /\ n \in Inside(literals) <=> n - 1 \in escapes \/ c[n] # "quote"
        /\ n \in escapes <=> n - 1 \notin escapes /\ c[n] = "backslash"
    BY <1>3, LexedStep
  <2>2. Nesting(c, literals, n) = Nesting(c, literals, n - 1)
    BY <1>3, NestingStep
  <2>3. s.str
    BY <1>1, <1>3
  <2>4. t.str <=> n \in Inside(literals)
    BY <1>1, <1>2, <2>1, <2>3
  <2>5. t.esc <=> n \in escapes
    BY <1>1, <1>2, <2>1, <2>3
  <2>6. t.depth = Nesting(c, literals, n)
    BY <1>1, <1>2, <2>2, <2>3
  <2> QED
    BY <1>2, <2>4, <2>5, <2>6 DEF Agrees, t
<1>4. CASE n - 1 \notin Inside(literals)
  <2>1. /\ n \in Inside(literals) <=> c[n] = "quote"
        /\ n - 1 \notin escapes /\ n \notin escapes
    BY <1>4, LexedStep
  <2>2. Nesting(c, literals, n) = Nesting(c, literals, n - 1) + Nests(c[n])
    BY <1>4, NestingStep
  <2>3. ~s.str
    BY <1>1, <1>4
  <2>4. t.str <=> n \in Inside(literals)
    BY <1>2, <2>1, <2>3
  <2>5. t.esc <=> n \in escapes
    BY <1>1, <1>2, <2>1, <2>3
  <2>6. t.depth = Nesting(c, literals, n)
    BY ONLY <1>1, <1>2, <2>2, <2>3
  <2> QED
    BY <1>2, <2>4, <2>5, <2>6 DEF Agrees, t
<1> QED
  BY <1>3, <1>4

\* The scanner reads an object alike wherever the object stands.
LEMMA ScanAgrees ==
  ASSUME NEW T, NEW text \in Seq(T), NEW i \in 1..Len(text), NEW j \in i..Len(text),
         NEW c, c = SubSeq(text, i, j), NEW literals, NEW escapes, Lexed(c, literals, escapes)
  PROVE  \A n \in 0..Len(c) : Agrees(Scan(text, i)[n], c, literals, escapes, n)
<1>1. /\ c \in Seq(T) /\ Len(c) = j - i + 1 /\ Len(c) \in Nat /\ Len(text) \in Nat
      /\ i \in Int /\ j \in Int /\ i <= j /\ j <= Len(text)
      /\ \A n \in 1..Len(c) : c[n] = text[i + n - 1]
  OBVIOUS
<1> DEFINE Good == {n \in 0..Len(c) : Agrees(Scan(text, i)[n], c, literals, escapes, n)}
<1>2. Agrees(Scan(text, i)[0], c, literals, escapes, 0)
  <2>1. Scan(text, i)[0] = Start
    BY ScanUnfolds
  <2>2. Start \in ScanState /\ Start.depth = 0 /\ Start.str = FALSE /\ Start.esc = FALSE
    BY DEF Start, ScanState
  <2>3. \A l \in literals : l[1] \in 1..Len(c)
    BY <1>1, LexedSays
  <2>4. \A m \in Int : m \in Inside(literals) <=> \E l \in literals : l[1] <= m /\ m < l[2]
    BY <1>1, LexedSays
  <2>5. 0 \notin Inside(literals)
    BY <1>1, <2>3, <2>4
  <2>6. 0 \notin escapes
    <3>1. 0 \in escapes => 0 - 1 \in Inside(literals)
      BY <1>1, LexedSays
    <3> QED
      BY <1>1, <2>3, <2>4, <3>1
  <2>7. Nesting(c, literals, 0) = 0
    BY <1>1, NestingStep
  <2> QED
    BY <2>1, <2>2, <2>5, <2>6, <2>7 DEF Agrees
<1>3. ASSUME NEW n \in 1..Len(c), n - 1 \in Good PROVE n \in Good
  <2>1. Agrees(Scan(text, i)[n - 1], c, literals, escapes, n - 1)
    BY <1>3
  <2>2. Scan(text, i)[n] = Advance(Scan(text, i)[n - 1], c[n])
    <3>1. n \in 1..(Len(text) + 1 - i)
      BY <1>1
    <3>2. Scan(text, i)[n] = Advance(Scan(text, i)[n - 1], text[i + n - 1])
      BY <3>1, ScanUnfolds
    <3>3. text[i + n - 1] = c[n]
      BY <1>1
    <3> QED
      BY <3>2, <3>3
  <2>3. Agrees(Advance(Scan(text, i)[n - 1], c[n]), c, literals, escapes, n)
    BY <1>1, <2>1, AgreesStep
  <2>4. n \in 0..Len(c)
    BY <1>1
  <2> QED
    BY <2>2, <2>3, <2>4
<1>4. 0 \in Good
  BY <1>1, <1>2
<1> HIDE DEF Good
<1>5. \A n \in 0..Len(c) : n \in Good
  BY <1>1, <1>3, <1>4, Climb
<1> QED
  BY <1>5 DEF Good

Ends(text, open) ==
    {i \in open..Len(text) :
        text[i] = "}" /\ Scan(text, open)[i - open + 1].depth = 0 /\ ~Scan(text, open)[i - open].str}

\* The brace that matches comes after the one it matches.
LEMMA MatchingBraceType ==
  ASSUME NEW T, NEW text \in Seq(T), NEW i \in 1..Len(text)
  PROVE  MatchingBrace(text, i) = 0 \/ MatchingBrace(text, i) \in i..Len(text)
<1>1. MatchingBrace(text, i) = IF Ends(text, i) = {} THEN 0 ELSE Least(Ends(text, i))
  BY DEF MatchingBrace, Ends
<1>2. Ends(text, i) \subseteq i..Len(text)
  BY DEF Ends
<1>3. ASSUME Ends(text, i) # {} PROVE Least(Ends(text, i)) \in Ends(text, i)
  <2>1. Ends(text, i) \in SUBSET Nat
    BY <1>2
  <2>2. \E n \in Ends(text, i) : \A m \in Ends(text, i) : n <= m
    BY <1>3, <2>1, LeastNatural
  <2> QED
    BY <2>2 DEF Least
<1> QED
  BY <1>1, <1>2, <1>3

\* The brace that matches the first of a call is the last of it.
LEMMA MatchingBraceOfCall ==
  ASSUME NEW text \in Seq(STRING), NEW i \in 1..Len(text), NEW j \in i..Len(text),
         SubSeq(text, i, j) \in CallShaped
  PROVE  text[i] = "{" /\ MatchingBrace(text, i) = j
<1> DEFINE c == SubSeq(text, i, j)
           N == Len(c)
<1>0. c \in Seq(STRING) /\ Len(text) \in Nat
  OBVIOUS
<1>1. /\ N = j - i + 1 /\ N \in Nat /\ i \in Int /\ j \in Int /\ i <= j /\ j <= Len(text)
  OBVIOUS
<1>10. \A n \in 1..N : c[n] = text[i + n - 1]
  OBVIOUS
<1>2. N > 1 /\ c[1] = "{" /\ c[N] = "}" /\ JsonObject(c)
  BY CallShapedAssumption
<1>11. N > 1
  BY <1>2
<1>3. PICK literals, escapes :
         /\ Lexed(c, literals, escapes)
         /\ \A n \in 1..(N - 1) : Nesting(c, literals, n) > 0
         /\ Nesting(c, literals, N) = 0
  BY <1>2 DEF JsonObject
<1> HIDE DEF c, N
<1>4. \A n \in 0..N : Agrees(Scan(text, i)[n], c, literals, escapes, n)
  BY <1>3, ScanAgrees DEF c, N
<1>5. j \in Ends(text, i)
  <2>1. N \in 0..N /\ N - 1 \in 0..N /\ j - i + 1 = N /\ j - i = N - 1 /\ j \in i..Len(text)
    BY <1>0, <1>1, <1>11
  <2>2. text[j] = "}"
    <3>1. N \in 1..N /\ i + N - 1 = j
      BY <1>1, <1>11
    <3> QED
      BY <1>2, <1>10, <3>1
  <2>3. Scan(text, i)[N].depth = 0
    BY <1>3, <1>4, <2>1 DEF Agrees
  <2>4. ~Scan(text, i)[N - 1].str
    <3>1. SUFFICES ASSUME N - 1 \in Inside(literals) PROVE FALSE
      BY <1>4, <2>1 DEF Agrees
    <3>2. N - 1 \in Int /\ c \in Seq(STRING) /\ N = Len(c)
      BY <1>0, <1>1 DEF N
    <3>3. PICK l \in literals : l[1] <= N - 1 /\ N - 1 < l[2]
      BY <1>3, <3>1, <3>2, LexedSays
    <3>4. l[2] \in 1..N /\ c[l[2]] = "quote"
      BY <1>3, <3>2, LexedSays
    <3>5. l[2] = N
      BY <1>1, <3>3, <3>4
    <3> QED
      BY <1>2, <3>4, <3>5
  <2> QED
    BY <2>1, <2>2, <2>3, <2>4 DEF Ends
<1>6. \A m \in Ends(text, i) : j <= m
  <2>0. Ends(text, i) \subseteq i..Len(text)
    BY DEF Ends
  <2> SUFFICES ASSUME NEW m \in Ends(text, i), m < j PROVE FALSE
    BY <1>0, <1>1, <2>0
  <2> DEFINE n == m - i + 1
  <2>1. n \in 1..(N - 1) /\ n \in 0..N
    BY <1>0, <1>1, <2>0
  <2>2. Scan(text, i)[n].depth = 0
    BY DEF Ends
  <2> HIDE DEF n
  <2>3. Nesting(c, literals, n) = 0
    BY <1>4, <2>1, <2>2 DEF Agrees
  <2> QED
    BY <1>3, <2>1, <2>3
<1>7. MatchingBrace(text, i) = IF Ends(text, i) = {} THEN 0 ELSE Least(Ends(text, i))
  BY DEF MatchingBrace, Ends
<1>8. Least(Ends(text, i)) = j
  <2>1. \A m \in Ends(text, i) : m \in Int
    <3>1. Ends(text, i) \subseteq i..Len(text)
      BY DEF Ends
    <3> QED
      BY <1>0, <1>1, <3>1
  <2>2. \A n \in Ends(text, i) : (\A m \in Ends(text, i) : n <= m) <=> n = j
    BY <1>1, <1>5, <1>6, <2>1
  <2> QED
    BY <1>5, <2>2 DEF Least
<1>9. text[i] = "{"
  <2>1. 1 \in 1..N /\ i + 1 - 1 = i
    BY <1>1, <1>11
  <2> QED
    BY <1>2, <1>10, <2>1
<1> QED
  BY <1>5, <1>7, <1>8, <1>9

-----------------------------------------------------------------------------
(* The candidates *)

\* Where the span that starts at a token ends, 0 when none does.
SpanEnd(text, i) == IF text[i] = "{" THEN MatchingBrace(text, i) ELSE 0

\* The function that BalancedSpans is defined by exists.
LEMMA SpansUnfold ==
  ASSUME NEW T, NEW text \in Seq(T)
  PROVE  \E f : /\ BalancedSpans(text) = f[1]
                /\ \A i \in 1..Len(text) :
                       f[i] = IF SpanEnd(text, i) = 0 THEN f[i + 1]
                              ELSE {SubSeq(text, i, SpanEnd(text, i))} \cup f[SpanEnd(text, i) + 1]
<1> DEFINE N == Len(text)
           End(i) == SpanEnd(text, i)
           Piece(i) == SubSeq(text, i, SpanEnd(text, i))
           After(f, i) == IF i > N THEN {} ELSE IF End(i) = 0 THEN f[i + 1] ELSE {Piece(i)} \cup f[End(i) + 1]
           From(k) == (N + 1 - k)..(N + 1)
           Has(k) == \E f : f = [i \in From(k) |-> After(f, i)]
<1>1. N \in Nat
  OBVIOUS
<1>2. \A i \in 1..N : End(i) = 0 \/ End(i) \in i..N
  BY MatchingBraceType DEF SpanEnd
<1>0. BalancedSpans(text) = (CHOOSE f : f = [i \in 1..(N + 1) |-> After(f, i)])[1]
  BY DEF BalancedSpans, SpanEnd
<1> HIDE DEF N, End, Piece
<1>3. Has(0)
  <2> DEFINE f == [i \in From(0) |-> {}]
  <2>1. \A i \in From(0) : After(f, i) = {}
    <3>1. \A i \in From(0) : i > N
      BY <1>1
    <3> QED
      BY <3>1
  <2>2. f = [i \in From(0) |-> After(f, i)]
    <3> HIDE DEF After, From
    <3> QED
      BY <2>1
  <2> QED
    BY <2>2
<1>4. ASSUME NEW k \in 1..N, Has(k - 1) PROVE Has(k)
  <2>1. PICK f : f = [i \in From(k - 1) |-> After(f, i)]
    BY <1>4
  <2> DEFINE g == [i \in From(k) |-> After(f, i)]
  <2>2. \A i \in From(k - 1) : g[i] = f[i]
    <3>1. \A i \in From(k - 1) : i \in From(k)
      BY <1>1
    <3> HIDE DEF After, From
    <3>2. \A i \in From(k - 1) : f[i] = After(f, i)
      BY <2>1
    <3> QED
      BY <3>1, <3>2
  <2>3. \A i \in From(k) : After(g, i) = After(f, i)
    <3> SUFFICES ASSUME NEW i \in From(k) PROVE After(g, i) = After(f, i)
      OBVIOUS
    <3> HIDE DEF g
    <3>1. i \in Int /\ (~(i > N) => i \in 1..N /\ i + 1 \in From(k - 1))
      BY <1>1
    <3>2. ~(i > N) /\ End(i) # 0 => End(i) + 1 \in From(k - 1)
      BY <1>1, <1>2, <3>1
    <3> HIDE DEF From
    <3> QED
      BY <2>2, <3>1, <3>2
  <2>4. g = [i \in From(k) |-> After(g, i)]
    <3>1. g = [i \in From(k) |-> After(f, i)]
      OBVIOUS
    <3> HIDE DEF g, After, From
    <3> QED
      BY <2>3, <3>1
  <2> QED
    BY <2>4
<1>5. Has(N)
  <2> HIDE DEF Has
  <2> DEFINE Good == {k \in 0..N : Has(k)}
  <2>1. 0 \in Good
    BY <1>1, <1>3
  <2>2. \A k \in 1..N : k - 1 \in Good => k \in Good
    BY <1>1, <1>4
  <2>3. \A k \in 0..N : k \in Good
    <3> HIDE DEF Good
    <3> QED
      BY <1>1, <2>1, <2>2, Climb
  <2> QED
    BY <2>3, <1>1
<1>6. From(N) = 1..(N + 1)
  BY <1>1
<1> DEFINE F == CHOOSE f : f = [i \in 1..(N + 1) |-> After(f, i)]
<1>7. F = [i \in 1..(N + 1) |-> After(F, i)]
  <2> HIDE DEF After, From
  <2> QED
    BY <1>5, <1>6
<1>8. BalancedSpans(text) = F[1]
  BY <1>0
<1> HIDE DEF F
<1>9. \A i \in 1..(N + 1) : F[i] = After(F, i)
  <2> HIDE DEF After
  <2> QED
    BY <1>7
<1>10. \A i \in 1..N : F[i] = IF End(i) = 0 THEN F[i + 1] ELSE {Piece(i)} \cup F[End(i) + 1]
  <2> TAKE i \in 1..N
  <2>1. i \in 1..(N + 1) /\ ~(i > N)
    BY <1>1
  <2>2. F[i] = After(F, i)
    BY <1>9, <2>1
  <2> QED
    BY <2>1, <2>2
<1> QED
  BY <1>8, <1>10 DEF N, End, Piece

\* A call with no brace before it is among the balanced spans of the text.
LEMMA StandingHolds ==
  ASSUME NEW text \in Seq(STRING), Standing(text)
  PROVE  HoldsCall(text)
<1>1. PICK i \in DOMAIN text, j \in DOMAIN text :
         /\ i <= j /\ SubSeq(text, i, j) \in CallShaped
         /\ \A k \in 1..(i - 1) : text[k] # "{"
  BY DEF Standing
<1>2. i \in 1..Len(text) /\ j \in i..Len(text)
  <2>1. DOMAIN text = 1..Len(text) /\ Len(text) \in Nat
    OBVIOUS
  <2>2. i <= j
    BY <1>1
  <2> QED
    BY ONLY <2>1, <2>2, i \in DOMAIN text, j \in DOMAIN text
<1>3. i \in Nat /\ j \in Nat /\ j # 0 /\ Len(text) \in Nat /\ i <= Len(text)
  BY <1>2
<1>4. SpanEnd(text, i) = j
  BY <1>1, <1>2, MatchingBraceOfCall DEF SpanEnd
<1>5. PICK f : /\ BalancedSpans(text) = f[1]
               /\ \A k \in 1..Len(text) :
                      f[k] = IF SpanEnd(text, k) = 0 THEN f[k + 1]
                             ELSE {SubSeq(text, k, SpanEnd(text, k))} \cup f[SpanEnd(text, k) + 1]
  BY SpansUnfold
<1>6. f[i] = {SubSeq(text, i, j)} \cup f[j + 1]
  BY <1>2, <1>3, <1>4, <1>5
<1>7. f[1] = f[i]
  <2> DEFINE Good == {k \in 0..(i - 1) : f[1] = f[k + 1]}
  <2>1. 0 \in Good
    BY <1>2
  <2>2. ASSUME NEW k \in 1..(i - 1), k - 1 \in Good PROVE k \in Good
    <3>1. k \in 1..Len(text) /\ k \in 0..(i - 1) /\ (k - 1) + 1 = k
      BY <1>3
    <3>2. SpanEnd(text, k) = 0
      BY <1>1 DEF SpanEnd
    <3>3. f[k] = f[k + 1]
      BY <1>5, <3>1, <3>2
    <3> QED
      BY <2>2, <3>1, <3>3
  <2>3. i - 1 \in Nat /\ i - 1 \in 0..(i - 1) /\ (i - 1) + 1 = i
    BY <1>2
  <2> HIDE DEF Good
  <2>4. \A k \in 0..(i - 1) : k \in Good
    BY <2>1, <2>2, <2>3, Climb
  <2> QED
    BY <2>3, <2>4 DEF Good
<1>8. SubSeq(text, i, j) \in BalancedSpans(text)
  BY <1>5, <1>6, <1>7
<1> QED
  BY <1>1, <1>8 DEF HoldsCall

\* A reply says where its call is, when it has one to see.
LEMMA ReplyClassified ==
  ASSUME NEW m, IsReply(m),
         Structured(m) \/ (m.content # None /\ Standing(m.content)) \/ Standing(m.reasoning)
  PROVE  ClassifyMessage(NormalizeReply(m)) # "none"
<1> DEFINE n == NormalizeReply(m)
<1>1. n.calls = m.calls /\ n.reasoning = m.reasoning
  BY DEF IsReply, NormalizeReply
<1>2. \A text \in Seq(STRING) : Standing(text) => text # <<>> /\ HoldsCall(text)
  <2>1. \A text \in Seq(STRING) : Standing(text) => HoldsCall(text)
    BY StandingHolds
  <2>2. \A text : Standing(text) => DOMAIN text # {}
    BY DEF Standing
  <2>3. \A text \in Seq(STRING) : text = <<>> => DOMAIN text = {}
    OBVIOUS
  <2> QED
    BY <2>1, <2>2, <2>3
<1>3. m.content # None /\ Standing(m.content) => n.content = m.content /\ HoldsCall(m.content)
  BY <1>2 DEF IsReply, NormalizeReply
<1>4. Standing(m.reasoning) => HoldsCall(n.reasoning)
  BY <1>1, <1>2 DEF IsReply
<1> HIDE DEF n
<1>5. Structured(m) => Structured(n)
  BY <1>1 DEF Structured
<1>6. CASE Structured(n)
  BY <1>6 DEF ClassifyMessage, n
<1>7. CASE ~Structured(n) /\ n.content # None /\ HoldsCall(n.content)
  BY <1>7 DEF ClassifyMessage, n
<1>8. CASE ~Structured(n) /\ ~(n.content # None /\ HoldsCall(n.content))
  <2>1. HoldsCall(n.reasoning)
    BY <1>3, <1>4, <1>5, <1>8
  <2> QED
    BY <1>8, <2>1 DEF ClassifyMessage, n
<1> QED
  BY <1>6, <1>7, <1>8

\* What was heard is an answer of a backend.
HeardInv == /\ heard = [r \in Run |-> heard[r]]
            /\ \A r \in Run : heard[r] = None \/ heard[r] \in Responses

\* Only a call hears anything, and only an answer.
LEMMA StepHeard == HeardInv /\ [Next]_vars => HeardInv'
<1> SUFFICES ASSUME HeardInv, [Next]_vars PROVE HeardInv'
  OBVIOUS
<1> DEFINE Hears(r) == \E answer \in Responses \cup {None} : heard' = [heard EXCEPT ![r] = answer]
<1>1. ASSUME NEW r \in Run, Hears(r) PROVE HeardInv'
  BY <1>1 DEF HeardInv
<1>2. ASSUME heard' = heard PROVE HeardInv'
  BY <1>2 DEF HeardInv
<1>3. ASSUME NEW r \in Run, Step(r) \/ Disconnect(r) PROVE heard' = heard \/ Hears(r)
  BY <1>3 DEF Step, Disconnect, Refuse, Resolve, TakeLock, Drained, DrainTimeout, Loaded, LoadFails,
              Inspect, Battery, ResolveTemplate, CallFails, Record, Put
<1>4. ASSUME \/ Watch \/ HistoryList \/ HistoryClear \/ UNCHANGED vars
             \/ \E row \in listed : HistoryDelete(row)
      PROVE  heard' = heard
  BY <1>4 DEF Watch, WatchTick, WatchLock, WatchDrain, WatchLoad, HistoryList, HistoryDelete,
              HistoryClear, vars, runVars
<1>5. CASE Restart
  BY <1>5 DEF Restart, HeardInv
<1> HIDE DEF Hears
<1> QED
  BY <1>1, <1>2, <1>3, <1>4, <1>5 DEF Next

\* Whatever a backend answers and whatever surrounds a call in its text: a call
\* that the fields carry, or that stands in the content or the reasoning, is seen.
THEOREM CallNotMissedCorrect == Spec => []CallNotMissed
<1>1. Init => HeardInv
  BY DEF Init, HeardInv
<1>2. ASSUME HeardInv PROVE CallNotMissed
  <2> SUFFICES ASSUME NEW r \in Run, heard[r] # None, NEW i \in DOMAIN heard[r],
                      LET m == heard[r][i]
                      IN  \/ Structured(m) \/ Standing(m.reasoning)
                          \/ m.content # None /\ Standing(m.content)
               PROVE  Locations(heard[r])[i] # "none"
    BY DEF CallNotMissed
  <2>1. heard[r] \in Responses
    BY <1>2 DEF HeardInv
  <2>2. IsReply(heard[r][i])
    BY <2>1, ConformanceAssumption
  <2>3. ClassifyMessage(NormalizeReply(heard[r][i])) # "none"
    BY <2>2, ReplyClassified
  <2>4. Locations(heard[r])[i] = ClassifyMessage(NormalizeReply(heard[r][i]))
    BY DEF Locations, Normalized
  <2> QED
    BY <2>3, <2>4
<1> QED
  BY <1>1, <1>2, StepHeard, PTL DEF Spec
=============================================================================
