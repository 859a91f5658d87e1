--------------------------- MODULE SchedulerProofs ---------------------------
(***************************************************************************)
(* Proofs about the scheduler for every number of clients and models.       *)
(*                                                                          *)
(* TypeOK and Reachable are inductive as they stand and hold under every    *)
(* configuration. OneResident and SlotSettled need unload_first, unloads    *)
(* that succeed and handlers that are not dropped, and follow from IInv:    *)
(* who holds load_lock, and what the holder's progress says of the slot and *)
(* of the child processes.  The counters of requests are exact under every  *)
(* configuration, and a drain that has ended saw a counter of zero; so no   *)
(* response that the drain owed a wait was left on the model.               *)
(***************************************************************************)
EXTENDS SchedulerHistory, FiniteSetTheorems, TLAPS

\* The model a task's label speaks of is a model, and each label belongs to
\* the tasks whose code reaches it.
RoleInv ==
    \A p \in Task :
        /\ p \in Loader /\ pc[p] \notin {"idle"} \cup Outcome => want[p] \in Model
        /\ pc[p] \in {"drain", "stop", "stopping", "retire", "drainold"} => prev[p] \in Model
        /\ stage[p] = "rollback" => prev[p] \in Model /\ pc[p] \in {"load", "boot", "giveup"}
        /\ pc[p] \in {"slot", "lookup", "probe", "plan", "load", "boot", "giveup",
                      "drainold", "mark"} => p \in Loader
        /\ pc[p] \in {"stop", "stopping", "clear"} => p # MemoryWatcher
        /\ pc[p] \in {"drain", "retire"} => p # Refresher
        /\ pc[p] = "install" => p = Refresher

TypeInv == TypeOK /\ RoleInv

Holds(p) == stage[p] \in {"locked", "rollback"}

\* Labels a task can only be at with, respectively without, load_lock.
Critical == {"plan", "decide", "drain", "stop", "stopping", "clear", "load",
             "boot", "giveup", "drainold", "retire", "mark", "install"}
Outside  == {"idle", "queue", "handed", "serving"} \cup Outcome

\* load_lock is held by exactly the task whose stage says so.
LockInv ==
    \A p \in Task :
        /\ Holds(p) <=> lock = p
        /\ pc[p] \in Critical => Holds(p)
        /\ pc[p] \in Outside => ~Holds(p)

NoChildBut(m) == \A n \in Model : proc[n] # "none" => n = m

\* The slot describes the machine.
SlotOK ==
    /\ NoChildBut(loaded)
    /\ loaded # NoModel => loaded \in backends /\ loaded \in models

\* What each label of the lock's holder says under unload_first.
HolderInv(p) ==
    /\ pc[p] \in {"slot", "lookup", "probe", "plan", "decide", "install",
                  "drain", "stop", "retire"} => SlotOK
    /\ pc[p] \in {"drain", "stop", "retire", "stopping"} => prev[p] = loaded
    /\ pc[p] = "stopping" => NoChildBut(loaded)
    /\ pc[p] \in {"clear", "load", "giveup"} => NoChildBut(NoModel)
    /\ pc[p] \in {"load", "boot", "giveup"} => loaded = NoModel
    /\ pc[p] = "boot" => NoChildBut(Goal(p)) /\ Goal(p) \in backends
    /\ pc[p] \in {"drain", "stop", "stopping", "clear", "load", "boot", "giveup"}
           /\ p \in Loader => want[p] \in models /\ prev[p] \in models \cup {NoModel}
    /\ pc[p] \notin {"drainold", "mark"}
    /\ pc[p] = "retire" => p = MemoryWatcher
    /\ pc[p] = "install" => loaded \in incoming \cup {NoModel}

ResidentInv ==
    /\ stuck = {}
    /\ lock = NoTask => SlotOK
    /\ \A p \in Task : lock = p => HolderInv(p)

IInv == TypeInv /\ LockInv /\ ResidentInv

-----------------------------------------------------------------------------
(* Type correctness *)

LEMMA TypeInit == Init => TypeInv
<1> SUFFICES ASSUME Init PROVE TypeInv
  OBVIOUS
<1>1. tries \in [Task -> 0..MaxRetries]
  BY ConfigAssumption DEF Init
<1>2. TypeOK
  BY <1>1 DEF Init, TypeOK, ProcState, PC, Stage, Outcome
<1>3. RoleInv
  BY DEF Init, RoleInv
<1> QED
  BY <1>2, <1>3 DEF TypeInv

LEMMA TypeStep == TypeInv /\ [Next]_vars => TypeInv'
<1> SUFFICES ASSUME TypeInv, [Next]_vars PROVE TypeInv'
  OBVIOUS
<1> USE TaskAssumption, ModelAssumption, ConfigAssumption
    DEF TypeInv, RoleInv, TypeOK, slotVars, gateVars, procVars, taskVars, Task,
        Loader, ProcState, PC, Stage, Outcome
<1>1. ASSUME NEW p \in Task, ReadSlot(p) PROVE TypeInv'
  BY <1>1 DEF ReadSlot, Goto, NotLive
<1>2. ASSUME NEW p \in Task, Lookup(p) PROVE TypeInv'
  BY <1>2 DEF Lookup, Goto, NotLive, Return
<1>3. ASSUME NEW p \in Task, Probe(p) PROVE TypeInv'
  BY <1>3 DEF Probe, Goto, NotLive, Return, Deliver, Touch
<1>4. ASSUME NEW p \in Task, Acquire(p) PROVE TypeInv'
  BY <1>4 DEF Acquire, Goto
<1>5. ASSUME NEW p \in Task, Plan(p) PROVE TypeInv'
  BY <1>5 DEF Plan, Goto, Return, Refuses
<1>6. ASSUME NEW p \in Task, DrainDone(p) PROVE TypeInv'
  <2>1. p # Refresher /\ prev[p] \in Model /\ stage[p] # "rollback"
    BY <1>6 DEF DrainDone
  <2>2. p # MemoryWatcher => p \in Loader
    BY <2>1
  <2>3. CASE p = MemoryWatcher
    <3>0. AfterDrain(p) = "retire"
      BY <2>3 DEF AfterDrain
    <3>1. p \notin Loader /\ pc' = [pc EXCEPT ![p] = "retire"]
      BY <1>6, <2>3, <3>0 DEF DrainDone, Goto
    <3>2. TypeOK'
      BY <1>6, <3>1 DEF DrainDone
    <3>3. RoleInv'
      BY <1>6, <3>1, <2>1 DEF DrainDone
    <3> QED
      BY <3>2, <3>3
  <2>4. CASE p # MemoryWatcher /\ Strategy = "load_first"
    BY <1>6, <2>1, <2>2, <2>4, SMTT(30) DEF DrainDone, Goto, AfterDrain
  <2>5. CASE p # MemoryWatcher /\ Strategy # "load_first"
    BY <1>6, <2>1, <2>2, <2>5, SMTT(30) DEF DrainDone, Goto, AfterDrain
  <2> QED
    BY <2>3, <2>4, <2>5
<1>7. ASSUME NEW p \in Task, DrainTimeout(p) PROVE TypeInv'
  BY <1>7 DEF DrainTimeout, Return, Drained
<1>8. ASSUME NEW p \in Task, Stop(p) PROVE TypeInv'
  BY <1>8 DEF Stop, Goto
<1>9. ASSUME NEW p \in Task, Stopped(p) PROVE TypeInv'
  BY <1>9 DEF Stopped, Goto
<1>10. ASSUME NEW p \in Task, StopFailed(p) PROVE TypeInv'
  BY <1>10 DEF StopFailed, Goto, Return
<1>11. ASSUME NEW p \in Task, Clear(p) PROVE TypeInv'
  BY <1>11 DEF Clear, Goto
<1>12. ASSUME NEW p \in Task, Spawn(p) PROVE TypeInv'
  BY <1>12 DEF Spawn, Goto, Goal
<1>13. ASSUME NEW p \in Task, AttemptFailed(p) PROVE TypeInv'
  BY <1>13 DEF AttemptFailed, Goto, Goal, MayRetry
<1>14. ASSUME NEW p \in Task, BootReady(p) PROVE TypeInv'
  <2>1. p \in Loader /\ want[p] \in Model
    BY <1>14 DEF BootReady
  <2>2. CASE stage[p] = "rollback"
    BY <1>14, <2>1, <2>2, SMTT(30) DEF BootReady, Return
  <2>3. CASE stage[p] = "locked" /\ (prev[p] = NoModel \/ Strategy = "unload_first")
    <3>1. CASE p \in Handler
      <4>1. pc' = [pc EXCEPT ![p] = "handed"] /\ stage' = [stage EXCEPT ![p] = "ensure"]
        BY <1>14, <2>3, <3>1 DEF BootReady, Return, MarkLoaded, Deliver
      <4>2. TypeOK'
        <5>1. recent' \in SUBSET Model
          BY <1>14, <2>1, <2>3 DEF BootReady, MarkLoaded, Touch
        <5>4. userSwitched' \in BOOLEAN
          BY <1>14, <2>3, Zenon DEF BootReady, MarkLoaded, NoteSwitch
        <5>2. /\ loaded' = want[p] /\ lock' \in {lock, NoTask}
              /\ want' = want /\ prev' = [prev EXCEPT ![p] = NoModel]
              /\ tries' = [tries EXCEPT ![p] = 0]
          BY <1>14, <2>3 DEF BootReady, Return, MarkLoaded, Deliver
        <5>3. UNCHANGED <<models, backends, active, cooldown, procVars, incoming>>
          BY <1>14 DEF BootReady
        <5> QED
          BY <2>1, <4>1, <5>1, <5>2, <5>3, <5>4
      <4>3. want' = want /\ prev' = [prev EXCEPT ![p] = NoModel]
        BY <1>14, <2>3 DEF BootReady, Return, MarkLoaded, Deliver
      <4>4. RoleInv'
        BY <2>1, <4>1, <4>3
      <4> QED
        BY <4>2, <4>4
    <3>2. CASE p \notin Handler
      BY <1>14, <2>1, <2>3, <3>2, SMTT(30)
         DEF BootReady, Return, MarkLoaded, Deliver, Touch, NoteSwitch
    <3> QED
      BY <3>1, <3>2
  <2>4. CASE stage[p] = "locked" /\ prev[p] # NoModel /\ Strategy = "load_first"
    BY <1>14, <2>1, <2>4, SMTT(30) DEF BootReady, Goto
  <2> QED
    BY <1>14, <2>2, <2>3, <2>4 DEF BootReady
<1>15. ASSUME NEW p \in Task, GiveUp(p) PROVE TypeInv'
  BY <1>15 DEF GiveUp, Goto, Return, OwesRollback
<1>16. ASSUME NEW p \in Task, RetireDrained(p) PROVE TypeInv'
  BY <1>16 DEF RetireDrained, Goto, Drained
<1>17. ASSUME NEW p \in Task, Retire(p) PROVE TypeInv'
  BY <1>17 DEF Retire, Goto, Return
<1>18. ASSUME NEW p \in Task, Mark(p) PROVE TypeInv'
  BY <1>18 DEF Mark, MarkLoaded, Deliver, Return, Touch, NoteSwitch
<1>19. CASE PriorityTick
  BY <1>19 DEF PriorityTick, Goto
<1>20. CASE PriorityFailed
  BY <1>20 DEF PriorityFailed, Goto
<1>21. CASE MemoryTick
  BY <1>21 DEF MemoryTick, Goto
<1>22. CASE MemoryDecide
  BY <1>22 DEF MemoryDecide, Goto, Return, HasActiveRequests
<1>23. ASSUME NEW r \in Registry, RefreshTick(r) PROVE TypeInv'
  BY <1>23 DEF RefreshTick, Goto
<1>24. CASE RefreshDecide
  BY <1>24 DEF RefreshDecide, Goto
<1>25. CASE Install
  BY <1>25 DEF Install, Return
<1>26. ASSUME NEW h \in Handler, NEW m \in Model, Arrive(h, m) PROVE TypeInv'
  BY <1>26 DEF Arrive, Goto
<1>27. ASSUME NEW h \in Handler, Track(h) PROVE TypeInv'
  BY <1>27 DEF Track, Goto
<1>28. ASSUME NEW h \in Handler, Finish(h) PROVE TypeInv'
  BY <1>28 DEF Finish, Goto
<1>29. ASSUME NEW h \in Handler, Respond(h) PROVE TypeInv'
  BY <1>29 DEF Respond, Goto
<1>30. ASSUME NEW p \in Task, Disconnect(p) PROVE TypeInv'
  BY <1>30 DEF Disconnect, DropsChild
<1>31. ASSUME NEW m \in Model, Boots(m) PROVE TypeInv'
  BY <1>31 DEF Boots, ProcStep
<1>32. ASSUME NEW m \in Model, Sickens(m) PROVE TypeInv'
  BY <1>32 DEF Sickens, ProcStep
<1>33. ASSUME NEW m \in Model, Recovers(m) PROVE TypeInv'
  BY <1>33 DEF Recovers, ProcStep
<1>34. ASSUME NEW m \in Model, Crashes(m) PROVE TypeInv'
  BY <1>34 DEF Crashes, ProcStep
<1>35. ASSUME NEW m \in Model, StuckExits(m) PROVE TypeInv'
  BY <1>35 DEF StuckExits
<1>36. ASSUME NEW m \in Model, Idles(m) PROVE TypeInv'
  BY <1>36 DEF Idles
<1>37. CASE SwitchAges
  BY <1>37 DEF SwitchAges
<1>38. CASE CooldownEnds
  BY <1>38 DEF CooldownEnds
<1>39. CASE UNCHANGED vars
  BY <1>39 DEF vars
<1> QED
  BY <1>1, <1>2, <1>3, <1>4, <1>5, <1>6, <1>7, <1>8, <1>9, <1>10, <1>11,
     <1>12, <1>13, <1>14, <1>15, <1>16, <1>17, <1>18, <1>19, <1>20, <1>21,
     <1>22, <1>23, <1>24, <1>25, <1>26, <1>27, <1>28, <1>29, <1>30, <1>31,
     <1>32, <1>33, <1>34, <1>35, <1>36, <1>37, <1>38, <1>39
     DEF Next, Step, Watchers, Clients, Environment

\* Every variable keeps its type, whatever the configuration.
THEOREM TypeCorrect == Spec => []TypeOK
<1>1. TypeInv => TypeOK
  BY DEF TypeInv
<1> QED
  BY <1>1, TypeInit, TypeStep, PTL DEF Spec

-----------------------------------------------------------------------------
(* Every child can be reached *)

LEMMA ReachableStep == TypeInv /\ Reachable /\ [Next]_vars => Reachable'
<1> SUFFICES ASSUME TypeInv, Reachable, [Next]_vars PROVE Reachable'
  OBVIOUS
<1> USE TaskAssumption DEF TypeInv, RoleInv, TypeOK, slotVars, gateVars, procVars,
        taskVars, Task, Loader, Outcome, Reachable, Children
<1>1. ASSUME NEW p \in Task, ReadSlot(p) PROVE Reachable'
  BY <1>1 DEF ReadSlot, Goto, NotLive
<1>2. ASSUME NEW p \in Task, Lookup(p) PROVE Reachable'
  BY <1>2 DEF Lookup, Goto, NotLive, Return
<1>3. ASSUME NEW p \in Task, Probe(p) PROVE Reachable'
  BY <1>3 DEF Probe, Goto, NotLive, Return, Deliver, Touch
<1>4. ASSUME NEW p \in Task, Acquire(p) PROVE Reachable'
  BY <1>4 DEF Acquire, Goto
<1>5. ASSUME NEW p \in Task, Plan(p) PROVE Reachable'
  BY <1>5 DEF Plan, Goto, Return, Refuses
<1>6. ASSUME NEW p \in Task, DrainDone(p) PROVE Reachable'
  BY <1>6 DEF DrainDone, Goto, AfterDrain, Drained
<1>7. ASSUME NEW p \in Task, DrainTimeout(p) PROVE Reachable'
  BY <1>7 DEF DrainTimeout, Return, Drained
<1>8. ASSUME NEW p \in Task, Stop(p) PROVE Reachable'
  BY <1>8 DEF Stop, Goto
<1>9. ASSUME NEW p \in Task, Stopped(p) PROVE Reachable'
  BY <1>9 DEF Stopped, Goto
<1>10. ASSUME NEW p \in Task, StopFailed(p) PROVE Reachable'
  BY <1>10 DEF StopFailed, Goto, Return
<1>11. ASSUME NEW p \in Task, Clear(p) PROVE Reachable'
  BY <1>11 DEF Clear, Goto
<1>12. ASSUME NEW p \in Task, Spawn(p) PROVE Reachable'
  BY <1>12 DEF Spawn, Goto, Goal
<1>13. ASSUME NEW p \in Task, AttemptFailed(p) PROVE Reachable'
  BY <1>13 DEF AttemptFailed, Goto, Goal, MayRetry
<1>14. ASSUME NEW p \in Task, BootReady(p) PROVE Reachable'
  BY <1>14 DEF BootReady, Goto, Goal, Return, MarkLoaded, Deliver, Touch, NoteSwitch
<1>15. ASSUME NEW p \in Task, GiveUp(p) PROVE Reachable'
  BY <1>15 DEF GiveUp, Goto, Return, OwesRollback
<1>16. ASSUME NEW p \in Task, RetireDrained(p) PROVE Reachable'
  BY <1>16 DEF RetireDrained, Goto, Drained
<1>17. ASSUME NEW p \in Task, Retire(p) PROVE Reachable'
  BY <1>17 DEF Retire, Goto, Return
<1>18. ASSUME NEW p \in Task, Mark(p) PROVE Reachable'
  BY <1>18 DEF Mark, MarkLoaded, Deliver, Return, Touch, NoteSwitch
<1>19. CASE PriorityTick
  BY <1>19 DEF PriorityTick, Goto
<1>20. CASE PriorityFailed
  BY <1>20 DEF PriorityFailed, Goto
<1>21. CASE MemoryTick
  BY <1>21 DEF MemoryTick, Goto
<1>22. CASE MemoryDecide
  BY <1>22 DEF MemoryDecide, Goto, Return, HasActiveRequests
<1>23. ASSUME NEW r \in Registry, RefreshTick(r) PROVE Reachable'
  BY <1>23 DEF RefreshTick, Goto
<1>24. CASE RefreshDecide
  BY <1>24 DEF RefreshDecide, Goto
<1>25. CASE Install
  BY <1>25 DEF Install, Return
<1>26. ASSUME NEW h \in Handler, NEW m \in Model, Arrive(h, m) PROVE Reachable'
  BY <1>26 DEF Arrive, Goto
<1>27. ASSUME NEW h \in Handler, Track(h) PROVE Reachable'
  BY <1>27 DEF Track, Goto
<1>28. ASSUME NEW h \in Handler, Finish(h) PROVE Reachable'
  BY <1>28 DEF Finish, Goto
<1>29. ASSUME NEW h \in Handler, Respond(h) PROVE Reachable'
  BY <1>29 DEF Respond, Goto
<1>30. ASSUME NEW p \in Task, Disconnect(p) PROVE Reachable'
  BY <1>30 DEF Disconnect, DropsChild
<1>31. ASSUME NEW m \in Model, Boots(m) PROVE Reachable'
  BY <1>31 DEF Boots, ProcStep
<1>32. ASSUME NEW m \in Model, Sickens(m) PROVE Reachable'
  BY <1>32 DEF Sickens, ProcStep
<1>33. ASSUME NEW m \in Model, Recovers(m) PROVE Reachable'
  BY <1>33 DEF Recovers, ProcStep
<1>34. ASSUME NEW m \in Model, Crashes(m) PROVE Reachable'
  BY <1>34 DEF Crashes, ProcStep
<1>35. ASSUME NEW m \in Model, StuckExits(m) PROVE Reachable'
  BY <1>35 DEF StuckExits
<1>36. ASSUME NEW m \in Model, Idles(m) PROVE Reachable'
  BY <1>36 DEF Idles
<1>37. CASE SwitchAges
  BY <1>37 DEF SwitchAges
<1>38. CASE CooldownEnds
  BY <1>38 DEF CooldownEnds
<1>39. CASE UNCHANGED vars
  BY <1>39 DEF vars
<1> QED
  BY <1>1, <1>2, <1>3, <1>4, <1>5, <1>6, <1>7, <1>8, <1>9, <1>10, <1>11,
     <1>12, <1>13, <1>14, <1>15, <1>16, <1>17, <1>18, <1>19, <1>20, <1>21,
     <1>22, <1>23, <1>24, <1>25, <1>26, <1>27, <1>28, <1>29, <1>30, <1>31,
     <1>32, <1>33, <1>34, <1>35, <1>36, <1>37, <1>38, <1>39
     DEF Next, Step, Watchers, Clients, Environment

\* A child never loses its entry in the backend map, except to the task that is
\* stopping it: a refresh and the shutdown reach every child there is.
THEOREM ReachableCorrect == Spec => []Reachable
<1>1. Init => TypeInv /\ Reachable
  BY TypeInit DEF Init, Reachable, Children
<1>2. TypeInv /\ Reachable /\ [Next]_vars => (TypeInv /\ Reachable)'
  BY TypeStep, ReachableStep
<1> QED
  BY <1>1, <1>2, PTL DEF Spec

-----------------------------------------------------------------------------
(* One task at a time is inside the critical section *)

LEMMA LockStep == TypeInv /\ LockInv /\ [Next]_vars => LockInv'
<1> SUFFICES ASSUME TypeInv, LockInv, [Next]_vars PROVE LockInv'
  OBVIOUS
<1> USE TaskAssumption DEF TypeInv, RoleInv, TypeOK, slotVars, gateVars, procVars,
        taskVars, Task, Loader, PC, Stage, Outcome, LockInv, Holds, Critical, Outside
<1>1. ASSUME NEW p \in Task, ReadSlot(p) PROVE LockInv'
  BY <1>1 DEF ReadSlot, Goto, NotLive
<1>2. ASSUME NEW p \in Task, Lookup(p) PROVE LockInv'
  BY <1>2 DEF Lookup, Goto, NotLive, Return
<1>3. ASSUME NEW p \in Task, Probe(p) PROVE LockInv'
  BY <1>3 DEF Probe, Goto, NotLive, Return, Deliver, Touch
<1>4. ASSUME NEW p \in Task, Acquire(p) PROVE LockInv'
  BY <1>4 DEF Acquire, Goto
<1>5. ASSUME NEW p \in Task, Plan(p) PROVE LockInv'
  BY <1>5 DEF Plan, Goto, Return, Refuses
<1>6. ASSUME NEW p \in Task, DrainDone(p) PROVE LockInv'
  BY <1>6 DEF DrainDone, Goto, AfterDrain, Drained
<1>7. ASSUME NEW p \in Task, DrainTimeout(p) PROVE LockInv'
  BY <1>7 DEF DrainTimeout, Return, Drained
<1>8. ASSUME NEW p \in Task, Stop(p) PROVE LockInv'
  BY <1>8 DEF Stop, Goto
<1>9. ASSUME NEW p \in Task, Stopped(p) PROVE LockInv'
  BY <1>9 DEF Stopped, Goto
<1>10. ASSUME NEW p \in Task, StopFailed(p) PROVE LockInv'
  BY <1>10 DEF StopFailed, Goto, Return
<1>11. ASSUME NEW p \in Task, Clear(p) PROVE LockInv'
  BY <1>11 DEF Clear, Goto
<1>12. ASSUME NEW p \in Task, Spawn(p) PROVE LockInv'
  BY <1>12 DEF Spawn, Goto, Goal
<1>13. ASSUME NEW p \in Task, AttemptFailed(p) PROVE LockInv'
  BY <1>13 DEF AttemptFailed, Goto, Goal, MayRetry
<1>14. ASSUME NEW p \in Task, BootReady(p) PROVE LockInv'
  BY <1>14 DEF BootReady, Goto, Goal, Return, MarkLoaded, Deliver, Touch, NoteSwitch
<1>15. ASSUME NEW p \in Task, GiveUp(p) PROVE LockInv'
  BY <1>15 DEF GiveUp, Goto, Return, OwesRollback
<1>16. ASSUME NEW p \in Task, RetireDrained(p) PROVE LockInv'
  BY <1>16 DEF RetireDrained, Goto, Drained
<1>17. ASSUME NEW p \in Task, Retire(p) PROVE LockInv'
  BY <1>17 DEF Retire, Goto, Return
<1>18. ASSUME NEW p \in Task, Mark(p) PROVE LockInv'
  BY <1>18 DEF Mark, MarkLoaded, Deliver, Return, Touch, NoteSwitch
<1>19. CASE PriorityTick
  BY <1>19 DEF PriorityTick, Goto
<1>20. CASE PriorityFailed
  BY <1>20 DEF PriorityFailed, Goto
<1>21. CASE MemoryTick
  BY <1>21 DEF MemoryTick, Goto
<1>22. CASE MemoryDecide
  BY <1>22 DEF MemoryDecide, Goto, Return, HasActiveRequests
<1>23. ASSUME NEW r \in Registry, RefreshTick(r) PROVE LockInv'
  BY <1>23 DEF RefreshTick, Goto
<1>24. CASE RefreshDecide
  BY <1>24 DEF RefreshDecide, Goto
<1>25. CASE Install
  BY <1>25 DEF Install, Return
<1>26. ASSUME NEW h \in Handler, NEW m \in Model, Arrive(h, m) PROVE LockInv'
  BY <1>26 DEF Arrive, Goto
<1>27. ASSUME NEW h \in Handler, Track(h) PROVE LockInv'
  BY <1>27 DEF Track, Goto
<1>28. ASSUME NEW h \in Handler, Finish(h) PROVE LockInv'
  BY <1>28 DEF Finish, Goto
<1>29. ASSUME NEW h \in Handler, Respond(h) PROVE LockInv'
  BY <1>29 DEF Respond, Goto
<1>30. ASSUME NEW p \in Task, Disconnect(p) PROVE LockInv'
  BY <1>30 DEF Disconnect, DropsChild
<1>31. ASSUME NEW m \in Model, Boots(m) PROVE LockInv'
  BY <1>31 DEF Boots, ProcStep
<1>32. ASSUME NEW m \in Model, Sickens(m) PROVE LockInv'
  BY <1>32 DEF Sickens, ProcStep
<1>33. ASSUME NEW m \in Model, Recovers(m) PROVE LockInv'
  BY <1>33 DEF Recovers, ProcStep
<1>34. ASSUME NEW m \in Model, Crashes(m) PROVE LockInv'
  BY <1>34 DEF Crashes, ProcStep
<1>35. ASSUME NEW m \in Model, StuckExits(m) PROVE LockInv'
  BY <1>35 DEF StuckExits
<1>36. ASSUME NEW m \in Model, Idles(m) PROVE LockInv'
  BY <1>36 DEF Idles
<1>37. CASE SwitchAges
  BY <1>37 DEF SwitchAges
<1>38. CASE CooldownEnds
  BY <1>38 DEF CooldownEnds
<1>39. CASE UNCHANGED vars
  BY <1>39 DEF vars
<1> QED
  BY <1>1, <1>2, <1>3, <1>4, <1>5, <1>6, <1>7, <1>8, <1>9, <1>10, <1>11,
     <1>12, <1>13, <1>14, <1>15, <1>16, <1>17, <1>18, <1>19, <1>20, <1>21,
     <1>22, <1>23, <1>24, <1>25, <1>26, <1>27, <1>28, <1>29, <1>30, <1>31,
     <1>32, <1>33, <1>34, <1>35, <1>36, <1>37, <1>38, <1>39
     DEF Next, Step, Watchers, Clients, Environment

LEMMA LockInit == Init => LockInv
  BY TaskAssumption DEF Init, LockInv, Holds, Critical, Outside, Outcome, Task


-----------------------------------------------------------------------------
(* One resident process *)

LEMMA ResidentStep ==
  ASSUME Strategy = "unload_first", ~UnloadCanFail, ~ClientsDisconnect,
         TypeInv, LockInv, ResidentInv, [Next]_vars
  PROVE  ResidentInv'
<1> USE TaskAssumption, ModelAssumption
    DEF TypeInv, RoleInv, TypeOK, slotVars, gateVars, procVars, taskVars, Task,
        Loader, ProcState, PC, Stage, Outcome, LockInv, Holds, Critical, Outside,
        ResidentInv, HolderInv, NoChildBut, SlotOK, Goal
<1>1. ASSUME NEW p \in Task, ReadSlot(p) PROVE ResidentInv'
  BY <1>1 DEF ReadSlot, Goto, NotLive
<1>2. ASSUME NEW p \in Task, Lookup(p) PROVE ResidentInv'
  BY <1>2 DEF Lookup, Goto, NotLive, Return
<1>3. ASSUME NEW p \in Task, Probe(p) PROVE ResidentInv'
  BY <1>3 DEF Probe, Goto, NotLive, Return, Deliver, Touch
<1>4. ASSUME NEW p \in Task, Acquire(p) PROVE ResidentInv'
  BY <1>4 DEF Acquire, Goto
<1>5. ASSUME NEW p \in Task, Plan(p) PROVE ResidentInv'
  BY <1>5 DEF Plan, Goto, Return, Refuses
<1>6. ASSUME NEW p \in Task, DrainDone(p) PROVE ResidentInv'
  BY <1>6 DEF DrainDone, Goto, AfterDrain, Drained
<1>7. ASSUME NEW p \in Task, DrainTimeout(p) PROVE ResidentInv'
  BY <1>7 DEF DrainTimeout, Return, Drained
<1>8. ASSUME NEW p \in Task, Stop(p) PROVE ResidentInv'
  BY <1>8 DEF Stop, Goto
<1>9. ASSUME NEW p \in Task, Stopped(p) PROVE ResidentInv'
  BY <1>9 DEF Stopped, Goto
<1>10. ASSUME NEW p \in Task, StopFailed(p) PROVE ResidentInv'
  BY <1>10 DEF StopFailed, Goto, Return
<1>11. ASSUME NEW p \in Task, Clear(p) PROVE ResidentInv'
  BY <1>11 DEF Clear, Goto
<1>12. ASSUME NEW p \in Task, Spawn(p) PROVE ResidentInv'
  BY <1>12 DEF Spawn, Goto, Goal
<1>13. ASSUME NEW p \in Task, AttemptFailed(p) PROVE ResidentInv'
  BY <1>13 DEF AttemptFailed, Goto, Goal, MayRetry
<1>14. ASSUME NEW p \in Task, BootReady(p) PROVE ResidentInv'
  BY <1>14 DEF BootReady, Goto, Goal, Return, MarkLoaded, Deliver, Touch, NoteSwitch
<1>15. ASSUME NEW p \in Task, GiveUp(p) PROVE ResidentInv'
  BY <1>15 DEF GiveUp, Goto, Return, OwesRollback
<1>16. ASSUME NEW p \in Task, RetireDrained(p) PROVE ResidentInv'
  BY <1>16 DEF RetireDrained, Goto, Drained
<1>17. ASSUME NEW p \in Task, Retire(p) PROVE ResidentInv'
  BY <1>17 DEF Retire, Goto, Return
<1>18. ASSUME NEW p \in Task, Mark(p) PROVE ResidentInv'
  BY <1>18 DEF Mark, MarkLoaded, Deliver, Return, Touch, NoteSwitch
<1>19. CASE PriorityTick
  BY <1>19 DEF PriorityTick, Goto
<1>20. CASE PriorityFailed
  BY <1>20 DEF PriorityFailed, Goto
<1>21. CASE MemoryTick
  BY <1>21 DEF MemoryTick, Goto
<1>22. CASE MemoryDecide
  BY <1>22 DEF MemoryDecide, Goto, Return, HasActiveRequests
<1>23. ASSUME NEW r \in Registry, RefreshTick(r) PROVE ResidentInv'
  BY <1>23 DEF RefreshTick, Goto
<1>24. CASE RefreshDecide
  BY <1>24 DEF RefreshDecide, Goto
<1>25. CASE Install
  BY <1>25 DEF Install, Return
<1>26. ASSUME NEW h \in Handler, NEW m \in Model, Arrive(h, m) PROVE ResidentInv'
  BY <1>26 DEF Arrive, Goto
<1>27. ASSUME NEW h \in Handler, Track(h) PROVE ResidentInv'
  BY <1>27 DEF Track, Goto
<1>28. ASSUME NEW h \in Handler, Finish(h) PROVE ResidentInv'
  BY <1>28 DEF Finish, Goto
<1>29. ASSUME NEW h \in Handler, Respond(h) PROVE ResidentInv'
  BY <1>29 DEF Respond, Goto
<1>30. ASSUME NEW p \in Task, Disconnect(p) PROVE ResidentInv'
  BY <1>30 DEF Disconnect, DropsChild
<1>31. ASSUME NEW m \in Model, Boots(m) PROVE ResidentInv'
  BY <1>31 DEF Boots, ProcStep
<1>32. ASSUME NEW m \in Model, Sickens(m) PROVE ResidentInv'
  BY <1>32 DEF Sickens, ProcStep
<1>33. ASSUME NEW m \in Model, Recovers(m) PROVE ResidentInv'
  BY <1>33 DEF Recovers, ProcStep
<1>34. ASSUME NEW m \in Model, Crashes(m) PROVE ResidentInv'
  BY <1>34 DEF Crashes, ProcStep
<1>35. ASSUME NEW m \in Model, StuckExits(m) PROVE ResidentInv'
  BY <1>35 DEF StuckExits
<1>36. ASSUME NEW m \in Model, Idles(m) PROVE ResidentInv'
  BY <1>36 DEF Idles
<1>37. CASE SwitchAges
  BY <1>37 DEF SwitchAges
<1>38. CASE CooldownEnds
  BY <1>38 DEF CooldownEnds
<1>39. CASE UNCHANGED vars
  BY <1>39 DEF vars
<1> QED
  BY <1>1, <1>2, <1>3, <1>4, <1>5, <1>6, <1>7, <1>8, <1>9, <1>10, <1>11,
     <1>12, <1>13, <1>14, <1>15, <1>16, <1>17, <1>18, <1>19, <1>20, <1>21,
     <1>22, <1>23, <1>24, <1>25, <1>26, <1>27, <1>28, <1>29, <1>30, <1>31,
     <1>32, <1>33, <1>34, <1>35, <1>36, <1>37, <1>38, <1>39
     DEF Next, Step, Watchers, Clients, Environment


LEMMA ResidentInit == Init => ResidentInv
  BY TaskAssumption, ModelAssumption DEF Init, ResidentInv, SlotOK, NoChildBut, HolderInv

\* load_lock's holder is at a label where at most one child may exist.
LEMMA OneChild ==
  ASSUME TypeInv, LockInv, ResidentInv
  PROVE  \E m \in Model \cup {NoModel} : NoChildBut(m)
<1> USE TaskAssumption DEF TypeInv, TypeOK
<1>1. CASE lock = NoTask
  BY <1>1 DEF ResidentInv, SlotOK
<1>2. CASE lock # NoTask
  <2>1. lock \in Task /\ HolderInv(lock) /\ pc[lock] \in PC \ Outside
    BY <1>2 DEF ResidentInv, LockInv
  <2>2. CASE pc[lock] = "boot"
    <3>1. Goal(lock) \in Model \cup {NoModel}
      BY <2>1 DEF Goal
    <3> QED
      BY <2>1, <2>2, <3>1 DEF HolderInv
  <2>3. CASE pc[lock] # "boot"
    BY <2>1, <2>3 DEF HolderInv, SlotOK, PC, Outside, Outcome
  <2> QED
    BY <2>2, <2>3
<1> QED
  BY <1>1, <1>2

LEMMA AtMostOne ==
  ASSUME TypeInv, LockInv, ResidentInv
  PROVE  OneResident
<1>1. PICK m \in Model \cup {NoModel} : NoChildBut(m)
  BY OneChild
<1>2. Children \subseteq {m}
  BY <1>1 DEF Children, NoChildBut
<1>3. IsFiniteSet({m}) /\ Cardinality({m}) = 1
  BY FS_Singleton
<1>4. Cardinality(Children) <= 1 /\ Cardinality(Children) \in Nat
  BY <1>2, <1>3, FS_Subset, FS_CardinalityType
<1>5. Cardinality(stuck) = 0
  BY FS_EmptySet DEF ResidentInv
<1> QED
  BY <1>4, <1>5 DEF OneResident

LEMMA Settled ==
  ASSUME TypeInv, ResidentInv
  PROVE  SlotSettled
  BY DEF ResidentInv, SlotOK, NoChildBut, SlotSettled, Children, TypeInv, TypeOK

LEMMA Invariance ==
  ASSUME Strategy = "unload_first", ~UnloadCanFail, ~ClientsDisconnect
  PROVE  Spec => []IInv
<1>1. Init => IInv
  BY TypeInit, LockInit, ResidentInit DEF IInv
<1>2. IInv /\ [Next]_vars => IInv'
  BY TypeStep, LockStep, ResidentStep DEF IInv
<1> QED
  BY <1>1, <1>2, PTL DEF Spec

\* Under unload_first, with unloads that succeed and callers that stay, two
\* model processes never run at once.
THEOREM OneResidentCorrect ==
  ASSUME Strategy = "unload_first", ~UnloadCanFail, ~ClientsDisconnect
  PROVE  Spec => []OneResident
<1>1. IInv => OneResident
  BY AtMostOne DEF IInv
<1> QED
  BY <1>1, Invariance, PTL

\* Under the same assumptions the slot, the backend map, the registry and the
\* processes agree whenever load_lock is free.
THEOREM SlotSettledCorrect ==
  ASSUME Strategy = "unload_first", ~UnloadCanFail, ~ClientsDisconnect
  PROVE  Spec => []SlotSettled
<1>1. IInv => SlotSettled
  BY Settled DEF IInv
<1> QED
  BY <1>1, Invariance, PTL

-----------------------------------------------------------------------------
(* The scheduler implements the one-slot machine *)

LEMMA MachineStep ==
  ASSUME Strategy = "unload_first", ~UnloadCanFail, ~ClientsDisconnect,
         TypeInv, LockInv, ResidentInv, [Next]_vars
  PROVE  [Machine!Next]_(Machine!vars)
<1> USE TaskAssumption, ModelAssumption
    DEF TypeInv, RoleInv, TypeOK, slotVars, gateVars, procVars, taskVars, Task,
        Loader, ProcState, PC, Stage, Outcome, LockInv, Holds, Critical, Outside,
        ResidentInv, HolderInv, NoChildBut, SlotOK, Goal, Children,
        Machine!Next, Machine!vars, Machine!Start, Machine!Publish, Machine!Exit,
        Machine!Retract
<1>1. ASSUME NEW p \in Task, ReadSlot(p) PROVE [Machine!Next]_(Machine!vars)
  BY <1>1 DEF ReadSlot, Goto, NotLive
<1>2. ASSUME NEW p \in Task, Lookup(p) PROVE [Machine!Next]_(Machine!vars)
  BY <1>2 DEF Lookup, Goto, NotLive, Return
<1>3. ASSUME NEW p \in Task, Probe(p) PROVE [Machine!Next]_(Machine!vars)
  BY <1>3 DEF Probe, Goto, NotLive, Return, Deliver, Touch
<1>4. ASSUME NEW p \in Task, Acquire(p) PROVE [Machine!Next]_(Machine!vars)
  BY <1>4 DEF Acquire, Goto
<1>5. ASSUME NEW p \in Task, Plan(p) PROVE [Machine!Next]_(Machine!vars)
  BY <1>5 DEF Plan, Goto, Return, Refuses
<1>6. ASSUME NEW p \in Task, DrainDone(p) PROVE [Machine!Next]_(Machine!vars)
  BY <1>6 DEF DrainDone, Goto, AfterDrain, Drained
<1>7. ASSUME NEW p \in Task, DrainTimeout(p) PROVE [Machine!Next]_(Machine!vars)
  BY <1>7 DEF DrainTimeout, Return, Drained
<1>8. ASSUME NEW p \in Task, Stop(p) PROVE [Machine!Next]_(Machine!vars)
  BY <1>8 DEF Stop, Goto
<1>9. ASSUME NEW p \in Task, Stopped(p) PROVE [Machine!Next]_(Machine!vars)
  BY <1>9 DEF Stopped, Goto
<1>10. ASSUME NEW p \in Task, StopFailed(p) PROVE [Machine!Next]_(Machine!vars)
  BY <1>10 DEF StopFailed, Goto, Return
<1>11. ASSUME NEW p \in Task, Clear(p) PROVE [Machine!Next]_(Machine!vars)
  BY <1>11 DEF Clear, Goto
<1>12. ASSUME NEW p \in Task, Spawn(p) PROVE [Machine!Next]_(Machine!vars)
  BY <1>12 DEF Spawn, Goto, Goal
<1>13. ASSUME NEW p \in Task, AttemptFailed(p) PROVE [Machine!Next]_(Machine!vars)
  BY <1>13 DEF AttemptFailed, Goto, Goal, MayRetry
<1>14. ASSUME NEW p \in Task, BootReady(p) PROVE [Machine!Next]_(Machine!vars)
  BY <1>14 DEF BootReady, Goto, Goal, Return, MarkLoaded, Deliver, Touch, NoteSwitch
<1>15. ASSUME NEW p \in Task, GiveUp(p) PROVE [Machine!Next]_(Machine!vars)
  BY <1>15 DEF GiveUp, Goto, Return, OwesRollback
<1>16. ASSUME NEW p \in Task, RetireDrained(p) PROVE [Machine!Next]_(Machine!vars)
  BY <1>16 DEF RetireDrained, Goto, Drained
<1>17. ASSUME NEW p \in Task, Retire(p) PROVE [Machine!Next]_(Machine!vars)
  BY <1>17 DEF Retire, Goto, Return
<1>18. ASSUME NEW p \in Task, Mark(p) PROVE [Machine!Next]_(Machine!vars)
  BY <1>18 DEF Mark, MarkLoaded, Deliver, Return, Touch, NoteSwitch
<1>19. CASE PriorityTick
  BY <1>19 DEF PriorityTick, Goto
<1>20. CASE PriorityFailed
  BY <1>20 DEF PriorityFailed, Goto
<1>21. CASE MemoryTick
  BY <1>21 DEF MemoryTick, Goto
<1>22. CASE MemoryDecide
  BY <1>22 DEF MemoryDecide, Goto, Return, HasActiveRequests
<1>23. ASSUME NEW r \in Registry, RefreshTick(r) PROVE [Machine!Next]_(Machine!vars)
  BY <1>23 DEF RefreshTick, Goto
<1>24. CASE RefreshDecide
  BY <1>24 DEF RefreshDecide, Goto
<1>25. CASE Install
  BY <1>25 DEF Install, Return
<1>26. ASSUME NEW h \in Handler, NEW m \in Model, Arrive(h, m) PROVE [Machine!Next]_(Machine!vars)
  BY <1>26 DEF Arrive, Goto
<1>27. ASSUME NEW h \in Handler, Track(h) PROVE [Machine!Next]_(Machine!vars)
  BY <1>27 DEF Track, Goto
<1>28. ASSUME NEW h \in Handler, Finish(h) PROVE [Machine!Next]_(Machine!vars)
  BY <1>28 DEF Finish, Goto
<1>29. ASSUME NEW h \in Handler, Respond(h) PROVE [Machine!Next]_(Machine!vars)
  BY <1>29 DEF Respond, Goto
<1>30. ASSUME NEW p \in Task, Disconnect(p) PROVE [Machine!Next]_(Machine!vars)
  BY <1>30 DEF Disconnect, DropsChild
<1>31. ASSUME NEW m \in Model, Boots(m) PROVE [Machine!Next]_(Machine!vars)
  BY <1>31 DEF Boots, ProcStep
<1>32. ASSUME NEW m \in Model, Sickens(m) PROVE [Machine!Next]_(Machine!vars)
  BY <1>32 DEF Sickens, ProcStep
<1>33. ASSUME NEW m \in Model, Recovers(m) PROVE [Machine!Next]_(Machine!vars)
  BY <1>33 DEF Recovers, ProcStep
<1>34. ASSUME NEW m \in Model, Crashes(m) PROVE [Machine!Next]_(Machine!vars)
  BY <1>34 DEF Crashes, ProcStep
<1>35. ASSUME NEW m \in Model, StuckExits(m) PROVE [Machine!Next]_(Machine!vars)
  BY <1>35 DEF StuckExits
<1>36. ASSUME NEW m \in Model, Idles(m) PROVE [Machine!Next]_(Machine!vars)
  BY <1>36 DEF Idles
<1>37. CASE SwitchAges
  BY <1>37 DEF SwitchAges
<1>38. CASE CooldownEnds
  BY <1>38 DEF CooldownEnds
<1>39. CASE UNCHANGED vars
  BY <1>39 DEF vars
<1> QED
  BY <1>1, <1>2, <1>3, <1>4, <1>5, <1>6, <1>7, <1>8, <1>9, <1>10, <1>11,
     <1>12, <1>13, <1>14, <1>15, <1>16, <1>17, <1>18, <1>19, <1>20, <1>21,
     <1>22, <1>23, <1>24, <1>25, <1>26, <1>27, <1>28, <1>29, <1>30, <1>31,
     <1>32, <1>33, <1>34, <1>35, <1>36, <1>37, <1>38, <1>39
     DEF Next, Step, Watchers, Clients, Environment

\* Every step of every task is a step of the one-slot machine or changes neither
\* the slot nor the set of running processes.
THEOREM MachineCorrect ==
  ASSUME Strategy = "unload_first", ~UnloadCanFail, ~ClientsDisconnect
  PROVE  Spec => MachineSpec
<1>1. Init => Machine!Init
  BY DEF Init, Machine!Init, Children
<1>2. IInv /\ [Next]_vars => [Machine!Next]_(Machine!vars)
  BY MachineStep DEF IInv
<1> QED
  BY <1>1, <1>2, Invariance, PTL DEF Spec, MachineSpec, Machine!Spec

-----------------------------------------------------------------------------
(* What a switch may do to the slot, for every configuration: a damaged     *)
(* target changes nothing, and a switch that fails leaves the model it was  *)
(* to replace.  Both follow from LockInv, since only the holder of          *)
(* load_lock writes the slot or the map, and from where in load_model_id    *)
(* the holder is when it writes.                                            *)


\* Before the plan of a switch is made.
Early == {"slot", "lookup", "probe", "plan"}

\* A loader whose target is damaged does not get past the preflight.
DamagedInv ==
    \A p \in Loader : lock = p /\ want[p] \in Damaged => pc[p] \in Early

LEMMA DamagedStep ==
  TypeInv /\ LockInv /\ DamagedInv /\ [Next]_vars => DamagedInv'
<1> SUFFICES ASSUME TypeInv, LockInv, DamagedInv, [Next]_vars PROVE DamagedInv'
  OBVIOUS
<1> USE TaskAssumption, ModelAssumption, ConfigAssumption
    DEF TypeInv, RoleInv, TypeOK, slotVars, gateVars, procVars, taskVars, Task, Loader,
        Outcome, LockInv, Holds, Critical, Outside, DamagedInv, Early
<1>1. ASSUME NEW p \in Task, ReadSlot(p) PROVE DamagedInv'
  BY <1>1 DEF ReadSlot, Goto, NotLive
<1>2. ASSUME NEW p \in Task, Lookup(p) PROVE DamagedInv'
  BY <1>2 DEF Lookup, Goto, NotLive, Return
<1>3. ASSUME NEW p \in Task, Probe(p) PROVE DamagedInv'
  BY <1>3 DEF Probe, Goto, NotLive, Return, Deliver, Touch
<1>4. ASSUME NEW p \in Task, Acquire(p) PROVE DamagedInv'
  BY <1>4 DEF Acquire, Goto
<1>5. ASSUME NEW p \in Task, Plan(p) PROVE DamagedInv'
  BY <1>5 DEF Plan, Goto, Return, Refuses
<1>6. ASSUME NEW p \in Task, DrainDone(p) PROVE DamagedInv'
  BY <1>6 DEF DrainDone, Goto, AfterDrain, Drained
<1>7. ASSUME NEW p \in Task, DrainTimeout(p) PROVE DamagedInv'
  BY <1>7 DEF DrainTimeout, Return, Drained
<1>8. ASSUME NEW p \in Task, Stop(p) PROVE DamagedInv'
  BY <1>8 DEF Stop, Goto
<1>9. ASSUME NEW p \in Task, Stopped(p) PROVE DamagedInv'
  BY <1>9 DEF Stopped, Goto
<1>10. ASSUME NEW p \in Task, StopFailed(p) PROVE DamagedInv'
  BY <1>10 DEF StopFailed, Goto, Return
<1>11. ASSUME NEW p \in Task, Clear(p) PROVE DamagedInv'
  BY <1>11 DEF Clear, Goto
<1>12. ASSUME NEW p \in Task, Spawn(p) PROVE DamagedInv'
  BY <1>12 DEF Spawn, Goto, Goal
<1>13. ASSUME NEW p \in Task, AttemptFailed(p) PROVE DamagedInv'
  BY <1>13 DEF AttemptFailed, Goto, Goal, MayRetry
<1>14. ASSUME NEW p \in Task, BootReady(p) PROVE DamagedInv'
  BY <1>14 DEF BootReady, Goto, Goal, Return, MarkLoaded, Deliver, Touch, NoteSwitch
<1>15. ASSUME NEW p \in Task, GiveUp(p) PROVE DamagedInv'
  BY <1>15 DEF GiveUp, Goto, Return, OwesRollback
<1>16. ASSUME NEW p \in Task, RetireDrained(p) PROVE DamagedInv'
  BY <1>16 DEF RetireDrained, Goto, Drained
<1>17. ASSUME NEW p \in Task, Retire(p) PROVE DamagedInv'
  BY <1>17 DEF Retire, Goto, Return
<1>18. ASSUME NEW p \in Task, Mark(p) PROVE DamagedInv'
  BY <1>18 DEF Mark, MarkLoaded, Deliver, Return, Touch, NoteSwitch
<1>19. CASE PriorityTick
  BY <1>19 DEF PriorityTick, Goto
<1>20. CASE PriorityFailed
  BY <1>20 DEF PriorityFailed, Goto
<1>21. CASE MemoryTick
  BY <1>21 DEF MemoryTick, Goto
<1>22. CASE MemoryDecide
  BY <1>22 DEF MemoryDecide, Goto, Return, HasActiveRequests
<1>23. ASSUME NEW r \in Registry, RefreshTick(r) PROVE DamagedInv'
  BY <1>23 DEF RefreshTick, Goto
<1>24. CASE RefreshDecide
  BY <1>24 DEF RefreshDecide, Goto
<1>25. CASE Install
  BY <1>25 DEF Install, Return
<1>26. ASSUME NEW h \in Handler, NEW m \in Model, Arrive(h, m) PROVE DamagedInv'
  BY <1>26 DEF Arrive, Goto
<1>27. ASSUME NEW h \in Handler, Track(h) PROVE DamagedInv'
  BY <1>27 DEF Track, Goto
<1>28. ASSUME NEW h \in Handler, Finish(h) PROVE DamagedInv'
  BY <1>28 DEF Finish, Goto
<1>29. ASSUME NEW h \in Handler, Respond(h) PROVE DamagedInv'
  BY <1>29 DEF Respond, Goto
<1>30. ASSUME NEW p \in Task, Disconnect(p) PROVE DamagedInv'
  BY <1>30 DEF Disconnect, DropsChild
<1>31. ASSUME NEW m \in Model, Boots(m) PROVE DamagedInv'
  BY <1>31 DEF Boots, ProcStep
<1>32. ASSUME NEW m \in Model, Sickens(m) PROVE DamagedInv'
  BY <1>32 DEF Sickens, ProcStep
<1>33. ASSUME NEW m \in Model, Recovers(m) PROVE DamagedInv'
  BY <1>33 DEF Recovers, ProcStep
<1>34. ASSUME NEW m \in Model, Crashes(m) PROVE DamagedInv'
  BY <1>34 DEF Crashes, ProcStep
<1>35. ASSUME NEW m \in Model, StuckExits(m) PROVE DamagedInv'
  BY <1>35 DEF StuckExits
<1>36. ASSUME NEW m \in Model, Idles(m) PROVE DamagedInv'
  BY <1>36 DEF Idles
<1>37. CASE SwitchAges
  BY <1>37 DEF SwitchAges
<1>38. CASE CooldownEnds
  BY <1>38 DEF CooldownEnds
<1>39. CASE UNCHANGED vars
  BY <1>39 DEF vars
<1> QED
  BY <1>1, <1>2, <1>3, <1>4, <1>5, <1>6, <1>7, <1>8, <1>9, <1>10, <1>11,
     <1>12, <1>13, <1>14, <1>15, <1>16, <1>17, <1>18, <1>19, <1>20, <1>21,
     <1>22, <1>23, <1>24, <1>25, <1>26, <1>27, <1>28, <1>29, <1>30, <1>31,
     <1>32, <1>33, <1>34, <1>35, <1>36, <1>37, <1>38, <1>39
     DEF Next, Step, Watchers, Clients, Environment

\* Until it has planned its switch, the lock's holder leaves slot and map alone,
\* and nobody else touches them.
EarlyKeeps == \A p \in Loader : lock = p /\ pc[p] \in Early => UNCHANGED <<loaded, backends>>

LEMMA EarlyStep ==
  TypeInv /\ LockInv /\ [Next]_vars => EarlyKeeps
<1> SUFFICES ASSUME TypeInv, LockInv, [Next]_vars PROVE EarlyKeeps
  OBVIOUS
<1> USE TaskAssumption, ModelAssumption, ConfigAssumption
    DEF TypeInv, RoleInv, TypeOK, slotVars, gateVars, procVars, taskVars, Task, Loader,
        Outcome, LockInv, Holds, Critical, Outside, EarlyKeeps, Early
<1>1. ASSUME NEW p \in Task, ReadSlot(p) PROVE EarlyKeeps
  BY <1>1 DEF ReadSlot, Goto, NotLive
<1>2. ASSUME NEW p \in Task, Lookup(p) PROVE EarlyKeeps
  BY <1>2 DEF Lookup, Goto, NotLive, Return
<1>3. ASSUME NEW p \in Task, Probe(p) PROVE EarlyKeeps
  BY <1>3 DEF Probe, Goto, NotLive, Return, Deliver, Touch
<1>4. ASSUME NEW p \in Task, Acquire(p) PROVE EarlyKeeps
  BY <1>4 DEF Acquire, Goto
<1>5. ASSUME NEW p \in Task, Plan(p) PROVE EarlyKeeps
  BY <1>5 DEF Plan, Goto, Return, Refuses
<1>6. ASSUME NEW p \in Task, DrainDone(p) PROVE EarlyKeeps
  BY <1>6 DEF DrainDone, Goto, AfterDrain, Drained
<1>7. ASSUME NEW p \in Task, DrainTimeout(p) PROVE EarlyKeeps
  BY <1>7 DEF DrainTimeout, Return, Drained
<1>8. ASSUME NEW p \in Task, Stop(p) PROVE EarlyKeeps
  BY <1>8 DEF Stop, Goto
<1>9. ASSUME NEW p \in Task, Stopped(p) PROVE EarlyKeeps
  BY <1>9 DEF Stopped, Goto
<1>10. ASSUME NEW p \in Task, StopFailed(p) PROVE EarlyKeeps
  BY <1>10 DEF StopFailed, Goto, Return
<1>11. ASSUME NEW p \in Task, Clear(p) PROVE EarlyKeeps
  BY <1>11 DEF Clear, Goto
<1>12. ASSUME NEW p \in Task, Spawn(p) PROVE EarlyKeeps
  BY <1>12 DEF Spawn, Goto, Goal
<1>13. ASSUME NEW p \in Task, AttemptFailed(p) PROVE EarlyKeeps
  BY <1>13 DEF AttemptFailed, Goto, Goal, MayRetry
<1>14. ASSUME NEW p \in Task, BootReady(p) PROVE EarlyKeeps
  BY <1>14 DEF BootReady, Goto, Goal, Return, MarkLoaded, Deliver, Touch, NoteSwitch
<1>15. ASSUME NEW p \in Task, GiveUp(p) PROVE EarlyKeeps
  BY <1>15 DEF GiveUp, Goto, Return, OwesRollback
<1>16. ASSUME NEW p \in Task, RetireDrained(p) PROVE EarlyKeeps
  BY <1>16 DEF RetireDrained, Goto, Drained
<1>17. ASSUME NEW p \in Task, Retire(p) PROVE EarlyKeeps
  BY <1>17 DEF Retire, Goto, Return
<1>18. ASSUME NEW p \in Task, Mark(p) PROVE EarlyKeeps
  BY <1>18 DEF Mark, MarkLoaded, Deliver, Return, Touch, NoteSwitch
<1>19. CASE PriorityTick
  BY <1>19 DEF PriorityTick, Goto
<1>20. CASE PriorityFailed
  BY <1>20 DEF PriorityFailed, Goto
<1>21. CASE MemoryTick
  BY <1>21 DEF MemoryTick, Goto
<1>22. CASE MemoryDecide
  BY <1>22 DEF MemoryDecide, Goto, Return, HasActiveRequests
<1>23. ASSUME NEW r \in Registry, RefreshTick(r) PROVE EarlyKeeps
  BY <1>23 DEF RefreshTick, Goto
<1>24. CASE RefreshDecide
  BY <1>24 DEF RefreshDecide, Goto
<1>25. CASE Install
  BY <1>25 DEF Install, Return
<1>26. ASSUME NEW h \in Handler, NEW m \in Model, Arrive(h, m) PROVE EarlyKeeps
  BY <1>26 DEF Arrive, Goto
<1>27. ASSUME NEW h \in Handler, Track(h) PROVE EarlyKeeps
  BY <1>27 DEF Track, Goto
<1>28. ASSUME NEW h \in Handler, Finish(h) PROVE EarlyKeeps
  BY <1>28 DEF Finish, Goto
<1>29. ASSUME NEW h \in Handler, Respond(h) PROVE EarlyKeeps
  BY <1>29 DEF Respond, Goto
<1>30. ASSUME NEW p \in Task, Disconnect(p) PROVE EarlyKeeps
  BY <1>30 DEF Disconnect, DropsChild
<1>31. ASSUME NEW m \in Model, Boots(m) PROVE EarlyKeeps
  BY <1>31 DEF Boots, ProcStep
<1>32. ASSUME NEW m \in Model, Sickens(m) PROVE EarlyKeeps
  BY <1>32 DEF Sickens, ProcStep
<1>33. ASSUME NEW m \in Model, Recovers(m) PROVE EarlyKeeps
  BY <1>33 DEF Recovers, ProcStep
<1>34. ASSUME NEW m \in Model, Crashes(m) PROVE EarlyKeeps
  BY <1>34 DEF Crashes, ProcStep
<1>35. ASSUME NEW m \in Model, StuckExits(m) PROVE EarlyKeeps
  BY <1>35 DEF StuckExits
<1>36. ASSUME NEW m \in Model, Idles(m) PROVE EarlyKeeps
  BY <1>36 DEF Idles
<1>37. CASE SwitchAges
  BY <1>37 DEF SwitchAges
<1>38. CASE CooldownEnds
  BY <1>38 DEF CooldownEnds
<1>39. CASE UNCHANGED vars
  BY <1>39 DEF vars
<1> QED
  BY <1>1, <1>2, <1>3, <1>4, <1>5, <1>6, <1>7, <1>8, <1>9, <1>10, <1>11,
     <1>12, <1>13, <1>14, <1>15, <1>16, <1>17, <1>18, <1>19, <1>20, <1>21,
     <1>22, <1>23, <1>24, <1>25, <1>26, <1>27, <1>28, <1>29, <1>30, <1>31,
     <1>32, <1>33, <1>34, <1>35, <1>36, <1>37, <1>38, <1>39
     DEF Next, Step, Watchers, Clients, Environment

LEMMA LockedTypes == Spec => [](TypeInv /\ LockInv)
<1>1. Init => TypeInv /\ LockInv
  BY TypeInit, LockInit
<1>2. TypeInv /\ LockInv /\ [Next]_vars => (TypeInv /\ LockInv)'
  BY TypeStep, LockStep
<1> QED
  BY <1>1, <1>2, PTL DEF Spec

\* For every configuration: a switch to a model whose file is damaged changes
\* neither the slot nor the backend map.
THEOREM DamagedKeepsResidentCorrect == Spec => DamagedKeepsResident
<1>1. Init => DamagedInv
  BY TaskAssumption DEF Init, DamagedInv, Task
<1>2. TypeInv /\ LockInv /\ DamagedInv /\ [Next]_vars => DamagedInv'
  BY DamagedStep
<1>3. TypeInv /\ LockInv /\ DamagedInv /\ [Next]_vars
        => [\A p \in Loader : lock = p /\ want[p] \in Damaged
                => UNCHANGED <<loaded, backends>>]_vars
  BY EarlyStep DEF EarlyKeeps, DamagedInv
<1> QED
  BY <1>1, <1>2, <1>3, LockedTypes, PTL DEF Spec, DamagedKeepsResident

-----------------------------------------------------------------------------
(* Failed switches *)

\* The model a switch replaces is the one in the slot, until the slot is cleared
\* under unload_first; a rollback starts from an empty slot.
PrevInv ==
    \A p \in Loader :
        IF lock # p THEN prev[p] = NoModel
        ELSE /\ pc[p] \in Early => prev[p] = NoModel
             /\ pc[p] \in {"drain", "stop", "stopping"} => loaded = prev[p]
             /\ pc[p] \in {"stop", "stopping", "clear"} /\ Strategy = "load_first" =>
                    prev[p] = want[p]
             /\ pc[p] \in {"load", "boot", "giveup"} /\ prev[p] # NoModel =>
                    (Strategy = "load_first" => loaded = prev[p])
             /\ stage[p] = "rollback" =>
                    pc[p] \in {"load", "boot", "giveup"} /\ prev[p] # NoModel
             /\ pc[p] \notin {"notfound", "busy", "failed"}

LEMMA PrevStep ==
  TypeInv /\ LockInv /\ PrevInv /\ [Next]_vars => PrevInv'
<1> SUFFICES ASSUME TypeInv, LockInv, PrevInv, [Next]_vars PROVE PrevInv'
  OBVIOUS
<1> USE TaskAssumption, ModelAssumption, ConfigAssumption
    DEF TypeInv, RoleInv, TypeOK, slotVars, gateVars, procVars, taskVars, Task, Loader,
        Outcome, LockInv, Holds, Critical, Outside, PrevInv, Early
<1>1. ASSUME NEW p \in Task, ReadSlot(p) PROVE PrevInv'
  BY <1>1 DEF ReadSlot, Goto, NotLive
<1>2. ASSUME NEW p \in Task, Lookup(p) PROVE PrevInv'
  BY <1>2 DEF Lookup, Goto, NotLive, Return
<1>3. ASSUME NEW p \in Task, Probe(p) PROVE PrevInv'
  BY <1>3 DEF Probe, Goto, NotLive, Return, Deliver, Touch
<1>4. ASSUME NEW p \in Task, Acquire(p) PROVE PrevInv'
  BY <1>4 DEF Acquire, Goto
<1>5. ASSUME NEW p \in Task, Plan(p) PROVE PrevInv'
  BY <1>5 DEF Plan, Goto, Return, Refuses
<1>6. ASSUME NEW p \in Task, DrainDone(p) PROVE PrevInv'
  BY <1>6 DEF DrainDone, Goto, AfterDrain, Drained
<1>7. ASSUME NEW p \in Task, DrainTimeout(p) PROVE PrevInv'
  BY <1>7 DEF DrainTimeout, Return, Drained
<1>8. ASSUME NEW p \in Task, Stop(p) PROVE PrevInv'
  BY <1>8 DEF Stop, Goto
<1>9. ASSUME NEW p \in Task, Stopped(p) PROVE PrevInv'
  BY <1>9 DEF Stopped, Goto
<1>10. ASSUME NEW p \in Task, StopFailed(p) PROVE PrevInv'
  BY <1>10 DEF StopFailed, Goto, Return
<1>11. ASSUME NEW p \in Task, Clear(p) PROVE PrevInv'
  BY <1>11 DEF Clear, Goto
<1>12. ASSUME NEW p \in Task, Spawn(p) PROVE PrevInv'
  BY <1>12 DEF Spawn, Goto, Goal
<1>13. ASSUME NEW p \in Task, AttemptFailed(p) PROVE PrevInv'
  BY <1>13 DEF AttemptFailed, Goto, Goal, MayRetry
<1>14. ASSUME NEW p \in Task, BootReady(p) PROVE PrevInv'
  BY <1>14 DEF BootReady, Goto, Goal, Return, MarkLoaded, Deliver, Touch, NoteSwitch
<1>15. ASSUME NEW p \in Task, GiveUp(p) PROVE PrevInv'
  BY <1>15 DEF GiveUp, Goto, Return, OwesRollback
<1>16. ASSUME NEW p \in Task, RetireDrained(p) PROVE PrevInv'
  BY <1>16 DEF RetireDrained, Goto, Drained
<1>17. ASSUME NEW p \in Task, Retire(p) PROVE PrevInv'
  BY <1>17 DEF Retire, Goto, Return
<1>18. ASSUME NEW p \in Task, Mark(p) PROVE PrevInv'
  BY <1>18 DEF Mark, MarkLoaded, Deliver, Return, Touch, NoteSwitch
<1>19. CASE PriorityTick
  BY <1>19 DEF PriorityTick, Goto
<1>20. CASE PriorityFailed
  BY <1>20 DEF PriorityFailed, Goto
<1>21. CASE MemoryTick
  BY <1>21 DEF MemoryTick, Goto
<1>22. CASE MemoryDecide
  BY <1>22 DEF MemoryDecide, Goto, Return, HasActiveRequests
<1>23. ASSUME NEW r \in Registry, RefreshTick(r) PROVE PrevInv'
  BY <1>23 DEF RefreshTick, Goto
<1>24. CASE RefreshDecide
  BY <1>24 DEF RefreshDecide, Goto
<1>25. CASE Install
  BY <1>25 DEF Install, Return
<1>26. ASSUME NEW h \in Handler, NEW m \in Model, Arrive(h, m) PROVE PrevInv'
  BY <1>26 DEF Arrive, Goto
<1>27. ASSUME NEW h \in Handler, Track(h) PROVE PrevInv'
  BY <1>27 DEF Track, Goto
<1>28. ASSUME NEW h \in Handler, Finish(h) PROVE PrevInv'
  BY <1>28 DEF Finish, Goto
<1>29. ASSUME NEW h \in Handler, Respond(h) PROVE PrevInv'
  BY <1>29 DEF Respond, Goto
<1>30. ASSUME NEW p \in Task, Disconnect(p) PROVE PrevInv'
  BY <1>30 DEF Disconnect, DropsChild
<1>31. ASSUME NEW m \in Model, Boots(m) PROVE PrevInv'
  BY <1>31 DEF Boots, ProcStep
<1>32. ASSUME NEW m \in Model, Sickens(m) PROVE PrevInv'
  BY <1>32 DEF Sickens, ProcStep
<1>33. ASSUME NEW m \in Model, Recovers(m) PROVE PrevInv'
  BY <1>33 DEF Recovers, ProcStep
<1>34. ASSUME NEW m \in Model, Crashes(m) PROVE PrevInv'
  BY <1>34 DEF Crashes, ProcStep
<1>35. ASSUME NEW m \in Model, StuckExits(m) PROVE PrevInv'
  BY <1>35 DEF StuckExits
<1>36. ASSUME NEW m \in Model, Idles(m) PROVE PrevInv'
  BY <1>36 DEF Idles
<1>37. CASE SwitchAges
  BY <1>37 DEF SwitchAges
<1>38. CASE CooldownEnds
  BY <1>38 DEF CooldownEnds
<1>39. CASE UNCHANGED vars
  BY <1>39 DEF vars
<1> QED
  BY <1>1, <1>2, <1>3, <1>4, <1>5, <1>6, <1>7, <1>8, <1>9, <1>10, <1>11,
     <1>12, <1>13, <1>14, <1>15, <1>16, <1>17, <1>18, <1>19, <1>20, <1>21,
     <1>22, <1>23, <1>24, <1>25, <1>26, <1>27, <1>28, <1>29, <1>30, <1>31,
     <1>32, <1>33, <1>34, <1>35, <1>36, <1>37, <1>38, <1>39
     DEF Next, Step, Watchers, Clients, Environment

\* A failing step of the lock's holder.
Restores == \A p \in Loader :
    lock = p /\ prev[p] # NoModel /\ pc'[p] \in {"busy", "failed"} =>
        loaded' = prev[p] \/ (loaded' = NoModel /\ stage[p] = "rollback")

LEMMA RestoreStep ==
  TypeInv /\ LockInv /\ PrevInv /\ [Next]_vars => Restores
<1> SUFFICES ASSUME TypeInv, LockInv, PrevInv, [Next]_vars PROVE Restores
  OBVIOUS
<1> USE TaskAssumption, ModelAssumption, ConfigAssumption
    DEF TypeInv, RoleInv, TypeOK, slotVars, gateVars, procVars, taskVars, Task, Loader,
        Outcome, LockInv, Holds, Critical, Outside, PrevInv, Early, Restores
<1>1. ASSUME NEW p \in Task, ReadSlot(p) PROVE Restores
  BY <1>1 DEF ReadSlot, Goto, NotLive
<1>2. ASSUME NEW p \in Task, Lookup(p) PROVE Restores
  BY <1>2 DEF Lookup, Goto, NotLive, Return
<1>3. ASSUME NEW p \in Task, Probe(p) PROVE Restores
  BY <1>3 DEF Probe, Goto, NotLive, Return, Deliver, Touch
<1>4. ASSUME NEW p \in Task, Acquire(p) PROVE Restores
  BY <1>4 DEF Acquire, Goto
<1>5. ASSUME NEW p \in Task, Plan(p) PROVE Restores
  BY <1>5 DEF Plan, Goto, Return, Refuses
<1>6. ASSUME NEW p \in Task, DrainDone(p) PROVE Restores
  BY <1>6 DEF DrainDone, Goto, AfterDrain, Drained
<1>7. ASSUME NEW p \in Task, DrainTimeout(p) PROVE Restores
  BY <1>7 DEF DrainTimeout, Return, Drained
<1>8. ASSUME NEW p \in Task, Stop(p) PROVE Restores
  BY <1>8 DEF Stop, Goto
<1>9. ASSUME NEW p \in Task, Stopped(p) PROVE Restores
  BY <1>9 DEF Stopped, Goto
<1>10. ASSUME NEW p \in Task, StopFailed(p) PROVE Restores
  BY <1>10 DEF StopFailed, Goto, Return
<1>11. ASSUME NEW p \in Task, Clear(p) PROVE Restores
  BY <1>11 DEF Clear, Goto
<1>12. ASSUME NEW p \in Task, Spawn(p) PROVE Restores
  BY <1>12 DEF Spawn, Goto, Goal
<1>13. ASSUME NEW p \in Task, AttemptFailed(p) PROVE Restores
  BY <1>13 DEF AttemptFailed, Goto, Goal, MayRetry
<1>14. ASSUME NEW p \in Task, BootReady(p) PROVE Restores
  BY <1>14 DEF BootReady, Goto, Goal, Return, MarkLoaded, Deliver, Touch, NoteSwitch
<1>15. ASSUME NEW p \in Task, GiveUp(p) PROVE Restores
  BY <1>15 DEF GiveUp, Goto, Return, OwesRollback
<1>16. ASSUME NEW p \in Task, RetireDrained(p) PROVE Restores
  BY <1>16 DEF RetireDrained, Goto, Drained
<1>17. ASSUME NEW p \in Task, Retire(p) PROVE Restores
  BY <1>17 DEF Retire, Goto, Return
<1>18. ASSUME NEW p \in Task, Mark(p) PROVE Restores
  BY <1>18 DEF Mark, MarkLoaded, Deliver, Return, Touch, NoteSwitch
<1>19. CASE PriorityTick
  BY <1>19 DEF PriorityTick, Goto
<1>20. CASE PriorityFailed
  BY <1>20 DEF PriorityFailed, Goto
<1>21. CASE MemoryTick
  BY <1>21 DEF MemoryTick, Goto
<1>22. CASE MemoryDecide
  BY <1>22 DEF MemoryDecide, Goto, Return, HasActiveRequests
<1>23. ASSUME NEW r \in Registry, RefreshTick(r) PROVE Restores
  BY <1>23 DEF RefreshTick, Goto
<1>24. CASE RefreshDecide
  BY <1>24 DEF RefreshDecide, Goto
<1>25. CASE Install
  BY <1>25 DEF Install, Return
<1>26. ASSUME NEW h \in Handler, NEW m \in Model, Arrive(h, m) PROVE Restores
  BY <1>26 DEF Arrive, Goto
<1>27. ASSUME NEW h \in Handler, Track(h) PROVE Restores
  BY <1>27 DEF Track, Goto
<1>28. ASSUME NEW h \in Handler, Finish(h) PROVE Restores
  BY <1>28 DEF Finish, Goto
<1>29. ASSUME NEW h \in Handler, Respond(h) PROVE Restores
  BY <1>29 DEF Respond, Goto
<1>30. ASSUME NEW p \in Task, Disconnect(p) PROVE Restores
  BY <1>30 DEF Disconnect, DropsChild
<1>31. ASSUME NEW m \in Model, Boots(m) PROVE Restores
  BY <1>31 DEF Boots, ProcStep
<1>32. ASSUME NEW m \in Model, Sickens(m) PROVE Restores
  BY <1>32 DEF Sickens, ProcStep
<1>33. ASSUME NEW m \in Model, Recovers(m) PROVE Restores
  BY <1>33 DEF Recovers, ProcStep
<1>34. ASSUME NEW m \in Model, Crashes(m) PROVE Restores
  BY <1>34 DEF Crashes, ProcStep
<1>35. ASSUME NEW m \in Model, StuckExits(m) PROVE Restores
  BY <1>35 DEF StuckExits
<1>36. ASSUME NEW m \in Model, Idles(m) PROVE Restores
  BY <1>36 DEF Idles
<1>37. CASE SwitchAges
  BY <1>37 DEF SwitchAges
<1>38. CASE CooldownEnds
  BY <1>38 DEF CooldownEnds
<1>39. CASE UNCHANGED vars
  BY <1>39 DEF vars
<1> QED
  BY <1>1, <1>2, <1>3, <1>4, <1>5, <1>6, <1>7, <1>8, <1>9, <1>10, <1>11,
     <1>12, <1>13, <1>14, <1>15, <1>16, <1>17, <1>18, <1>19, <1>20, <1>21,
     <1>22, <1>23, <1>24, <1>25, <1>26, <1>27, <1>28, <1>29, <1>30, <1>31,
     <1>32, <1>33, <1>34, <1>35, <1>36, <1>37, <1>38, <1>39
     DEF Next, Step, Watchers, Clients, Environment

\* For every configuration: a switch that fails leaves the previous model in the
\* slot, unless reloading that model failed as well.
THEOREM FailedSwitchRestoresCorrect == Spec => FailedSwitchRestores
<1>1. Init => PrevInv
  BY TaskAssumption DEF Init, PrevInv, Task
<1>2. TypeInv /\ LockInv /\ PrevInv /\ [Next]_vars => PrevInv'
  BY PrevStep
<1>3. TypeInv /\ LockInv /\ PrevInv /\ [Next]_vars
        => [\A p \in Loader :
              /\ lock = p /\ prev[p] # NoModel
              /\ pc'[p] \in {"busy", "failed"}
              => \/ loaded' = prev[p]
                 \/ loaded' = NoModel /\ stage[p] = "rollback"]_vars
  BY RestoreStep DEF Restores
<1> QED
  BY <1>1, <1>2, <1>3, LockedTypes, PTL DEF Spec, FailedSwitchRestores

-----------------------------------------------------------------------------
(* The counters *)

Counts == \E h \in Handler : Track(h) \/ Finish(h)

\* The same responses are in service on the same models.
SameService ==
    /\ active' = active
    /\ \A h \in Handler : /\ pc'[h] = "serving" <=> pc[h] = "serving"
                          /\ pc[h] = "serving" => want'[h] = want[h]

LEMMA OnlyCounts == TypeInv /\ [Next]_vars => Counts \/ SameService
<1> SUFFICES ASSUME TypeInv, [Next]_vars PROVE Counts \/ SameService
  OBVIOUS
<1> USE TaskAssumption DEF TypeInv, RoleInv, TypeOK, slotVars, gateVars, procVars,
        taskVars, Task, Loader, Outcome, SameService
<1>1. ASSUME NEW p \in Task, ReadSlot(p) PROVE Counts \/ SameService
  BY <1>1 DEF ReadSlot, Goto, NotLive
<1>2. ASSUME NEW p \in Task, Lookup(p) PROVE Counts \/ SameService
  BY <1>2 DEF Lookup, Goto, NotLive, Return
<1>3. ASSUME NEW p \in Task, Probe(p) PROVE Counts \/ SameService
  BY <1>3 DEF Probe, Goto, NotLive, Return, Deliver, Touch
<1>4. ASSUME NEW p \in Task, Acquire(p) PROVE Counts \/ SameService
  BY <1>4 DEF Acquire, Goto
<1>5. ASSUME NEW p \in Task, Plan(p) PROVE Counts \/ SameService
  BY <1>5 DEF Plan, Goto, Return, Refuses
<1>6. ASSUME NEW p \in Task, DrainDone(p) PROVE Counts \/ SameService
  BY <1>6 DEF DrainDone, Goto, AfterDrain, Drained
<1>7. ASSUME NEW p \in Task, DrainTimeout(p) PROVE Counts \/ SameService
  BY <1>7 DEF DrainTimeout, Return, Drained
<1>8. ASSUME NEW p \in Task, Stop(p) PROVE Counts \/ SameService
  BY <1>8 DEF Stop, Goto
<1>9. ASSUME NEW p \in Task, Stopped(p) PROVE Counts \/ SameService
  BY <1>9 DEF Stopped, Goto
<1>10. ASSUME NEW p \in Task, StopFailed(p) PROVE Counts \/ SameService
  BY <1>10 DEF StopFailed, Goto, Return
<1>11. ASSUME NEW p \in Task, Clear(p) PROVE Counts \/ SameService
  BY <1>11 DEF Clear, Goto
<1>12. ASSUME NEW p \in Task, Spawn(p) PROVE Counts \/ SameService
  BY <1>12 DEF Spawn, Goto, Goal
<1>13. ASSUME NEW p \in Task, AttemptFailed(p) PROVE Counts \/ SameService
  BY <1>13 DEF AttemptFailed, Goto, Goal, MayRetry
<1>14. ASSUME NEW p \in Task, BootReady(p) PROVE Counts \/ SameService
  BY <1>14 DEF BootReady, Goto, Goal, Return, MarkLoaded, Deliver, Touch, NoteSwitch
<1>15. ASSUME NEW p \in Task, GiveUp(p) PROVE Counts \/ SameService
  BY <1>15 DEF GiveUp, Goto, Return, OwesRollback
<1>16. ASSUME NEW p \in Task, RetireDrained(p) PROVE Counts \/ SameService
  BY <1>16 DEF RetireDrained, Goto, Drained
<1>17. ASSUME NEW p \in Task, Retire(p) PROVE Counts \/ SameService
  BY <1>17 DEF Retire, Goto, Return
<1>18. ASSUME NEW p \in Task, Mark(p) PROVE Counts \/ SameService
  BY <1>18 DEF Mark, MarkLoaded, Deliver, Return, Touch, NoteSwitch
<1>19. CASE PriorityTick
  BY <1>19 DEF PriorityTick, Goto
<1>20. CASE PriorityFailed
  BY <1>20 DEF PriorityFailed, Goto
<1>21. CASE MemoryTick
  BY <1>21 DEF MemoryTick, Goto
<1>22. CASE MemoryDecide
  BY <1>22 DEF MemoryDecide, Goto, Return, HasActiveRequests
<1>23. ASSUME NEW r \in Registry, RefreshTick(r) PROVE Counts \/ SameService
  BY <1>23 DEF RefreshTick, Goto
<1>24. CASE RefreshDecide
  BY <1>24 DEF RefreshDecide, Goto
<1>25. CASE Install
  BY <1>25 DEF Install, Return
<1>26. ASSUME NEW h \in Handler, NEW m \in Model, Arrive(h, m) PROVE Counts \/ SameService
  BY <1>26 DEF Arrive, Goto
<1>27. ASSUME NEW h \in Handler, Track(h) PROVE Counts \/ SameService
  BY <1>27 DEF Counts
<1>28. ASSUME NEW h \in Handler, Finish(h) PROVE Counts \/ SameService
  BY <1>28 DEF Counts
<1>29. ASSUME NEW h \in Handler, Respond(h) PROVE Counts \/ SameService
  BY <1>29 DEF Respond, Goto
<1>30. ASSUME NEW p \in Task, Disconnect(p) PROVE Counts \/ SameService
  BY <1>30 DEF Disconnect, DropsChild
<1>31. ASSUME NEW m \in Model, Boots(m) PROVE Counts \/ SameService
  BY <1>31 DEF Boots, ProcStep
<1>32. ASSUME NEW m \in Model, Sickens(m) PROVE Counts \/ SameService
  BY <1>32 DEF Sickens, ProcStep
<1>33. ASSUME NEW m \in Model, Recovers(m) PROVE Counts \/ SameService
  BY <1>33 DEF Recovers, ProcStep
<1>34. ASSUME NEW m \in Model, Crashes(m) PROVE Counts \/ SameService
  BY <1>34 DEF Crashes, ProcStep
<1>35. ASSUME NEW m \in Model, StuckExits(m) PROVE Counts \/ SameService
  BY <1>35 DEF StuckExits
<1>36. ASSUME NEW m \in Model, Idles(m) PROVE Counts \/ SameService
  BY <1>36 DEF Idles
<1>37. CASE SwitchAges
  BY <1>37 DEF SwitchAges
<1>38. CASE CooldownEnds
  BY <1>38 DEF CooldownEnds
<1>39. CASE UNCHANGED vars
  BY <1>39 DEF vars
<1> QED
  BY <1>1, <1>2, <1>3, <1>4, <1>5, <1>6, <1>7, <1>8, <1>9, <1>10, <1>11,
     <1>12, <1>13, <1>14, <1>15, <1>16, <1>17, <1>18, <1>19, <1>20, <1>21,
     <1>22, <1>23, <1>24, <1>25, <1>26, <1>27, <1>28, <1>29, <1>30, <1>31,
     <1>32, <1>33, <1>34, <1>35, <1>36, <1>37, <1>38, <1>39
     DEF Next, Step, Watchers, Clients, Environment

LEMMA ServiceStep ==
  ASSUME TypeInv, TypeInv', ActiveExact, [Next]_vars
  PROVE  ActiveExact'
<1> USE TaskAssumption DEF ActiveExact
<1>0. \A m \in Model : IsFiniteSet(InService(m)) /\ Cardinality(InService(m)) \in Nat
  <2>1. \A m \in Model : InService(m) \in SUBSET Handler
    BY DEF InService
  <2> QED
    BY <2>1, FS_Subset, FS_CardinalityType
<1>1. \A m \in Model : active[m] = Cardinality(InService(m))
  BY DEF InService
<1>2. SUFFICES \A m \in Model : active'[m] = Cardinality(InService(m)')
  BY DEF InService
<1>3. CASE SameService
  <2>1. \A m \in Model : InService(m)' = InService(m)
    BY <1>3 DEF SameService, InService
  <2> QED
    BY <1>1, <1>3, <2>1 DEF SameService
<1>4. ASSUME NEW h \in Handler, Track(h) PROVE \A m \in Model : active'[m] = Cardinality(InService(m)')
  <2>1. /\ pc[h] = "handed" /\ want[h] \in Model /\ want' = want
        /\ pc' = [pc EXCEPT ![h] = "serving"]
        /\ active' = [active EXCEPT ![want[h]] = @ + 1]
    BY <1>4 DEF Track, Goto, taskVars, TypeInv, RoleInv, Loader, Task, Outcome
  <2>2. h \notin InService(want[h])
    BY <2>1 DEF InService
  <2>3. \A m \in Model : InService(m)' = IF m = want[h] THEN InService(m) \cup {h}
                                         ELSE InService(m)
    BY <2>1 DEF InService, TypeInv, TypeOK, Task, Loader
  <2>4. Cardinality(InService(want[h]) \cup {h}) = Cardinality(InService(want[h])) + 1
    BY <1>0, <2>1, <2>2, FS_AddElement
  <2> QED
    BY <1>1, <2>1, <2>3, <2>4 DEF TypeInv, TypeOK
<1>5. ASSUME NEW h \in Handler, Finish(h) PROVE \A m \in Model : active'[m] = Cardinality(InService(m)')
  <2>1. /\ pc[h] = "serving" /\ want[h] \in Model
        /\ want' = [want EXCEPT ![h] = NoModel]
        /\ pc' = [pc EXCEPT ![h] = "idle"]
        /\ active' = [active EXCEPT ![want[h]] = IF @ > 0 THEN @ - 1 ELSE 0]
    BY <1>5 DEF Finish, Goto, TypeInv, RoleInv, Loader, Task, Outcome
  <2>2. h \in InService(want[h])
    BY <2>1 DEF InService
  <2>3. \A m \in Model : InService(m)' = IF m = want[h] THEN InService(m) \ {h}
                                         ELSE InService(m)
    BY <2>1 DEF InService, TypeInv, TypeOK, Task, Loader
  <2>4. Cardinality(InService(want[h]) \ {h}) = Cardinality(InService(want[h])) - 1
    BY <1>0, <2>1, <2>2, FS_RemoveElement
  <2>5. Cardinality(InService(want[h])) > 0
    BY <1>0, <2>1, <2>2, FS_EmptySet
  <2> QED
    BY <1>0, <1>1, <2>1, <2>3, <2>4, <2>5 DEF TypeInv, TypeOK
<1> QED
  BY <1>3, <1>4, <1>5, OnlyCounts DEF Counts

LEMMA ServiceInit == Init => ActiveExact
<1> SUFFICES ASSUME Init PROVE ActiveExact
  OBVIOUS
<1>1. \A m \in Model : {h \in Handler : pc[h] = "serving" /\ want[h] = m} = {}
  BY DEF Init, Task, Loader
<1> QED
  BY <1>1, FS_EmptySet DEF Init, ActiveExact

\* For any number of clients and models, whoever hangs up and whatever fails,
\* the counter of a model is the number of its responses in progress.
THEOREM ActiveExactCorrect == Spec => []ActiveExact
<1>1. Init => TypeInv /\ ActiveExact
  BY TypeInit, ServiceInit
<1>2. TypeInv /\ ActiveExact /\ [Next]_vars => (TypeInv /\ ActiveExact)'
  BY TypeStep, ServiceStep
<1> QED
  BY <1>1, <1>2, PTL DEF Spec

-----------------------------------------------------------------------------
(* The drains *)

Opening == {"slot", "lookup", "probe", "plan", "decide"}
Ending == {"stop", "stopping", "retire"}

\* How a task reaches the labels around a drain.
DrainPath(q) ==
    /\ pc'[q] \in Ending =>
           \/ pc[q] \in Ending /\ prev'[q] = prev[q]
           \/ /\ pc[q] \in {"drain", "drainold"} /\ prev'[q] = prev[q]
              /\ prev[q] \in Model /\ active[prev[q]] = 0
           \/ pc[q] \in {"plan", "decide"}
    /\ Holds(q)' /\ pc'[q] \in Opening =>
           (Holds(q) /\ pc[q] \in Opening) \/ lock = NoTask
    /\ pc[q] # "drain" /\ pc'[q] = "drain" => pc[q] \in {"plan", "decide"}

LEMMA DrainPaths == TypeInv /\ LockInv /\ [Next]_vars => \A q \in Task : DrainPath(q)
<1> SUFFICES ASSUME TypeInv, LockInv, [Next]_vars PROVE \A q \in Task : DrainPath(q)
  OBVIOUS
<1> USE TaskAssumption DEF TypeInv, RoleInv, TypeOK, slotVars, gateVars, procVars,
        taskVars, Task, Loader, Outcome, LockInv, Holds, Critical, Outside,
        DrainPath, Opening, Ending
<1>1. ASSUME NEW p \in Task, ReadSlot(p) PROVE \A q \in Task : DrainPath(q)
  BY <1>1 DEF ReadSlot, Goto, NotLive
<1>2. ASSUME NEW p \in Task, Lookup(p) PROVE \A q \in Task : DrainPath(q)
  BY <1>2 DEF Lookup, Goto, NotLive, Return
<1>3. ASSUME NEW p \in Task, Probe(p) PROVE \A q \in Task : DrainPath(q)
  BY <1>3 DEF Probe, Goto, NotLive, Return, Deliver, Touch
<1>4. ASSUME NEW p \in Task, Acquire(p) PROVE \A q \in Task : DrainPath(q)
  BY <1>4 DEF Acquire, Goto
<1>5. ASSUME NEW p \in Task, Plan(p) PROVE \A q \in Task : DrainPath(q)
  BY <1>5 DEF Plan, Goto, Return, Refuses
<1>6. ASSUME NEW p \in Task, DrainDone(p) PROVE \A q \in Task : DrainPath(q)
  BY <1>6 DEF DrainDone, Goto, AfterDrain, Drained
<1>7. ASSUME NEW p \in Task, DrainTimeout(p) PROVE \A q \in Task : DrainPath(q)
  BY <1>7 DEF DrainTimeout, Return, Drained
<1>8. ASSUME NEW p \in Task, Stop(p) PROVE \A q \in Task : DrainPath(q)
  BY <1>8 DEF Stop, Goto
<1>9. ASSUME NEW p \in Task, Stopped(p) PROVE \A q \in Task : DrainPath(q)
  BY <1>9 DEF Stopped, Goto
<1>10. ASSUME NEW p \in Task, StopFailed(p) PROVE \A q \in Task : DrainPath(q)
  BY <1>10 DEF StopFailed, Goto, Return
<1>11. ASSUME NEW p \in Task, Clear(p) PROVE \A q \in Task : DrainPath(q)
  BY <1>11 DEF Clear, Goto
<1>12. ASSUME NEW p \in Task, Spawn(p) PROVE \A q \in Task : DrainPath(q)
  BY <1>12 DEF Spawn, Goto, Goal
<1>13. ASSUME NEW p \in Task, AttemptFailed(p) PROVE \A q \in Task : DrainPath(q)
  BY <1>13 DEF AttemptFailed, Goto, Goal, MayRetry
<1>14. ASSUME NEW p \in Task, BootReady(p) PROVE \A q \in Task : DrainPath(q)
  BY <1>14 DEF BootReady, Goto, Goal, Return, MarkLoaded, Deliver, Touch, NoteSwitch
<1>15. ASSUME NEW p \in Task, GiveUp(p) PROVE \A q \in Task : DrainPath(q)
  BY <1>15 DEF GiveUp, Goto, Return, OwesRollback
<1>16. ASSUME NEW p \in Task, RetireDrained(p) PROVE \A q \in Task : DrainPath(q)
  BY <1>16 DEF RetireDrained, Goto, Drained
<1>17. ASSUME NEW p \in Task, Retire(p) PROVE \A q \in Task : DrainPath(q)
  BY <1>17 DEF Retire, Goto, Return
<1>18. ASSUME NEW p \in Task, Mark(p) PROVE \A q \in Task : DrainPath(q)
  BY <1>18 DEF Mark, MarkLoaded, Deliver, Return, Touch, NoteSwitch
<1>19. CASE PriorityTick
  BY <1>19 DEF PriorityTick, Goto
<1>20. CASE PriorityFailed
  BY <1>20 DEF PriorityFailed, Goto
<1>21. CASE MemoryTick
  BY <1>21 DEF MemoryTick, Goto
<1>22. CASE MemoryDecide
  BY <1>22 DEF MemoryDecide, Goto, Return, HasActiveRequests
<1>23. ASSUME NEW r \in Registry, RefreshTick(r) PROVE \A q \in Task : DrainPath(q)
  BY <1>23 DEF RefreshTick, Goto
<1>24. CASE RefreshDecide
  BY <1>24 DEF RefreshDecide, Goto
<1>25. CASE Install
  BY <1>25 DEF Install, Return
<1>26. ASSUME NEW h \in Handler, NEW m \in Model, Arrive(h, m) PROVE \A q \in Task : DrainPath(q)
  BY <1>26 DEF Arrive, Goto
<1>27. ASSUME NEW h \in Handler, Track(h) PROVE \A q \in Task : DrainPath(q)
  BY <1>27 DEF Track, Goto
<1>28. ASSUME NEW h \in Handler, Finish(h) PROVE \A q \in Task : DrainPath(q)
  BY <1>28 DEF Finish, Goto
<1>29. ASSUME NEW h \in Handler, Respond(h) PROVE \A q \in Task : DrainPath(q)
  BY <1>29 DEF Respond, Goto
<1>30. ASSUME NEW p \in Task, Disconnect(p) PROVE \A q \in Task : DrainPath(q)
  BY <1>30 DEF Disconnect, DropsChild
<1>31. ASSUME NEW m \in Model, Boots(m) PROVE \A q \in Task : DrainPath(q)
  BY <1>31 DEF Boots, ProcStep
<1>32. ASSUME NEW m \in Model, Sickens(m) PROVE \A q \in Task : DrainPath(q)
  BY <1>32 DEF Sickens, ProcStep
<1>33. ASSUME NEW m \in Model, Recovers(m) PROVE \A q \in Task : DrainPath(q)
  BY <1>33 DEF Recovers, ProcStep
<1>34. ASSUME NEW m \in Model, Crashes(m) PROVE \A q \in Task : DrainPath(q)
  BY <1>34 DEF Crashes, ProcStep
<1>35. ASSUME NEW m \in Model, StuckExits(m) PROVE \A q \in Task : DrainPath(q)
  BY <1>35 DEF StuckExits
<1>36. ASSUME NEW m \in Model, Idles(m) PROVE \A q \in Task : DrainPath(q)
  BY <1>36 DEF Idles
<1>37. CASE SwitchAges
  BY <1>37 DEF SwitchAges
<1>38. CASE CooldownEnds
  BY <1>38 DEF CooldownEnds
<1>39. CASE UNCHANGED vars
  BY <1>39 DEF vars
<1> QED
  BY <1>1, <1>2, <1>3, <1>4, <1>5, <1>6, <1>7, <1>8, <1>9, <1>10, <1>11,
     <1>12, <1>13, <1>14, <1>15, <1>16, <1>17, <1>18, <1>19, <1>20, <1>21,
     <1>22, <1>23, <1>24, <1>25, <1>26, <1>27, <1>28, <1>29, <1>30, <1>31,
     <1>32, <1>33, <1>34, <1>35, <1>36, <1>37, <1>38, <1>39
     DEF Next, Step, Watchers, Clients, Environment

OwedInv ==
    /\ \A h \in owed : h \in Handler /\ pc[h] = "serving"
    /\ lock = NoTask => owed = {}
    /\ \A q \in Task : /\ Holds(q) /\ pc[q] \in Opening => owed = {}
                       /\ pc[q] \in Ending => \A h \in owed : want[h] # prev[q]

LEMMA OwedStep ==
  ASSUME TypeInv, TypeInv', LockInv, LockInv', ActiveExact, OwedInv, [HNext]_hvars
  PROVE  OwedInv'
<1>1. [Next]_vars
  BY DEF HNext, hvars
<1>2. CASE UNCHANGED hvars
  BY <1>2 DEF hvars, vars, slotVars, taskVars, OwedInv, Holds
<1>3. \A q \in Task : DrainPath(q)
  BY <1>1, DrainPaths
<1>4. \A h \in owed : pc'[h] = "serving" => want'[h] = want[h]
  <2>1. CASE SameService
    BY <2>1 DEF SameService, OwedInv
  <2>2. ASSUME NEW k \in Handler, Track(k) \/ Finish(k)
        PROVE  \A h \in owed : pc'[h] = "serving" => want'[h] = want[h]
    BY <2>2 DEF Track, Finish, Goto, taskVars, OwedInv, TypeInv, TypeOK, Task, Loader
  <2> QED
    BY <1>1, <2>1, <2>2, OnlyCounts DEF Counts
<1>5. CASE HNext /\ DrainBegins
  <2>1. PICK p \in Task : pc[p] # "drain" /\ pc'[p] = "drain"
    BY <1>5 DEF DrainBegins
  <2>2. SameService
    <3>1. ~Counts
      BY <2>1 DEF Counts, Track, Finish, Goto, TypeInv, TypeOK, Task, Loader
    <3> QED
      BY <1>1, <3>1, OnlyCounts
  <2>3. lock' = p /\ p # NoTask
    BY <2>1, TaskAssumption DEF LockInv, Critical
  <2>4. owed' = InService(loaded)
    BY <1>5, <2>3 DEF HNext
  <2>5. \A q \in Task : Holds(q)' => q = p
    BY <2>3 DEF LockInv
  <2>6. \A q \in Task : pc'[q] \in Ending => Holds(q)'
    BY DEF LockInv, Critical, Ending
  <2> QED
    BY <2>1, <2>2, <2>3, <2>4, <2>5, <2>6 DEF OwedInv, SameService, InService, Opening, Ending
<1>6. CASE HNext /\ ~DrainBegins
  <2>1. owed' \subseteq {h \in owed : pc'[h] = "serving"} /\ (lock' = NoTask => owed' = {})
    BY <1>6 DEF HNext
  <2>2. ASSUME NEW q \in Task, pc'[q] \in Ending, NEW h \in owed' PROVE want'[h] # prev'[q]
    <3>1. h \in owed /\ h \in Handler /\ pc[h] = "serving" /\ want'[h] = want[h]
      BY <1>4, <2>1, <2>2 DEF OwedInv
    <3>2. CASE pc[q] \in Ending /\ prev'[q] = prev[q]
      BY <3>1, <3>2 DEF OwedInv
    <3>3. CASE /\ pc[q] \in {"drain", "drainold"} /\ prev'[q] = prev[q]
               /\ prev[q] \in Model /\ active[prev[q]] = 0
      <4>1. Cardinality(InService(prev[q])) = 0
        BY <3>3 DEF ActiveExact, InService
      <4>2. IsFiniteSet(InService(prev[q]))
        BY TaskAssumption, FS_Subset, InService(prev[q]) \in SUBSET Handler DEF InService
      <4>3. InService(prev[q]) = {}
        BY <4>1, <4>2, FS_EmptySet
      <4> QED
        BY <3>1, <3>3, <4>3 DEF InService
    <3>4. CASE pc[q] \in {"plan", "decide"}
      BY <3>1, <3>4 DEF OwedInv, LockInv, Critical, Opening
    <3> QED
      BY <1>3, <2>2, <3>2, <3>3, <3>4 DEF DrainPath
  <2>3. ASSUME NEW q \in Task, Holds(q)', pc'[q] \in Opening PROVE owed' = {}
    BY <1>3, <2>1, <2>3 DEF DrainPath, OwedInv
  <2> QED
    BY <2>1, <2>2, <2>3 DEF OwedInv
<1> QED
  BY <1>2, <1>5, <1>6

\* For any number of clients and models and under every configuration: when a
\* model is stopped after a drain, no response the drain had found is left on it.
THEOREM DrainHonouredCorrect == HSpec => []DrainHonoured
<1> DEFINE HInv == TypeInv /\ LockInv /\ ActiveExact /\ OwedInv
<1>1. HInit => HInv
  <2>1. Init /\ owed = {} => OwedInv
    BY DEF Init, OwedInv, Holds, Opening, Ending
  <2> QED
    BY <2>1, TypeInit, LockInit, ServiceInit DEF HInit
<1>2. HInv /\ [HNext]_hvars => HInv'
  <2> SUFFICES ASSUME HInv, [HNext]_hvars PROVE HInv'
    OBVIOUS
  <2>1. [Next]_vars
    BY DEF HNext, hvars
  <2>2. TypeInv' /\ LockInv'
    BY <2>1, TypeStep, LockStep
  <2>3. ActiveExact'
    BY <2>1, <2>2, ServiceStep
  <2>4. OwedInv'
    BY <2>2, OwedStep
  <2> QED
    BY <2>2, <2>3, <2>4
<1>3. HInv => DrainHonoured
  BY DEF OwedInv, DrainHonoured, Ending
<1> QED
  BY <1>1, <1>2, <1>3, PTL DEF HSpec
=============================================================================
