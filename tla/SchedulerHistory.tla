--------------------------- MODULE SchedulerHistory ---------------------------
(***************************************************************************)
(* The scheduler with a history variable: the requests that were in service *)
(* on the resident model when the holder of load_lock decided to drain it.  *)
(***************************************************************************)
EXTENDS Scheduler

VARIABLE owed  \* handlers whose response the drain in progress must wait for

hvars == <<vars, owed>>

InService(m) == {h \in Handler : pc[h] = "serving" /\ want[h] = m}

\* A drain begins in Plan or MemoryDecide; it is forgotten with the lock.
DrainBegins == \E p \in Task : pc[p] # "drain" /\ pc'[p] = "drain"

HInit == Init /\ owed = {}

HNext ==
    /\ Next
    /\ owed' = CASE DrainBegins    -> InService(loaded)
                 [] lock' = NoTask -> {}
                 [] OTHER          -> {h \in owed : pc'[h] = "serving"}

HSpec == HInit /\ [][HNext]_hvars

\* A response that was in progress when a switch or the memory watcher began to
\* drain the model is over before that model's process is stopped. (A request
\* tracked after the drain ended has no such guarantee.)
DrainHonoured ==
    \A p \in Task : pc[p] \in {"stopping", "retire"} =>
        \A h \in owed : want[h] # prev[p]

=============================================================================
