------------------------------- MODULE OneSlot -------------------------------
(***************************************************************************)
(* What the scheduler promises under unload_first: a machine that holds at  *)
(* most one backend process, and a slot that names the process which serves.*)
(* A process starts only on an empty machine, is published only while it    *)
(* runs, and a published process is retracted only once it has stopped.     *)
(***************************************************************************)
EXTENDS FiniteSets

CONSTANTS Model, NoModel

VARIABLES running,  \* models whose process holds the GPU
          slot      \* the published model, or NoModel

vars == <<running, slot>>

Init == running = {} /\ slot = NoModel

Start(m) ==
    /\ running = {} /\ slot = NoModel
    /\ running' = {m}
    /\ UNCHANGED slot

Exit ==
    /\ running # {}
    /\ running' = {}
    /\ UNCHANGED slot

Publish(m) ==
    /\ running = {m} /\ slot = NoModel
    /\ slot' = m
    /\ UNCHANGED running

\* The process is gone, at the latest in this step.
Retract ==
    /\ slot # NoModel
    /\ slot' = NoModel
    /\ running' = {}

Next == (\E m \in Model : Start(m) \/ Publish(m)) \/ Exit \/ Retract

Spec == Init /\ [][Next]_vars

=============================================================================
