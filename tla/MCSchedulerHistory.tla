-------------------------- MODULE MCSchedulerHistory --------------------------
(* Instance values for the runs that need the drain's history. *)
EXTENDS MCScheduler, SchedulerHistory

=============================================================================
