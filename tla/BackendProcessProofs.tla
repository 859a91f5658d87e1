------------------------- MODULE BackendProcessProofs -------------------------
(***************************************************************************)
(* Proofs about one backend object, for any number of processes and         *)
(* concurrent process_running() calls. The invariant says what the mutex    *)
(* protects: while unload() holds it the option inside is empty, and while  *)
(* a probe that saw an exit holds it the option still holds that child.     *)
(***************************************************************************)
EXTENDS BackendProcess, TLAPS

\* What the frame of the call in progress owns.
HandInv ==
    /\ call \in {"store", "term", "kill", "lastkill"} => hand \in Child
    /\ call \in {"idle", "flag", "lock"} => hand = NoChild
    /\ call \in {"kill", "lastkill"} => state[hand] \notin {"alive", "termed"}
    /\ call = "clear" =>
           hand = NoChild \/ state[hand] \notin {"alive", "termed"}

MutexInv ==
    /\ mutex = Owner <=> call \in {"term", "kill", "lastkill", "clear"}
    /\ mutex = Owner => process = NoChild
    /\ \A q \in Prober : mutex = q <=> probe[q] = "held"
    /\ \A q \in Prober : probe[q] = "held" /\ saw[q] = "exited" =>
           process # NoChild /\ state[process] = "reaped"

IInv == TypeOK /\ HandInv /\ MutexInv /\ Owned /\ NotMistaken

LEMMA InitInv == Init => IInv
  BY NameAssumption
     DEF Init, IInv, TypeOK, State, Call, Unloading, Probe, HandInv, MutexInv,
         Owned, NotMistaken

LEMMA StepInv == IInv /\ [Next]_vars => IInv'
<1> SUFFICES ASSUME IInv, [Next]_vars PROVE IInv'
  OBVIOUS
<1> USE NameAssumption
    DEF IInv, TypeOK, State, Call, Unloading, Probe, HandInv, MutexInv, Owned,
        NotMistaken
<1>1. ASSUME NEW c \in Child, Spawn(c) PROVE IInv'
  BY <1>1 DEF Spawn
<1>2. CASE Store
  BY <1>2 DEF Store, Drop
<1>3. CASE Flag
  BY <1>3 DEF Flag
<1>4. CASE UnloadCall
  BY <1>4 DEF UnloadCall
<1>5. CASE Take
  BY <1>5 DEF Take
<1>6. CASE Exited
  BY <1>6 DEF Exited, Reap
<1>7. CASE TermTimeout
  BY <1>7 DEF TermTimeout, Drop
<1>8. CASE KillFailed
  <2>1. CASE call = "kill"
    BY <1>8, <2>1 DEF KillFailed
  <2>2. CASE call = "lastkill"
    <3>1. UNCHANGED <<state, process, probe, saw, running, mutex, hand>> /\ call' = "clear"
      BY <1>8, <2>2 DEF KillFailed
    <3> QED
      BY <2>2, <3>1
  <2> QED
    BY <1>8, <2>1, <2>2 DEF KillFailed
<1>9. CASE Clear
  BY <1>9 DEF Clear
<1>10. CASE Abandon
  BY <1>10 DEF Abandon, Drop
<1>11. ASSUME NEW q \in Prober, Ask(q) PROVE IInv'
  BY <1>11 DEF Ask
<1>12. ASSUME NEW q \in Prober, Look(q) PROVE IInv'
  BY <1>12 DEF Look, ExitSeen
<1>13. ASSUME NEW q \in Prober, Answer(q) PROVE IInv'
  BY <1>13 DEF Answer
<1>14. ASSUME NEW c \in Child, Exits(c) PROVE IInv'
  BY <1>14 DEF Exits
<1>15. CASE UNCHANGED vars
  BY <1>15 DEF vars
<1> QED
  BY <1>1, <1>2, <1>3, <1>4, <1>5, <1>6, <1>7, <1>8, <1>9, <1>10, <1>11, <1>12, <1>13, <1>14, <1>15
     DEF Next, Load, Unload

\* The variables keep their types.
THEOREM TypeCorrect == Spec => []TypeOK
<1>1. IInv => TypeOK
  BY DEF IInv
<1> QED
  BY <1>1, InitInv, StepInv, PTL DEF Spec

\* No child is ever without an owner or a SIGKILL on its way.
THEOREM OwnedCorrect == Spec => []Owned
<1>1. IInv => Owned
  BY DEF IInv
<1> QED
  BY <1>1, InitInv, StepInv, PTL DEF Spec

\* The running flag never denies a child that was not seen to exit.
THEOREM NotMistakenCorrect == Spec => []NotMistaken
<1>1. IInv => NotMistaken
  BY DEF IInv
<1> QED
  BY <1>1, InitInv, StepInv, PTL DEF Spec

\* An unload() that returns Ok was final.
THEOREM UnloadIsFinalCorrect == Spec => UnloadIsFinal
<1>1. IInv /\ [Next]_vars =>
        [call = "clear" /\ call' = "idle"
           => \A c \in Child : state[c] \notin {"alive", "termed"}]_vars
  BY NameAssumption DEF IInv, HandInv, MutexInv, Owned, TypeOK
<1> QED
  BY <1>1, InitInv, StepInv, PTL DEF Spec, UnloadIsFinal

=============================================================================
