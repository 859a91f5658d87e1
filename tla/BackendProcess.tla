---------------------------- MODULE BackendProcess ----------------------------
(***************************************************************************)
(* One backend object of src/backend/llama_cpp.rs (vllm.rs differs in its   *)
(* two timeouts alone): load(), unload() and process_running() around the   *)
(* `process` mutex, the `running` flag and the child processes.             *)
(*                                                                          *)
(* load() and unload() are called under the scheduler's load_lock, so at    *)
(* most one of them is in progress (`call`); process_running() is called    *)
(* without it by any request. A caller may be dropped at an await. A child  *)
(* exits when it likes; one that was sent SIGKILL exits when the kernel     *)
(* lets it. Not covered: a load() that returns before it spawned (it leaves *)
(* no trace), stderr capture, version detection and request forwarding.     *)
(***************************************************************************)
EXTENDS Naturals, FiniteSets

CONSTANTS
    Child,          \* the processes spawned one after the other
    Prober,         \* requests that call process_running()
    NoChild, Nobody, Owner,
    WaitCanFail     \* waiting for a child may return an I/O error

ASSUME NameAssumption ==
    /\ NoChild \notin Child
    /\ Owner \notin Prober
    /\ Nobody \notin Prober \cup {Owner}
    /\ WaitCanFail \in BOOLEAN

VARIABLES
    state,    \* of each process
    process,  \* the child in the mutex
    running,  \* the AtomicBool health() reads first
    mutex,    \* who holds `process`
    call,     \* where the load() or unload() in progress stands
    hand,     \* the child owned by that call's stack frame
    probe,    \* where each process_running() stands
    saw       \* what it saw under the mutex

vars == <<state, process, running, mutex, call, hand, probe, saw>>

State == {"unborn", "alive", "termed", "killed", "exited", "reaped"}
Unloading == {"lock", "term", "kill", "lastkill", "clear"}
Call  == {"idle", "store", "flag"} \cup Unloading
Probe == {"idle", "lock", "held"}

TypeOK ==
    /\ state \in [Child -> State]
    /\ process \in Child \cup {NoChild}
    /\ running \in BOOLEAN
    /\ mutex \in Prober \cup {Owner, Nobody}
    /\ call \in Call
    /\ hand \in Child \cup {NoChild}
    /\ probe \in [Prober -> Probe]
    /\ saw \in [Prober -> {"alive", "exited"}]

Init ==
    /\ state = [c \in Child |-> "unborn"]
    /\ process = NoChild
    /\ running = FALSE
    /\ mutex = Nobody
    /\ call = "idle"
    /\ hand = NoChild
    /\ probe = [q \in Prober |-> "idle"]
    /\ saw = [q \in Prober |-> "alive"]

\* Dropping a Child sends it SIGKILL (kill_on_drop), unless it is over.
DropLeaves(c) == state      \* mutant: no kill_on_drop
Drop(c) ==
    IF c # NoChild /\ state[c] \in {"alive", "termed"}
    THEN [state EXCEPT ![c] = "killed"] ELSE state

-----------------------------------------------------------------------------
(* load *)

Spawn(c) ==
    /\ call = "idle"
    /\ state[c] = "unborn"
    /\ state' = [state EXCEPT ![c] = "alive"]
    /\ hand' = c
    /\ call' = "store"
    /\ UNCHANGED <<process, running, mutex, probe, saw>>

\* The mutex is taken and given back within the statement; a child that was
\* still in it is dropped.
Store ==
    /\ call = "store"
    /\ mutex = Nobody
    /\ state' = Drop(process)
    /\ process' = hand
    /\ hand' = NoChild
    /\ call' = "flag"
    /\ UNCHANGED <<running, mutex, probe, saw>>

Flag ==
    /\ call = "flag"
    /\ running' = TRUE
    /\ call' = "idle"
    /\ UNCHANGED <<state, process, mutex, hand, probe, saw>>

-----------------------------------------------------------------------------
(* unload: the mutex is held from here to the return *)

UnloadCall ==
    /\ call = "idle"
    /\ call' = "lock"
    /\ UNCHANGED <<state, process, running, mutex, hand, probe, saw>>

\* The child is taken out and sent SIGTERM.
Take ==
    /\ call = "lock"
    /\ mutex = Nobody
    /\ mutex' = Owner
    /\ hand' = process
    /\ process' = NoChild
    /\ \/ /\ process = NoChild
          /\ call' = "clear"
          /\ UNCHANGED state
       \/ /\ process # NoChild
          /\ call' = "term"
          /\ state' = [state EXCEPT ![process] = IF @ = "alive" THEN "termed" ELSE @]
    /\ UNCHANGED <<running, probe, saw>>

Reap == state' = [state EXCEPT ![hand] = "reaped"]

\* child.wait() returns the status; after kill().await a second wait() returns
\* the same status at once, so its timeout cannot fire.
Exited ==
    /\ call \in {"term", "kill", "lastkill"}
    /\ state[hand] \in {"exited", "reaped"}
    /\ Reap
    /\ call' = "clear"
    /\ UNCHANGED <<process, running, mutex, hand, probe, saw>>

\* mutant: a child that ignores SIGTERM is left alone.
TermTimeoutGivesUp ==
    /\ call = "term"
    /\ call' = "clear"
    /\ hand' = NoChild
    /\ UNCHANGED <<state, process, running, mutex, probe, saw>>

\* mutant: the wait after SIGTERM has no timeout.
NoTermTimeout == FALSE

\* The wait after SIGTERM times out, or errs: kill() is called, and its result
\* counts in the first case alone.
TermTimeout ==
    /\ call = "term"
    /\ state' = Drop(hand)
    /\ \/ /\ state[hand] \notin {"exited", "reaped"}
          /\ call' = "kill"
       \/ /\ WaitCanFail
          /\ call' = "lastkill"
    /\ UNCHANGED <<process, running, mutex, hand, probe, saw>>

\* kill().await errs: reported after a timeout, ignored after an error.
KillFailed ==
    /\ WaitCanFail
    /\ \/ /\ call = "kill"
          /\ running' = FALSE
          /\ mutex' = Nobody
          /\ hand' = NoChild
          /\ call' = "idle"
       \/ /\ call = "lastkill"
          /\ call' = "clear"
          /\ UNCHANGED <<running, mutex, hand>>
    /\ UNCHANGED <<state, process, probe, saw>>

Clear ==
    /\ call = "clear"
    /\ running' = FALSE
    /\ mutex' = Nobody
    /\ hand' = NoChild
    /\ call' = "idle"
    /\ UNCHANGED <<state, process, probe, saw>>

\* The caller's future is dropped at an await, with what its frame owns.
Abandon ==
    /\ call \in {"store", "lock", "term", "kill", "lastkill"}
    /\ state' = Drop(hand)
    /\ mutex' = IF mutex = Owner THEN Nobody ELSE mutex
    /\ hand' = NoChild
    /\ call' = "idle"
    /\ UNCHANGED <<process, running, probe, saw>>

-----------------------------------------------------------------------------
(* process_running *)

Ask(q) ==
    /\ probe[q] = "idle"
    /\ probe' = [probe EXCEPT ![q] = "lock"]
    /\ UNCHANGED <<state, process, running, mutex, call, hand, saw>>

ExitSeen == process # NoChild /\ state[process] \in {"exited", "reaped"}

\* mutant: the guard is dropped before the flag is written.
LookUnguarded(q) ==
    /\ probe[q] = "lock"
    /\ mutex = Nobody
    /\ probe' = [probe EXCEPT ![q] = "held"]
    /\ saw' = [saw EXCEPT ![q] = IF ExitSeen THEN "exited" ELSE "alive"]
    /\ state' = IF ExitSeen THEN [state EXCEPT ![process] = "reaped"] ELSE state
    /\ UNCHANGED <<process, running, mutex, call, hand>>

\* try_wait() under the mutex.
Look(q) ==
    /\ probe[q] = "lock"
    /\ mutex = Nobody
    /\ mutex' = q
    /\ probe' = [probe EXCEPT ![q] = "held"]
    /\ saw' = [saw EXCEPT ![q] = IF ExitSeen THEN "exited" ELSE "alive"]
    /\ state' = IF ExitSeen THEN [state EXCEPT ![process] = "reaped"] ELSE state
    /\ UNCHANGED <<process, running, call, hand>>

\* The flag follows what was seen; then the guard is dropped.
Answer(q) ==
    /\ probe[q] = "held"
    /\ running' = (running /\ saw[q] = "alive")
    /\ mutex' = IF mutex = q THEN Nobody ELSE mutex
    /\ probe' = [probe EXCEPT ![q] = "idle"]
    /\ saw' = [saw EXCEPT ![q] = "alive"]
    /\ UNCHANGED <<state, process, call, hand>>

-----------------------------------------------------------------------------
(* The kernel *)

Exits(c) ==
    /\ state[c] \in {"alive", "termed", "killed"}
    /\ state' = [state EXCEPT ![c] = "exited"]
    /\ UNCHANGED <<process, running, mutex, call, hand, probe, saw>>

-----------------------------------------------------------------------------
(* Specification *)

Load   == (\E c \in Child : Spawn(c)) \/ Store \/ Flag
Unload == UnloadCall \/ Take \/ Exited \/ TermTimeout \/ KillFailed \/ Clear

Next ==
    \/ Load \/ Unload \/ Abandon
    \/ \E q \in Prober : Ask(q) \/ Look(q) \/ Answer(q)
    \/ \E c \in Child : Exits(c)

Spec == Init /\ [][Next]_vars

\* tokio's mutex queues its waiters; a call in progress runs on, and its 5 s
\* wait ends. Nobody has to call.
CodeFairness ==
    /\ SF_vars(Store) /\ SF_vars(Take)
    /\ WF_vars(Flag) /\ WF_vars(Exited \/ TermTimeout) /\ WF_vars(Clear)
    /\ \A q \in Prober : SF_vars(Look(q)) /\ WF_vars(Answer(q))

\* A process that was sent SIGKILL goes.
KernelFairness == \A c \in Child : WF_vars(state[c] = "killed" /\ Exits(c))

CodeSpec == Spec /\ CodeFairness
FairSpec == CodeSpec /\ KernelFairness

-----------------------------------------------------------------------------
(* Properties *)

\* No child without an owner: one that nobody has sent SIGKILL is in the mutex
\* or in the hands of the call in progress, so some unload() can still stop it.
Owned ==
    \A c \in Child : state[c] \in {"alive", "termed"} => c \in {process, hand}

\* A child that has not been seen to exit is never taken for dead: the flag that
\* health() reads stays up, whatever older calls write late.
NotMistaken ==
    process # NoChild /\ state[process] # "reaped" /\ call # "flag" => running

\* An unload() that returns Ok leaves no process behind that was not told to die.
UnloadIsFinal ==
    [][call = "clear" /\ call' = "idle"
        => \A c \in Child : state[c] \notin {"alive", "termed"}]_vars

\* Every unload() returns, and with it the mutex, load_lock and the map's lock.
UnloadReturns == call \in Unloading ~> call \notin Unloading

\* Every process_running() returns.
ProbeReturns == \A q \in Prober : probe[q] = "lock" ~> probe[q] = "idle"

\* No call on a backend hangs while the kernel lets killed children go.
CallsReturn == UnloadReturns /\ ProbeReturns

=============================================================================
