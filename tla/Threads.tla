------------------------------ MODULE Threads ------------------------------
(***************************************************************************)
(* What the scheduler promises of each single thread: it is started once,  *)
(* gets a CPU only from the ready list, waits only when it has one, is     *)
(* made ready again by somebody else, and once it has ended it has ended.  *)
(* Scheduler implements this with lists, pointers and flags.               *)
(***************************************************************************)
EXTENDS Naturals, FiniteSets

CONSTANTS CPU, Thread

VARIABLE state

ThreadsInit == state = [t \in Thread |-> "new"]

\* The thread t goes from one state to another, and no other thread does.
Goes(t, from, to) == state[t] = from /\ state' = [state EXCEPT ![t] = to]

\* Scheduler::ready
Start(t) == Goes(t, "new", "ready")

\* Dispatcher::go, dispatch: there is a CPU on which no thread runs.
Dispatch(t) ==
  /\ Cardinality({u \in Thread : state[u] = "running"}) < Cardinality(CPU)
  /\ Goes(t, "ready", "running")

\* Scheduler::resume
Preempt(t) == Goes(t, "running", "ready")

\* Scheduler::block
Wait(t) == Goes(t, "running", "waiting")

\* Scheduler::wakeup
Wake(t) == Goes(t, "waiting", "ready")

\* Scheduler::exit, kill
End(t) == \E from \in {"ready", "running", "waiting"} : Goes(t, from, "ended")

ThreadsNext ==
  \E t \in Thread :
    Start(t) \/ Dispatch(t) \/ Preempt(t) \/ Wait(t) \/ Wake(t) \/ End(t)

ThreadsSpec == ThreadsInit /\ [][ThreadsNext]_state

=============================================================================
