------------------------------- MODULE Alarms -------------------------------
(***************************************************************************)
(* What the bellringer promises: a thread that sleeps for n ticks is woken *)
(* up by the n-th tick from then, not by an earlier one and before the     *)
(* next one.  Bellringer implements this with a list of differences.       *)
(***************************************************************************)
EXTENDS Integers

CONSTANT Thread

Off == -1  \* no alarm is set

VARIABLE left  \* ticks until the alarm of each thread goes off

AlarmsInit == left = [t \in Thread |-> Off]

\* No alarm has gone off whose thread is still to be woken up.
NoneDue == \A t \in Thread : left[t] # 0

\* Bell::sleep
Set(t) ==
  /\ NoneDue
  /\ left[t] = Off
  /\ left'[t] \in Nat \ {0}
  /\ left' = [left EXCEPT ![t] = left'[t]]

\* Bellringer::check: time goes by.
Tick ==
  /\ NoneDue
  /\ left' = [t \in Thread |-> IF left[t] = Off THEN Off ELSE left[t] - 1]

\* Scheduler::kill of the sleeping thread.
Unset(t) ==
  /\ NoneDue
  /\ left' = [left EXCEPT ![t] = Off]

\* Bellringer::check: the thread is woken up.
Ring(t) ==
  /\ left[t] = 0
  /\ left' = [left EXCEPT ![t] = Off]

AlarmsNext ==
  \/ Tick
  \/ \E t \in Thread : Set(t) \/ Unset(t) \/ Ring(t)

AlarmsSpec == AlarmsInit /\ [][AlarmsNext]_left

=============================================================================
