----------------------------- MODULE Bellringer -----------------------------
(***************************************************************************)
(* meeting/bellringer.cc and bell.cc: threads that sleep for some time.    *)
(*                                                                         *)
(* Bell::sleep puts a Bell on the stack of the sleeping thread, so a bell  *)
(* is named by its thread here.  bell_list holds the bells in the order in *)
(* which they ring, and each one's ms is the time from the bell before it. *)
(* job() and check() run inside the kernel (Guard); check() takes several  *)
(* steps, and sleep() does not come between them.                          *)
(***************************************************************************)
EXTENDS Integers, SequencesExt

CONSTANTS Thread,
          Word,  \* number of values of an unsigned int (2^32)
          MaxMs  \* bound: longest sleep

BellringerAssumption == Word \in Nat /\ MaxMs \in 1 .. Word - 1

VARIABLES
  bell_list,  \* bells that wait, by their threads
  ms,         \* Bell::ms, a 32-bit unsigned int
  customer,   \* threads in the waiting room of their own bell
  stack,      \* threads whose stack, with the bell on it, exists
  ringing     \* inside the loop of check()

bells == <<bell_list, ms, customer, stack, ringing>>

BellInit ==
  /\ bell_list = <<>>
  /\ ms = [t \in Thread |-> 0]
  /\ customer = {}
  /\ stack = Thread
  /\ ringing = FALSE

\* Time from now until the i-th bell rings.
Elapsed[i \in Nat] == IF i = 0 THEN 0 ELSE Elapsed[i - 1] + ms[bell_list[i]]

\* job(): the new bell goes behind those that ring no later than it does.
Behind(n) == Cardinality({i \in DOMAIN bell_list : Elapsed[i] <= n})

\* A faulty form of Job: the bell behind is not reduced.
JobKeepsNext(t, n) ==
  LET k == Behind(n)
  IN /\ ms' = [ms EXCEPT ![t] = n - Elapsed[k]]
     /\ bell_list' = InsertAt(bell_list, k + 1, t)

\* Bellringer::job(bell, n): ms becomes the time from the bell before, and the
\* bell behind rings that much after this one.
Job(t, n) ==
  LET k == Behind(n)
      rest == n - Elapsed[k]
  IN /\ ms' = [u \in Thread |->
                 IF u = t THEN rest
                 ELSE IF k < Len(bell_list) /\ u = bell_list[k + 1] THEN ms[u] - rest
                 ELSE ms[u]]
     /\ bell_list' = InsertAt(bell_list, k + 1, t)

\* A faulty form of Sleep: sleep(0) does not return at once.
SleepAnyTime(t, n) ==
  /\ ~ ringing
  /\ t \in stack \ customer
  /\ Job(t, n)
  /\ customer' = customer \cup {t}
  /\ UNCHANGED <<stack, ringing>>

\* Bell::sleep(n), n > 0: job(), then Scheduler::block.
Sleep(t, n) ==
  /\ ~ ringing
  /\ t \in stack \ customer
  /\ n > 0
  /\ Job(t, n)
  /\ customer' = customer \cup {t}
  /\ UNCHANGED <<stack, ringing>>

\* check(): a tick for the first bell.
CheckTick ==
  /\ ~ ringing
  /\ bell_list # <<>>
  /\ ms' = [ms EXCEPT ![Head(bell_list)] = (@ - 1) % Word]
  /\ ringing' = (ms'[Head(bell_list)] = 0)
  /\ UNCHANGED <<bell_list, customer, stack>>

\* Bellringer::cancel for the first bell.
Cancel ==
  /\ bell_list' = Tail(bell_list)
  /\ ms' = IF Len(bell_list) = 1 THEN ms
           ELSE [ms EXCEPT ![bell_list[2]] = (@ + ms[bell_list[1]]) % Word]

\* Faulty forms of CheckRing: only the first bell rings, and the bell is
\* cancelled before the first one is rung.
CheckRingOne ==
  /\ ringing
  /\ customer' = customer \ {Head(bell_list)}
  /\ Cancel
  /\ ringing' = FALSE
  /\ UNCHANGED stack
CheckRingNext ==
  /\ ringing
  /\ Cancel
  /\ customer' = IF bell_list' = <<>> THEN customer ELSE customer \ {Head(bell_list')}
  /\ ringing' = (bell_list' # <<>> /\ ms'[Head(bell_list')] = 0)
  /\ UNCHANGED stack

\* check(): the first bell rings, which wakes up its thread, and is cancelled;
\* the loop goes on while the next one rings at the same time.
CheckRing ==
  /\ ringing
  /\ customer' = customer \ {Head(bell_list)}
  /\ Cancel
  /\ ringing' = (bell_list' # <<>> /\ ms'[Head(bell_list')] = 0)
  /\ UNCHANGED stack

\* Scheduler::kill for a sleeping thread: it leaves the waiting room, and its
\* stack is freed.  The bell stays in the list.  What follows is undefined; in
\* the model the freed memory keeps its contents, as it does until the heap
\* gives it to somebody else.
KillSleeper(t) ==
  /\ ~ ringing
  /\ t \in customer
  /\ customer' = customer \ {t}
  /\ stack' = stack \ {t}
  /\ UNCHANGED <<bell_list, ms, ringing>>

Check == CheckTick \/ CheckRing

BellNext ==
  \/ Check
  \/ \E t \in Thread :
       KillSleeper(t) \/ \E n \in 0 .. MaxMs : Sleep(t, n)

BellSpec == BellInit /\ [][BellNext]_bells

\* The timer interrupt of CPU 0 comes again and again.  (Idle shows when it
\* does not.)
FairBellSpec == BellSpec /\ WF_bells(Check)

-----------------------------------------------------------------------------

BellTypeOK ==
  /\ bell_list \in Seq(Thread)
  /\ ms \in [Thread -> 0 .. Word - 1]
  /\ customer \subseteq Thread
  /\ stack \subseteq Thread
  /\ ringing \in BOOLEAN

\* A thread only sleeps while its bell is in the list, which holds it once, and
\* a bell without a sleeper is one whose thread was killed.  And check() never takes
\* a tick from a bell that has none left, which would make it ring Word ticks later;
\* so a bell that rings with the first one is found by the loop in the same check().
BellsConsistent ==
  /\ BellTypeOK
  /\ IsInjective(bell_list)
  /\ \A t \in customer : Contains(bell_list, t)
  /\ \A t \in stack : Contains(bell_list, t) => t \in customer
  /\ bell_list # <<>> => (ringing <=> ms[Head(bell_list)] = 0)

\* The sum of the differences is what the absolute time would be, whatever is
\* inserted before, between and behind, and whoever is killed: each thread sleeps
\* for as many ticks as it asked for.
Left(t) ==
  IF t \in customer
  THEN Elapsed[CHOOSE i \in DOMAIN bell_list : bell_list[i] = t]
  ELSE -1
AbstractAlarms == INSTANCE Alarms WITH left <- [t \in Thread |-> Left(t)]
ImplementsAlarms == AbstractAlarms!AlarmsSpec

\* Every sleeping thread is woken up.
SleepersWake == \A t \in Thread : t \in customer ~> t \notin customer

\* bell.cc:10-11: ring() takes into account that the thread of a bell was
\* killed.  So such a bell, which was on the stack of the thread, still exists.
BellsExist == \A i \in DOMAIN bell_list : bell_list[i] \in stack

=============================================================================
