-------------------------------- MODULE Idle --------------------------------
(***************************************************************************)
(* thread/idlethread.cc, device/watch.cc, thread/wakeup.cc: CPUs that have *)
(* nothing to do halt, with their timer masked where it is not needed, and *)
(* are woken up by an interrupt that Scheduler::ready() sends to all.      *)
(*                                                                         *)
(* Threads are only counted.  The idle thread looks at the ready list and  *)
(* the bell list without the kernel's lock, so its steps interleave with   *)
(* those of the other CPUs; what runs inside the kernel is one step, but   *)
(* for ready(), whose interrupt comes after the thread is in the list.     *)
(***************************************************************************)
EXTENDS Integers

CONSTANTS CPU,
          Boot,      \* the CPU with ID 0
          MaxThreads \* bound: number of threads

ASSUME IdleAssumption == Boot \in CPU /\ MaxThreads \in Nat

VARIABLES
  pc,        \* where each CPU is: in a thread or in its idle thread
  idle_at,   \* where its idle thread goes on when it is dispatched again
  ready,     \* number of threads in the ready list
  waiting,   \* number of threads that wait for an event
  sleeping,  \* number of bells in the bell list
  sending,   \* ready() has enqueued the thread, and not yet sent its interrupt
  masked,    \* timer masked in the local APIC
  tick,      \* timer interrupt pending at the local APIC
  wake       \* wakeup interrupt pending at the local APIC

threadVars == <<ready, waiting, sleeping>>
irqVars == <<masked, tick, wake>>
vars == <<pc, idle_at, threadVars, sending, irqVars>>

\* In the idle loop: before disable_int; before is_empty(), before
\* bell_pending(), before watch.block(), in CPU::idle(), before
\* watch.unblock() and before resume().
IdlePC == {"loop", "check", "bells", "block", "halt", "woken", "resume"}

Init ==
  /\ pc = [c \in CPU |-> "boot"]
  /\ idle_at = [c \in CPU |-> "loop"]
  /\ ready = MaxThreads
  /\ waiting = 0
  /\ sleeping = 0
  /\ sending = FALSE
  /\ masked = [c \in CPU |-> FALSE]
  /\ tick = [c \in CPU |-> FALSE]
  /\ wake = [c \in CPU |-> FALSE]

\* Nobody is in the kernel.
KernelFree == ~ sending

IntsEnabled(c) == pc[c] \in {"thread", "loop", "halt", "woken", "resume"}

Goto(c, where) == pc' = [pc EXCEPT ![c] = where]

\* A faulty form of AfterInterrupt: the CPU halts again.
AfterInterruptHalt(c) == pc[c]

\* Where the idle thread of c is once the interrupt that it takes is over.
AfterInterrupt(c) == IF pc[c] = "halt" THEN "woken" ELSE pc[c]

\* dispatch_next() on c when n threads are in the ready list; the idle thread
\* of c is, or will be, at the place back.
DispatchNext(c, n, back) ==
  /\ idle_at' = [idle_at EXCEPT ![c] = back]
  /\ IF n = 0 THEN Goto(c, back) /\ ready' = 0
     ELSE Goto(c, "thread") /\ ready' = n - 1

-----------------------------------------------------------------------------
(* Threads                                                                 *)

\* schedule()
Schedule(c) ==
  /\ pc[c] = "boot" /\ KernelFree
  /\ DispatchNext(c, ready, idle_at[c])
  /\ UNCHANGED <<waiting, sleeping, sending, irqVars>>

\* The thread on c waits for an event.
ThreadWaits(c) ==
  /\ pc[c] = "thread" /\ KernelFree
  /\ waiting' = waiting + 1
  /\ DispatchNext(c, ready, idle_at[c])
  /\ UNCHANGED <<sleeping, sending, irqVars>>

\* Bell::sleep by the thread on c
ThreadSleeps(c) ==
  /\ pc[c] = "thread" /\ KernelFree
  /\ sleeping' = sleeping + 1
  /\ DispatchNext(c, ready, idle_at[c])
  /\ UNCHANGED <<waiting, sending, irqVars>>

\* Scheduler::ready for a thread that waits, called by the thread on c or by
\* the epilogue of a device that interrupts c.
ThreadReady(c) ==
  /\ IntsEnabled(c) /\ KernelFree
  /\ waiting > 0
  /\ waiting' = waiting - 1
  /\ ready' = ready + 1
  /\ sending' = TRUE
  /\ Goto(c, AfterInterrupt(c))
  /\ UNCHANGED <<idle_at, sleeping, irqVars>>

\* A faulty form of SendWakeup: no interrupt is sent.
SendNothing ==
  /\ sending
  /\ sending' = FALSE
  /\ UNCHANGED <<pc, idle_at, threadVars, irqVars>>

\* ready(): sendCustomIPI to all CPUs
SendWakeup ==
  /\ sending
  /\ sending' = FALSE
  /\ wake' = [c \in CPU |-> TRUE]
  /\ UNCHANGED <<pc, idle_at, threadVars, masked, tick>>

-----------------------------------------------------------------------------
(* Interrupts                                                              *)

\* The local timer expires.
TimerExpires(c) ==
  /\ pc[c] # "boot"
  /\ ~ masked[c]
  /\ tick' = [tick EXCEPT ![c] = TRUE]
  /\ UNCHANGED <<pc, idle_at, threadVars, sending, masked, wake>>

\* Watch::epilogue, no bell rings: resume() from a thread or the idle thread.
TimerIrq(c) ==
  /\ IntsEnabled(c) /\ tick[c] /\ KernelFree
  /\ tick' = [tick EXCEPT ![c] = FALSE]
  /\ IF pc[c] = "thread"
     THEN DispatchNext(c, ready + 1, idle_at[c])
     ELSE DispatchNext(c, ready, AfterInterrupt(c))
  /\ UNCHANGED <<waiting, sleeping, sending, masked, wake>>

\* Watch::epilogue on CPU 0, and a bell rings in bellringer.check().
TimerIrqBell(c) ==
  /\ IntsEnabled(c) /\ tick[c] /\ KernelFree
  /\ c = Boot /\ sleeping > 0
  /\ tick' = [tick EXCEPT ![c] = FALSE]
  /\ sleeping' = sleeping - 1
  /\ wake' = [d \in CPU |-> TRUE]
  /\ IF pc[c] = "thread"
     THEN DispatchNext(c, ready + 2, idle_at[c])
     ELSE DispatchNext(c, ready + 1, AfterInterrupt(c))
  /\ UNCHANGED <<waiting, sending, masked>>

\* WakeUp::prologue does nothing, and asks for no epilogue.
WakeupIrq(c) ==
  /\ IntsEnabled(c) /\ wake[c]
  /\ wake' = [wake EXCEPT ![c] = FALSE]
  /\ Goto(c, AfterInterrupt(c))
  /\ UNCHANGED <<idle_at, threadVars, sending, masked, tick>>

-----------------------------------------------------------------------------
(* The idle thread                                                         *)

\* CPU::disable_int()
IdleDisable(c) ==
  /\ pc[c] = "loop"
  /\ Goto(c, "check")
  /\ UNCHANGED <<idle_at, threadVars, sending, irqVars>>

\* scheduler.is_empty() is false; CPU::enable_int()
IdleFound(c) ==
  /\ pc[c] = "check"
  /\ ready > 0
  /\ Goto(c, "resume")
  /\ UNCHANGED <<idle_at, threadVars, sending, irqVars>>

\* scheduler.is_empty() is true.
IdleEmpty(c) ==
  /\ pc[c] = "check"
  /\ ready = 0
  /\ Goto(c, "bells")
  /\ UNCHANGED <<idle_at, threadVars, sending, irqVars>>

\* ! bellringer.bell_pending() || system.getCPUID() != 0, or not
IdleBells(c) ==
  /\ pc[c] = "bells"
  /\ Goto(c, IF sleeping = 0 \/ c # Boot THEN "block" ELSE "halt")
  /\ UNCHANGED <<idle_at, threadVars, sending, irqVars>>

\* A faulty form of IdleBlock: interrupts have been enabled since the list was
\* looked at, and one that came is over when the CPU halts.
IdleBlockOpen(c) ==
  /\ pc[c] = "block"
  /\ masked' = [masked EXCEPT ![c] = TRUE]
  /\ wake' = [wake EXCEPT ![c] = FALSE]
  /\ Goto(c, "halt")
  /\ UNCHANGED <<idle_at, threadVars, sending, tick>>

\* watch.block(); the next is CPU::idle(), which enables interrupts and halts.
IdleBlock(c) ==
  /\ pc[c] = "block"
  /\ masked' = [masked EXCEPT ![c] = TRUE]
  /\ Goto(c, "halt")
  /\ UNCHANGED <<idle_at, threadVars, sending, tick, wake>>

\* An interrupt has ended CPU::idle().  watch.unblock(), if it was blocked
IdleWoken(c) ==
  /\ pc[c] = "woken"
  /\ masked' = [masked EXCEPT ![c] = FALSE]
  /\ Goto(c, "loop")
  /\ UNCHANGED <<idle_at, threadVars, sending, tick, wake>>

\* Guarded_Scheduler::resume(); the idle thread goes on behind it.
IdleResume(c) ==
  /\ pc[c] = "resume" /\ KernelFree
  /\ DispatchNext(c, ready, "loop")
  /\ UNCHANGED <<waiting, sleeping, sending, irqVars>>

-----------------------------------------------------------------------------

IdleStep(c) ==
  \/ IdleDisable(c) \/ IdleFound(c) \/ IdleEmpty(c) \/ IdleBells(c)
  \/ IdleBlock(c) \/ IdleWoken(c) \/ IdleResume(c)

Next ==
  \/ SendWakeup
  \/ \E c \in CPU :
       \/ Schedule(c) \/ ThreadWaits(c) \/ ThreadSleeps(c) \/ ThreadReady(c)
       \/ TimerExpires(c) \/ TimerIrq(c) \/ TimerIrqBell(c) \/ WakeupIrq(c)
       \/ IdleStep(c)

Spec == Init /\ [][Next]_vars

\* The CPUs execute their instructions and take their interrupts, and a timer
\* that is not masked expires.  A bell rings at some tick of CPU 0: the kernel
\* may be busy and its ticks many, hence the strong fairness.
Fairness ==
  /\ WF_vars(SendWakeup)
  /\ SF_vars(TimerIrqBell(Boot))
  /\ \A c \in CPU :
       /\ WF_vars(TimerExpires(c))
       /\ WF_vars(IdleStep(c)) /\ SF_vars(IdleResume(c))
       /\ SF_vars(Schedule(c)) /\ SF_vars(TimerIrq(c) \/ TimerIrqBell(c)) /\ SF_vars(WakeupIrq(c))

FairSpec == Spec /\ Fairness

-----------------------------------------------------------------------------

TypeOK ==
  /\ pc \in [CPU -> IdlePC \cup {"boot", "thread"}]
  /\ idle_at \in [CPU -> {"loop", "woken", "resume"}]
  /\ ready \in Nat /\ waiting \in Nat /\ sleeping \in Nat
  /\ sending \in BOOLEAN
  /\ masked \in [CPU -> BOOLEAN]
  /\ tick \in [CPU -> BOOLEAN]
  /\ wake \in [CPU -> BOOLEAN]

\* No CPU halts beside a thread that is ready unless an interrupt that will end
\* the halt is pending or about to be sent, although the idle thread looks at
\* the list without the lock before it halts.  And the idle thread only lets go of
\* its CPU with the timer masked when it goes on by unmasking it, so a masked timer
\* is unmasked before the next halt.
NoLostWakeup ==
  /\ TypeOK
  /\ \A c \in CPU : pc[c] = "halt" /\ ready > 0 => wake[c] \/ tick[c] \/ sending
  /\ \A c \in CPU : masked[c] =>
       pc[c] \in {"halt", "woken"} \/ (pc[c] = "thread" /\ idle_at[c] = "woken")

\* A CPU that halts stops halting when a thread is ready, or somebody else has
\* taken the thread.
IdleNoticesWork == \A c \in CPU : pc[c] = "halt" /\ ready > 0 ~> pc[c] # "halt" \/ ready = 0

\* bellringer.h:15-16, 51: the bellringer is activated regularly, and rings a
\* bell that was handed to it.
BellsRing == sleeping = MaxThreads ~> sleeping < MaxThreads

=============================================================================
