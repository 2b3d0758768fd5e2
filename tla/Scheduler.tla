----------------------------- MODULE Scheduler -----------------------------
(***************************************************************************)
(* thread/scheduler.cc, dispatcher.cc, thread.cc, assassin.cc,             *)
(* meeting/semaphore.cc, waitingroom.cc, user/mutex/mutex.cc and the       *)
(* guarded calls of syscall/: where the threads are, and who ends them.    *)
(*                                                                         *)
(* Every call here is a Secure section or an epilogue, and Guard shows     *)
(* that these are serialised.  So one kernel call runs at a time; those    *)
(* that end with ~Thread and dispatch_next() take several steps (dying,    *)
(* switching), and no other call begins before they are through.           *)
(*                                                                         *)
(* A thread that blocks in p() stands in the waiting room and continues    *)
(* after dispatch_next() when it is dispatched again, which matters for    *)
(* Mutex::lock(), where it still has to make itself the owner (locking).   *)
(***************************************************************************)
EXTENDS Integers, SequencesExt

CONSTANTS CPU, Thread,
          Sem,        \* plain semaphores, initially 0 (keyboard)
          Mutex,      \* mutexes (kout_mutex)
          Idle,       \* stands for idlethread[c] in life[c]
          NoThread, NoCPU, NoRoom,
          MaxUnits    \* bound: v() is not called on a semaphore that is this high

Room == Sem \cup Mutex

ASSUME SchedulerAssumption ==
  /\ Idle \notin Thread /\ NoThread \notin Thread \cup {Idle}
  /\ NoCPU \notin CPU
  /\ NoRoom \notin Room
  /\ Sem \cap Mutex = {}
  /\ MaxUnits \in Nat

VARIABLES
  life,         \* life[CPU_MAX]; NoThread before schedule()
  ready_list,
  customers,    \* the queue of each Waitingroom
  counter,      \* Semaphore::counter
  owner,        \* Mutex::owner
  started,      \* threads given to Guarded_Scheduler::ready
  waitingroom,  \* Thread::waitingroom
  killed,       \* Thread::killed
  mutex_list,   \* Thread::mutex_list
  locking,      \* mutex in whose lock() the thread is still in p()
  destroyed,    \* how often ~Thread has freed its stack (2 stands for more)
  ipi,          \* CPUs with an assassin interrupt on its way
  dying,        \* thread in mutex_release_all()
  switching     \* CPU that ends the kernel call with dispatch_next()

listVars == <<ready_list, customers, waitingroom>>
lockVars == <<counter, owner, mutex_list, locking>>
fateVars == <<started, killed, destroyed, ipi>>
callVars == <<dying, switching>>
vars == <<life, listVars, lockVars, fateVars, callVars>>

Init ==
  /\ life = [c \in CPU |-> NoThread]
  /\ ready_list = <<>>
  /\ customers = [r \in Room |-> <<>>]
  /\ counter = [r \in Room |-> IF r \in Mutex THEN 1 ELSE 0]
  /\ owner = [m \in Mutex |-> NoThread]
  /\ started = {}
  /\ waitingroom = [t \in Thread |-> NoRoom]
  /\ killed = [t \in Thread |-> FALSE]
  /\ mutex_list = [t \in Thread |-> <<>>]
  /\ locking = [t \in Thread |-> NoRoom]
  /\ destroyed = [t \in Thread |-> 0]
  /\ ipi = {}
  /\ dying = NoThread
  /\ switching = NoCPU

\* A kernel call can begin: none is under way.
KernelFree == dying = NoThread /\ switching = NoCPU

\* A thread, not the idle thread, makes the call on c.
Calls(t, c) == KernelFree /\ life[c] = t

DispatchNext(c) == switching' = c

\* ~Thread begins: the stack is freed, then mutex_release_all() runs.
Destruct(t) ==
  /\ destroyed' = [destroyed EXCEPT ![t] = IF @ = 0 THEN 1 ELSE 2]
  /\ dying' = t

-----------------------------------------------------------------------------
(* Threads come and get the CPU                                            *)

\* Guarded_Scheduler::ready(that), by main() or by a thread.
Ready(that) ==
  /\ KernelFree
  /\ that \notin started
  /\ started' = started \cup {that}
  /\ ready_list' = Append(ready_list, that)
  /\ UNCHANGED <<life, customers, waitingroom, lockVars, killed, destroyed, ipi, callVars>>

\* main(), main_ap(): guard.enter(); schedule().  The first thread is chosen
\* as in dispatch_next().
Schedule(c) ==
  /\ Calls(NoThread, c)
  /\ DispatchNext(c)
  /\ UNCHANGED <<life, listVars, lockVars, fateVars, dying>>

\* A thread comes back from block(): if that was p() in Mutex::lock(), the rest
\* of lock() follows.
Continue(t) ==
  /\ owner' = IF locking[t] = NoRoom THEN owner ELSE [owner EXCEPT ![locking[t]] = t]
  /\ mutex_list' =
       IF locking[t] = NoRoom THEN mutex_list
       ELSE [mutex_list EXCEPT ![t] = Append(@, locking[t])]
  /\ locking' = [locking EXCEPT ![t] = NoRoom]

\* dispatch_next() with a thread in the ready list.
DispatchReady(c) ==
  /\ dying = NoThread /\ switching = c
  /\ ready_list # <<>>
  /\ life' = [life EXCEPT ![c] = Head(ready_list)]
  /\ ready_list' = Tail(ready_list)
  /\ Continue(Head(ready_list))
  /\ switching' = NoCPU
  /\ UNCHANGED <<customers, waitingroom, counter, fateVars, dying>>

\* dispatch_next() with an empty ready list.
DispatchIdle(c) ==
  /\ dying = NoThread /\ switching = c
  /\ ready_list = <<>>
  /\ life' = [life EXCEPT ![c] = Idle]
  /\ switching' = NoCPU
  /\ UNCHANGED <<listVars, lockVars, fateVars, dying>>

-----------------------------------------------------------------------------
(* Scheduler::resume, from the timer epilogue and from the idle loop       *)

\* A faulty form of ResumeQueue: the thread is queued in front.
ResumeQueueFirst(c) ==
  /\ KernelFree /\ life[c] \in Thread /\ ~ killed[life[c]]
  /\ ready_list' = <<life[c]>> \o ready_list
  /\ DispatchNext(c)
  /\ UNCHANGED <<life, customers, waitingroom, lockVars, fateVars, dying>>

\* The running thread goes to the end of the ready list.
ResumeQueue(c) ==
  /\ KernelFree /\ life[c] \in Thread /\ ~ killed[life[c]]
  /\ ready_list' = Append(ready_list, life[c])
  /\ DispatchNext(c)
  /\ UNCHANGED <<life, customers, waitingroom, lockVars, fateVars, dying>>

\* A faulty form of ResumeDying: the flag is not looked at.
ResumeBlind(c) ==
  /\ KernelFree /\ life[c] \in Thread /\ killed[life[c]]
  /\ ready_list' = Append(ready_list, life[c])
  /\ DispatchNext(c)
  /\ UNCHANGED <<life, customers, waitingroom, lockVars, fateVars, dying>>

\* The running thread has been killed, and ends here.
ResumeDying(c) ==
  /\ KernelFree /\ life[c] \in Thread /\ killed[life[c]]
  /\ Destruct(life[c])
  /\ DispatchNext(c)
  /\ UNCHANGED <<life, listVars, lockVars, started, killed, ipi>>

\* The idle thread is not queued.
ResumeIdle(c) ==
  /\ Calls(Idle, c)
  /\ DispatchNext(c)
  /\ UNCHANGED <<life, listVars, lockVars, fateVars, dying>>

Resume(c) == ResumeQueue(c) \/ ResumeDying(c) \/ ResumeIdle(c)

-----------------------------------------------------------------------------
(* Semaphores and mutexes                                                  *)

\* Scheduler::block: the active thread goes into the waiting room r.
Block(t, c, r) ==
  /\ customers' = [customers EXCEPT ![r] = Append(@, t)]
  /\ waitingroom' = [waitingroom EXCEPT ![t] = r]
  /\ DispatchNext(c)

\* Semaphore::v: the first customer is woken up, or the counter goes up.
SignalFirst(r) ==
  /\ customers[r] # <<>>
  /\ LET t == Head(customers[r])
     IN /\ waitingroom' = [waitingroom EXCEPT ![t] = NoRoom]
        /\ ready_list' = Append(ready_list, t)
  /\ customers' = [customers EXCEPT ![r] = Tail(@)]
  /\ UNCHANGED counter
SignalNobody(r) ==
  /\ customers[r] = <<>>
  /\ counter' = [counter EXCEPT ![r] = @ + 1]
  /\ UNCHANGED listVars

\* A faulty form of Signal: the counter goes up and nobody is woken.
SignalCounts(r) ==
  /\ counter' = [counter EXCEPT ![r] = @ + 1]
  /\ UNCHANGED listVars

Signal(r) == SignalFirst(r) \/ SignalNobody(r)

\* p() on a plain semaphore, by the thread t on c: the counter is positive ...
WaitTake(t, c, s) ==
  /\ Calls(t, c)
  /\ counter[s] > 0
  /\ counter' = [counter EXCEPT ![s] = @ - 1]
  /\ UNCHANGED <<life, listVars, owner, mutex_list, locking, fateVars, callVars>>

\* ... or it is not, and the thread blocks.
WaitBlock(t, c, s) ==
  /\ Calls(t, c)
  /\ counter[s] = 0
  /\ Block(t, c, s)
  /\ UNCHANGED <<life, ready_list, lockVars, fateVars, dying>>

\* v() on a plain semaphore, by a thread or by an epilogue (keyboard).
Post(s) ==
  /\ KernelFree
  /\ counter[s] < MaxUnits
  /\ Signal(s)
  /\ UNCHANGED <<life, owner, mutex_list, locking, fateVars, callVars>>

\* Mutex::lock: the mutex is free ...
LockTake(t, c, m) ==
  /\ Calls(t, c)
  /\ counter[m] > 0
  /\ counter' = [counter EXCEPT ![m] = @ - 1]
  /\ owner' = [owner EXCEPT ![m] = t]
  /\ mutex_list' = [mutex_list EXCEPT ![t] = Append(@, m)]
  /\ UNCHANGED <<life, listVars, locking, fateVars, callVars>>

\* ... or it is not, and the thread blocks in p().
LockBlock(t, c, m) ==
  /\ Calls(t, c)
  /\ counter[m] = 0
  /\ Block(t, c, m)
  /\ locking' = [locking EXCEPT ![t] = m]
  /\ UNCHANGED <<life, ready_list, counter, owner, mutex_list, fateVars, dying>>

\* Mutex::unlock, called by its owner.
Unlock(t, c, m) ==
  /\ Calls(t, c)
  /\ owner[m] = t
  /\ mutex_list' = [mutex_list EXCEPT ![t] = RemoveFirst(@, m)]
  /\ owner' = [owner EXCEPT ![m] = NoThread]
  /\ Signal(m)
  /\ UNCHANGED <<life, locking, fateVars, callVars>>

-----------------------------------------------------------------------------
(* The end of a thread: exit, kill and the assassin                        *)

\* exit(), and Assassin::epilogue when the active thread is dying.
Exit(t, c) ==
  /\ Calls(t, c)
  /\ Destruct(t)
  /\ DispatchNext(c)
  /\ UNCHANGED <<life, listVars, lockVars, started, killed, ipi>>

\* A running thread calls kill(that), where that need not be alive any more.
CallsKill(that) ==
  /\ KernelFree
  /\ that \in started
  /\ \E c \in CPU : life[c] \in Thread

\* kill(): that was in the ready list.
KillReady(that) ==
  /\ CallsKill(that)
  /\ Contains(ready_list, that)
  /\ ready_list' = RemoveFirst(ready_list, that)
  /\ Destruct(that)
  /\ UNCHANGED <<life, customers, waitingroom, lockVars, started, killed, ipi, switching>>

\* A faulty form of KillWaiting: the waiting room is not told.
KillWaitingKept(that) ==
  /\ CallsKill(that)
  /\ ~ Contains(ready_list, that)
  /\ waitingroom[that] # NoRoom
  /\ Destruct(that)
  /\ UNCHANGED <<life, listVars, lockVars, started, killed, ipi, switching>>

\* kill(): that was in a waiting room, by its pointer, which stays as it is.
KillWaiting(that) ==
  /\ CallsKill(that)
  /\ ~ Contains(ready_list, that)
  /\ waitingroom[that] # NoRoom
  /\ customers' = [customers EXCEPT ![waitingroom[that]] = RemoveFirst(@, that)]
  /\ Destruct(that)
  /\ UNCHANGED <<life, ready_list, waitingroom, lockVars, started, killed, ipi, switching>>

\* kill(), otherwise: set_kill_flag(), and the CPU whose life[] is that is
\* looked for.
Marks(that) ==
  /\ CallsKill(that)
  /\ ~ Contains(ready_list, that)
  /\ waitingroom[that] = NoRoom
  /\ killed' = [killed EXCEPT ![that] = TRUE]

\* A faulty form of KillNowhere: a thread that is nowhere is ended all the same.
KillEndsNowhere(that) ==
  /\ Marks(that)
  /\ \A c \in CPU : life[c] # that
  /\ Destruct(that)
  /\ UNCHANGED <<life, listVars, lockVars, started, ipi, switching>>

\* kill(): no CPU is found, and nothing more is done.
KillNowhere(that) ==
  /\ Marks(that)
  /\ \A c \in CPU : life[c] # that
  /\ UNCHANGED <<life, listVars, lockVars, started, destroyed, ipi, callVars>>

\* kill(): the caller means itself.
KillSelf(that, c) ==
  /\ Marks(that)
  /\ life[c] = that
  /\ Destruct(that)
  /\ DispatchNext(c)
  /\ UNCHANGED <<life, listVars, lockVars, started, ipi>>

\* kill(): another CPU d gets the assassin's interrupt.
KillRemote(that, c, d) ==
  /\ Marks(that)
  /\ c # d /\ life[c] \in Thread /\ life[d] = that
  /\ ipi' = ipi \cup {d}
  /\ UNCHANGED <<life, listVars, lockVars, started, destroyed, callVars>>

\* Assassin::epilogue on c; the active thread need not be the one any more for
\* which the interrupt was sent.
Assassin(c) ==
  /\ KernelFree
  /\ c \in ipi
  /\ ipi' = ipi \ {c}
  /\ IF life[c] \in Thread /\ killed[life[c]]
     THEN Destruct(life[c]) /\ DispatchNext(c)
     ELSE UNCHANGED <<destroyed, dying, switching>>
  /\ UNCHANGED <<life, listVars, lockVars, started, killed>>

\* Guard::relay() on c finds the assassin's gate queued on another CPU (the
\* RelayMerge of Guard), and the request of c is dropped.
AssassinMerged(c) ==
  /\ c \in ipi
  /\ ipi # {c}
  /\ ipi' = ipi \ {c}
  /\ UNCHANGED <<life, listVars, lockVars, started, killed, destroyed, callVars>>

\* A faulty form of Release: the owner is left as it is.
ReleaseOwned ==
  /\ dying # NoThread /\ mutex_list[dying] # <<>>
  /\ mutex_list' = [mutex_list EXCEPT ![dying] = Tail(@)]
  /\ Signal(Head(mutex_list[dying]))
  /\ UNCHANGED <<life, owner, locking, fateVars, callVars>>

\* mutex_release_all(): m->unlock() for the first mutex left in the list.
Release ==
  /\ dying # NoThread /\ mutex_list[dying] # <<>>
  /\ LET m == Head(mutex_list[dying])
     IN /\ mutex_list' = [mutex_list EXCEPT ![dying] = Tail(@)]
        /\ owner' = [owner EXCEPT ![m] = NoThread]
        /\ Signal(m)
  /\ UNCHANGED <<life, locking, fateVars, callVars>>

\* mutex_release_all() is through, and ~Thread with it.
Destroyed ==
  /\ dying # NoThread /\ mutex_list[dying] = <<>>
  /\ dying' = NoThread
  /\ UNCHANGED <<life, listVars, lockVars, fateVars, switching>>

-----------------------------------------------------------------------------

Kill(that) ==
  \/ KillReady(that) \/ KillWaiting(that) \/ KillNowhere(that)
  \/ \E c \in CPU : KillSelf(that, c)
  \/ \E c, d \in CPU : KillRemote(that, c, d)

\* What the thread t on c asks the kernel for.
Syscall(t, c) ==
  \/ \E s \in Sem : WaitTake(t, c, s) \/ WaitBlock(t, c, s)
  \/ \E m \in Mutex : LockTake(t, c, m) \/ LockBlock(t, c, m) \/ Unlock(t, c, m)
  \/ Exit(t, c)

\* What the kernel call under way still has to do.
Finish ==
  \/ Release \/ Destroyed
  \/ \E c \in CPU : DispatchReady(c) \/ DispatchIdle(c)

Next ==
  \/ \E t \in Thread : Ready(t) \/ Kill(t)
  \/ \E t \in Thread, c \in CPU : Syscall(t, c)
  \/ \E c \in CPU : Schedule(c) \/ Resume(c) \/ Assassin(c) \/ AssassinMerged(c)
  \/ \E s \in Sem : Post(s)
  \/ Finish

Spec == Init /\ [][Next]_vars

\* Kernel calls end.  Each CPU calls schedule(), and then resume() time and
\* again, from the timer epilogue or the idle loop: the big kernel lock is FIFO
\* (FifoLock), so a CPU that asks for it gets it however often the others do.
\* Threads need not call anything, and nothing is assumed of the assassin.
Fairness ==
  /\ WF_vars(Finish)
  /\ \A c \in CPU : SF_vars(Schedule(c)) /\ SF_vars(Resume(c))

FairSpec == Spec /\ Fairness

-----------------------------------------------------------------------------

TypeOK ==
  /\ life \in [CPU -> Thread \cup {Idle, NoThread}]
  /\ ready_list \in Seq(Thread)
  /\ customers \in [Room -> Seq(Thread)]
  /\ counter \in [Room -> Nat] /\ \A m \in Mutex : counter[m] \in {0, 1}
  /\ owner \in [Mutex -> Thread \cup {NoThread}]
  /\ started \subseteq Thread
  /\ waitingroom \in [Thread -> Room \cup {NoRoom}]
  /\ killed \in [Thread -> BOOLEAN]
  /\ mutex_list \in [Thread -> Seq(Mutex)]
  /\ locking \in [Thread -> Mutex \cup {NoRoom}]
  /\ destroyed \in [Thread -> 0 .. 2]
  /\ ipi \subseteq CPU
  /\ dying \in Thread \cup {NoThread}
  /\ switching \in CPU \cup {NoCPU}

\* Where a thread can be.  A CPU that is in dispatch_next() has already given
\* its thread away.
IsReady(t) == Contains(ready_list, t)
WaitsIn(t, r) == Contains(customers[r], t)
RunsOn(t, c) == life[c] = t /\ switching # c

Waiting(t) == \E r \in Room : WaitsIn(t, r)
Running(t) == \E c \in CPU : RunsOn(t, c)
Alive(t) == t \in started /\ destroyed[t] = 0

\* A thread that has been started and not yet ended is in exactly one place: in
\* the ready list, in one waiting room, or on one CPU, and there once (it has
\* one queue_link and one stack).  A thread that has ended, whose stack has been
\* freed, is nowhere and can never run again, whichever way it was ended.  The
\* waitingroom of a living thread, which kill() and wakeup() trust, names the room
\* it is in, and none when it waits nowhere.
OneHome ==
  /\ TypeOK
  /\ IsInjective(ready_list)
  /\ \A r \in Room : IsInjective(customers[r])
  /\ \A t \in Thread :
       /\ Alive(t) <=> (IsReady(t) \/ Waiting(t) \/ Running(t))
       /\ ~ (IsReady(t) /\ Waiting(t)) /\ ~ (IsReady(t) /\ Running(t)) /\ ~ (Waiting(t) /\ Running(t))
       /\ \A r, q \in Room : WaitsIn(t, r) /\ WaitsIn(t, q) => r = q
       /\ \A c, d \in CPU : RunsOn(t, c) /\ RunsOn(t, d) => c = d
       /\ Alive(t) => /\ \A r \in Room : waitingroom[t] = r <=> WaitsIn(t, r)
                      /\ ~ Waiting(t) => waitingroom[t] = NoRoom

\* v() has taken the thread out of the waiting room of m, and lock() has not
\* yet made it the owner.
HandedOver(t, m) == IsReady(t) /\ locking[t] = m

\* A mutex has at most one thread, its owner or the one it is being handed to,
\* and its counter is 0 then; the owner has it in its mutex_list and nobody
\* else does; and a thread that has ended owns none, once ~Thread is through.
MutexAccounted ==
  \A m \in Mutex :
    /\ \A t, u \in Thread :
         (owner[m] = t \/ HandedOver(t, m)) /\ (owner[m] = u \/ HandedOver(u, m)) => t = u
    /\ \A t \in Thread :
         /\ owner[m] = t \/ HandedOver(t, m) => counter[m] = 0
         /\ owner[m] = t <=> Contains(mutex_list[t], m)
         /\ owner[m] = t => Alive(t) \/ dying = t

\* Nobody waits for what is there: a semaphore with customers has no units.
NoUnitWithWaiters == \A r \in Room : customers[r] # <<>> => counter[r] = 0

\* However exit(), kill(), resume() and the assassin come together, ~Thread runs
\* once for a thread: a thread that one of them has ended is nowhere that another
\* would find it.  The exception is a thread killed in a waiting room, whose
\* pointer to the room kill() finds again.
DestructedOnce == \A t \in Thread : destroyed[t] = 2 => waitingroom[t] # NoRoom

\* The scheduler is one in the sense of Threads, when a thread is in the state
\* that the place says where it is found; "undead" and "lost" are no states of
\* Threads.  So no step of kill(), exit() or the assassin, whatever comes between
\* them, lets an ended thread come back, loses a living one, or runs one that was
\* not ready.
StateOf(t) ==
  IF t \notin started THEN "new"
  ELSE IF destroyed[t] > 0
       THEN IF IsReady(t) \/ Waiting(t) \/ Running(t) THEN "undead" ELSE "ended"
  ELSE IF IsReady(t) THEN "ready"
  ELSE IF Waiting(t) THEN "waiting"
  ELSE IF Running(t) THEN "running"
  ELSE "lost"
Abstract == INSTANCE Threads WITH state <- [t \in Thread |-> StateOf(t)]
ImplementsThreads == Abstract!ThreadsSpec

\* A thread in the ready list gets a CPU, unless it is killed there.
ReadyRuns == \A t \in Thread : IsReady(t) ~> ~ IsReady(t)

\* A thread with the kill flag ends, or goes to wait for something.
KillTakesEffect == \A t \in Thread : killed[t] ~> destroyed[t] > 0 \/ Waiting(t)

\* scheduler.h:78, :83-86: kill() ends any other thread; if it is not found in
\* the ready list it is marked, to be ended in resume().
KillEnds == \A t \in Thread : killed[t] ~> destroyed[t] > 0

=============================================================================
