--------------------------- MODULE SchedulerProofs ---------------------------
(***************************************************************************)
(* The scheduler, for any CPUs, threads, semaphores and mutexes: a living  *)
(* thread is in one place, an ended one in none, ~Thread runs once, nobody *)
(* waits for a unit that is there, and mutexes are accounted for.          *)
(*                                                                         *)
(* None of this is inductive alone.  That a dispatched thread may become   *)
(* the owner of the mutex it waited for rests on nobody else having got it *)
(* meanwhile, which rests on the thread being in the ready list and        *)
(* nowhere else, which rests on the lists holding nothing twice.           *)
(*                                                                         *)
(* Each step takes at most one thread from one state of Threads to the     *)
(* next one, for finitely many CPUs.                                       *)
(***************************************************************************)
EXTENDS Scheduler, ListProofs

-----------------------------------------------------------------------------
(* The inductive invariant                                                 *)

\* What OneHome says of a single thread, and of the lists.
HomeOf(t) ==
  /\ Alive(t) <=> (IsReady(t) \/ Waiting(t) \/ Running(t))
  /\ ~ (IsReady(t) /\ Waiting(t)) /\ ~ (IsReady(t) /\ Running(t)) /\ ~ (Waiting(t) /\ Running(t))
  /\ \A r, q \in Room : WaitsIn(t, r) /\ WaitsIn(t, q) => r = q
  /\ \A c, d \in CPU : RunsOn(t, c) /\ RunsOn(t, d) => c = d
  /\ Alive(t) => /\ \A r \in Room : waitingroom[t] = r <=> WaitsIn(t, r)
                 /\ ~ Waiting(t) => waitingroom[t] = NoRoom

Unique ==
  /\ IsInjective(ready_list)
  /\ \A r \in Room : IsInjective(customers[r])
  /\ \A t \in Thread : IsInjective(mutex_list[t])

\* A thread that has not been started has no history, and the one whose mutexes are
\* being released has ended.
FateOf(t) ==
  /\ t \notin started => destroyed[t] = 0 /\ waitingroom[t] = NoRoom /\ locking[t] = NoRoom
  /\ dying = t => destroyed[t] > 0
  /\ destroyed[t] = 2 => waitingroom[t] # NoRoom

\* A thread is inside lock() while it waits for the mutex, and until it runs.
LockingOf(t) ==
  /\ \A r \in Room : WaitsIn(t, r) => locking[t] = IF r \in Mutex THEN r ELSE NoRoom
  /\ Running(t) => locking[t] = NoRoom

\* What MutexAccounted says of a single mutex, and that it has no owner while it is
\* handed over.
MutexOf(m) ==
  /\ \A t, u \in Thread :
       (owner[m] = t \/ HandedOver(t, m)) /\ (owner[m] = u \/ HandedOver(u, m)) => t = u
  /\ \A t \in Thread :
       /\ owner[m] = t \/ HandedOver(t, m) => counter[m] = 0
       /\ owner[m] = t <=> Contains(mutex_list[t], m)
       /\ owner[m] = t => Alive(t) \/ dying = t
       /\ HandedOver(t, m) => owner[m] = NoThread

IInv ==
  /\ TypeOK
  /\ Unique
  /\ \A t \in Thread : HomeOf(t) /\ FateOf(t) /\ LockingOf(t)
  /\ \A m \in Mutex : MutexOf(m)
  /\ NoUnitWithWaiters

-----------------------------------------------------------------------------
(* What the steps do to the places of threads                              *)

SamePlace(u) ==
  /\ IsReady(u)' <=> IsReady(u)
  /\ \A r \in Room : WaitsIn(u, r)' <=> WaitsIn(u, r)
  /\ \A c \in CPU : RunsOn(u, c)' <=> RunsOn(u, c)

\* The thread t goes where it is not yet, or is taken from where it was.
ReadyPlus(t) == \A u : IsReady(u)' <=> IsReady(u) \/ u = t
ReadyMinus(t) == \A u : IsReady(u)' <=> IsReady(u) /\ u # t
RoomPlus(t, r) == \A u : \A q \in Room : WaitsIn(u, q)' <=> WaitsIn(u, q) \/ (u = t /\ q = r)
RoomMinus(t, r) == \A u : \A q \in Room : WaitsIn(u, q)' <=> WaitsIn(u, q) /\ ~ (u = t /\ q = r)
SameRooms == \A u : \A q \in Room : WaitsIn(u, q)' <=> WaitsIn(u, q)
SameReady == \A u : IsReady(u)' <=> IsReady(u)
SameRunning == \A u \in Thread : \A d \in CPU : RunsOn(u, d)' <=> RunsOn(u, d)
LeavesCPU(c) == \A u \in Thread : \A d \in CPU : RunsOn(u, d)' <=> RunsOn(u, d) /\ d # c

\* The lists of threads hold nothing twice.
UniqueLists == IsInjective(ready_list) /\ \A r \in Room : IsInjective(customers[r])

\* ready_list.enqueue
LEMMA ReadyAppend ==
  ASSUME IInv, NEW t \in Thread, ~ IsReady(t), ready_list' = Append(ready_list, t)
  PROVE  ready_list' \in Seq(Thread) /\ IsInjective(ready_list') /\ ReadyPlus(t)
  BY InAppend, UniqueAppend DEF IInv, TypeOK, Unique, IsReady, ReadyPlus

\* ready_list.dequeue
LEMMA ReadyTail ==
  ASSUME IInv, ready_list # <<>>, ready_list' = Tail(ready_list)
  PROVE  /\ ready_list' \in Seq(Thread) /\ IsInjective(ready_list')
         /\ Head(ready_list) \in Thread /\ IsReady(Head(ready_list))
         /\ ReadyMinus(Head(ready_list))
  BY InTail DEF IInv, TypeOK, Unique, IsReady, ReadyMinus

\* ready_list.remove
LEMMA ReadyRemove ==
  ASSUME IInv, NEW t \in Thread, ready_list' = RemoveFirst(ready_list, t)
  PROVE  ready_list' \in Seq(Thread) /\ IsInjective(ready_list') /\ ReadyMinus(t)
  BY InRemoveFirst DEF IInv, TypeOK, Unique, IsReady, ReadyMinus

\* Waitingroom::enqueue
LEMMA RoomAppend ==
  ASSUME IInv, NEW t \in Thread, NEW r \in Room, ~ WaitsIn(t, r),
         customers' = [customers EXCEPT ![r] = Append(@, t)]
  PROVE  /\ customers' \in [Room -> Seq(Thread)] /\ \A q \in Room : IsInjective(customers'[q])
         /\ RoomPlus(t, r)
<1>1. customers[r] \in Seq(Thread) /\ IsInjective(customers[r]) /\ customers \in [Room -> Seq(Thread)]
  BY DEF IInv, TypeOK, Unique
<1>2. /\ customers'[r] \in Seq(Thread) /\ IsInjective(customers'[r])
      /\ \A u : Contains(customers'[r], u) <=> Contains(customers[r], u) \/ u = t
  BY <1>1, InAppend, UniqueAppend DEF WaitsIn
<1>3. \A q \in Room \ {r} : customers'[q] = customers[q]
  BY <1>1
<1>4. customers' \in [Room -> Seq(Thread)]
  BY <1>1, <1>2
<1>5. \A q \in Room : IsInjective(customers'[q])
  BY <1>2, <1>3 DEF IInv, Unique
<1>. QED  BY <1>2, <1>3, <1>4, <1>5 DEF RoomPlus, WaitsIn

\* Waitingroom::dequeue
LEMMA RoomTail ==
  ASSUME IInv, NEW r \in Room, customers[r] # <<>>,
         customers' = [customers EXCEPT ![r] = Tail(@)]
  PROVE  /\ customers' \in [Room -> Seq(Thread)] /\ \A q \in Room : IsInjective(customers'[q])
         /\ Head(customers[r]) \in Thread /\ WaitsIn(Head(customers[r]), r)
         /\ RoomMinus(Head(customers[r]), r)
<1>1. customers[r] \in Seq(Thread) /\ IsInjective(customers[r]) /\ customers \in [Room -> Seq(Thread)]
  BY DEF IInv, TypeOK, Unique
<1>2. /\ Head(customers[r]) \in Thread /\ Contains(customers[r], Head(customers[r]))
      /\ customers'[r] \in Seq(Thread) /\ IsInjective(customers'[r])
      /\ \A u : Contains(customers'[r], u) <=> Contains(customers[r], u) /\ u # Head(customers[r])
  BY <1>1, InTail
<1>3. \A q \in Room \ {r} : customers'[q] = customers[q]
  BY <1>1
<1>4. customers' \in [Room -> Seq(Thread)]
  BY <1>1, <1>2
<1>5. \A q \in Room : IsInjective(customers'[q])
  BY <1>2, <1>3 DEF IInv, Unique
<1>. QED  BY <1>2, <1>3, <1>4, <1>5 DEF RoomMinus, WaitsIn

\* Waitingroom::remove; a room in which nobody waited stays empty.
LEMMA RoomRemove ==
  ASSUME IInv, NEW t \in Thread, NEW r \in Room,
         customers' = [customers EXCEPT ![r] = RemoveFirst(@, t)]
  PROVE  /\ customers' \in [Room -> Seq(Thread)] /\ \A q \in Room : IsInjective(customers'[q])
         /\ RoomMinus(t, r)
         /\ \A q \in Room : customers[q] = <<>> => customers'[q] = <<>>
<1>1. customers[r] \in Seq(Thread) /\ IsInjective(customers[r]) /\ customers \in [Room -> Seq(Thread)]
  BY DEF IInv, TypeOK, Unique
<1>2. /\ customers'[r] \in Seq(Thread) /\ IsInjective(customers'[r])
      /\ \A u : Contains(customers'[r], u) <=> Contains(customers[r], u) /\ u # t
  BY <1>1, InRemoveFirst
<1>3. \A q \in Room \ {r} : customers'[q] = customers[q]
  BY <1>1
<1>4. customers' \in [Room -> Seq(Thread)]
  BY <1>1, <1>2
<1>5. \A q \in Room : IsInjective(customers'[q])
  BY <1>2, <1>3 DEF IInv, Unique
<1>6. customers[r] = <<>> => customers'[r] = <<>>
  BY <1>1 DEF RemoveFirst
<1>. QED  BY <1>2, <1>3, <1>4, <1>5, <1>6 DEF RoomMinus, WaitsIn

\* Lists that are left alone hold what they held.
LEMMA ReadySame ==
  ASSUME IInv, ready_list' = ready_list
  PROVE  ready_list' \in Seq(Thread) /\ IsInjective(ready_list') /\ SameReady
  BY DEF IInv, TypeOK, Unique, IsReady, SameReady
LEMMA RoomsSame ==
  ASSUME IInv, customers' = customers
  PROVE  /\ customers' \in [Room -> Seq(Thread)] /\ \A q \in Room : IsInjective(customers'[q])
         /\ SameRooms
  BY DEF IInv, TypeOK, Unique, WaitsIn, SameRooms

\* A CPU that begins dispatch_next() gives up its thread, which ran there only.
LEMMA GivesUp ==
  ASSUME IInv, KernelFree, NEW c \in CPU, DispatchNext(c), life' = life
  PROVE  /\ \A t \in Thread : life[c] = t <=> RunsOn(t, c)
         /\ LeavesCPU(c)
         /\ \A t \in Thread : life[c] = t => \A d \in CPU : ~ RunsOn(t, d)'
<1>1. NoCPU \notin CPU
  BY SchedulerAssumption
<1>2. \A t \in Thread : life[c] = t <=> RunsOn(t, c)
  BY <1>1 DEF KernelFree, RunsOn
<1>3. LeavesCPU(c)
  BY <1>1 DEF KernelFree, DispatchNext, RunsOn, LeavesCPU
<1>. QED  BY <1>2, <1>3 DEF LeavesCPU, IInv, HomeOf

LEMMA RunningSame ==
  ASSUME UNCHANGED <<life, switching>>
  PROVE  SameRunning
  BY DEF RunsOn, SameRunning

-----------------------------------------------------------------------------
(* Steps that leave threads where they are, and steps that end one         *)

\* A thread to which nothing happens stays well.
LEMMA StaysHome ==
  ASSUME NEW u \in Thread, HomeOf(u), SamePlace(u),
         (u \in started)' <=> (u \in started), destroyed'[u] = destroyed[u],
         waitingroom'[u] = waitingroom[u]
  PROVE  HomeOf(u)' /\ (Alive(u)' <=> Alive(u))
  BY DEF HomeOf, SamePlace, Alive, Waiting, Running

\* Threads stay where they are, whatever happens to flags and interrupts.
Quiet ==
  /\ UNCHANGED <<listVars, started, destroyed, mutex_list, owner, locking>>
  /\ SameRunning
  /\ dying' = dying

LEMMA QuietKeeps ==
  ASSUME IInv, Quiet, TypeOK',
         \A r \in Room : customers[r] # <<>> \/ r \in Mutex => counter'[r] = counter[r]
  PROVE  IInv'
<1>1. \A u \in Thread : SamePlace(u)
  BY ReadySame, RoomsSame DEF Quiet, listVars, SamePlace, SameRunning, SameReady, SameRooms
<1>2. Unique'
  BY DEF Quiet, listVars, Unique, IInv
<1>3. ASSUME NEW u \in Thread PROVE HomeOf(u)' /\ (Alive(u)' <=> Alive(u))
  BY <1>1, StaysHome DEF Quiet, listVars, IInv
<1>4. ASSUME NEW u \in Thread PROVE FateOf(u)' /\ LockingOf(u)'
  BY <1>1 DEF Quiet, listVars, IInv, FateOf, LockingOf, SamePlace, Running
<1>5. ASSUME NEW m \in Mutex PROVE MutexOf(m)'
  <2>1. \A u \in Thread : HandedOver(u, m)' <=> HandedOver(u, m)
    BY <1>1 DEF Quiet, HandedOver, SamePlace
  <2>2. m \in Room /\ counter'[m] = counter[m]
    BY DEF Room
  <2>. QED  BY <1>3, <2>1, <2>2 DEF Quiet, MutexOf, IInv
<1>6. NoUnitWithWaiters'
  BY DEF Quiet, listVars, IInv, NoUnitWithWaiters
<1>. QED  BY <1>2, <1>3, <1>4, <1>5, <1>6 DEF IInv

\* exit(), kill(), resume() or the assassin: the thread t leaves where it is.
Ends(t) ==
  /\ KernelFree /\ Destruct(t)
  /\ Alive(t) \/ (t \in started /\ waitingroom[t] # NoRoom)
  /\ ReadyMinus(t)
  /\ \A u \in Thread : \A r \in Room : WaitsIn(u, r)' <=> WaitsIn(u, r) /\ u # t
  /\ \A u \in Thread : \A c \in CPU : RunsOn(u, c)' <=> RunsOn(u, c) /\ u # t
  /\ UniqueLists'
  /\ \A r \in Room : customers[r] = <<>> => customers'[r] = <<>>
  /\ UNCHANGED <<waitingroom, started, lockVars>>

LEMMA EndsKeeps ==
  ASSUME IInv, NEW t \in Thread, Ends(t), TypeOK'
  PROVE  IInv'
<1>1. /\ destroyed' = [destroyed EXCEPT ![t] = IF @ = 0 THEN 1 ELSE 2]
      /\ dying = NoThread /\ dying' = t /\ NoThread \notin Thread
  BY SchedulerAssumption DEF Ends, Destruct, KernelFree
<1>2. destroyed \in [Thread -> 0 .. 2]
  BY DEF IInv, TypeOK
<1>3. Unique'
  BY DEF Ends, UniqueLists, lockVars, IInv, Unique
<1>4. ASSUME NEW u \in Thread PROVE HomeOf(u)' /\ (Alive(u)' <=> Alive(u) /\ u # t)
  <2>1. CASE u # t
    <3>1. SamePlace(u)
      BY <2>1 DEF Ends, ReadyMinus, SamePlace
    <3>. QED  BY <1>1, <1>2, <2>1, <3>1, StaysHome DEF Ends, IInv
  <2>2. CASE u = t
    <3>1. ~ Alive(t)'
      BY <1>1, <1>2 DEF Alive
    <3>2. ~ IsReady(t)' /\ ~ Waiting(t)' /\ ~ Running(t)'
      BY DEF Ends, ReadyMinus, Waiting, Running
    <3>. QED  BY <2>2, <3>1, <3>2 DEF HomeOf, Waiting, Running
  <2>. QED  BY <2>1, <2>2
<1>5. ASSUME NEW u \in Thread PROVE FateOf(u)'
  <2>1. CASE u # t
    BY <1>1, <1>2, <2>1 DEF Ends, lockVars, IInv, FateOf
  <2>2. CASE u = t
    BY <1>1, <1>2, <2>2 DEF Ends, lockVars, IInv, FateOf, Alive
  <2>. QED  BY <2>1, <2>2
<1>6. ASSUME NEW u \in Thread PROVE LockingOf(u)'
  BY DEF Ends, lockVars, IInv, LockingOf, Running
<1>7. ASSUME NEW m \in Mutex PROVE MutexOf(m)'
  <2>1. \A u \in Thread : HandedOver(u, m)' => HandedOver(u, m)
    BY DEF Ends, lockVars, HandedOver, ReadyMinus
  <2>. QED  BY <1>1, <1>4, <2>1 DEF Ends, lockVars, MutexOf, IInv
<1>8. NoUnitWithWaiters'
  BY DEF Ends, lockVars, IInv, NoUnitWithWaiters
<1>. QED  BY <1>3, <1>4, <1>5, <1>6, <1>7, <1>8 DEF IInv

-----------------------------------------------------------------------------
(* Steps that move one thread                                              *)

\* All but the thread t stay where they are.
LEMMA OthersStay ==
  ASSUME IInv, NEW t \in Thread, \A u \in Thread \ {t} : SamePlace(u),
         HomeOf(t)', Alive(t)' <=> Alive(t) \/ t \notin started,
         \A u \in Thread \ {t} : ((u \in started)' <=> (u \in started)) /\ waitingroom'[u] = waitingroom[u],
         destroyed' = destroyed
  PROVE  \A u \in Thread : HomeOf(u)' /\ (Alive(u)' <=> Alive(u) \/ (u = t /\ t \notin started))
<1>1. ASSUME NEW u \in Thread \ {t} PROVE HomeOf(u)' /\ (Alive(u)' <=> Alive(u))
  BY StaysHome DEF IInv
<1>. QED  BY <1>1

\* Guarded_Scheduler::ready
LEMMA ReadyKeeps ==
  ASSUME IInv, NEW t \in Thread, Ready(t), TypeOK'
  PROVE  IInv'
<1>1. HomeOf(t) /\ FateOf(t) /\ t \notin started
  BY DEF IInv, Ready
<1>2. ~ Alive(t) /\ ~ IsReady(t) /\ ~ Waiting(t) /\ ~ Running(t)
  BY <1>1 DEF HomeOf, Alive
<1>3. /\ IsInjective(ready_list') /\ ReadyPlus(t)
      /\ SameRooms /\ \A r \in Room : IsInjective(customers'[r])
      /\ SameRunning
  BY <1>2, ReadyAppend, RoomsSame, RunningSame DEF Ready, callVars
<1>4. Unique'
  BY <1>3 DEF Unique, Ready, lockVars, IInv
<1>5. \A u \in Thread \ {t} : SamePlace(u)
  BY <1>2, <1>3, RoomsSame DEF SamePlace, ReadyPlus, SameRooms, SameRunning, Ready
<1>6. HomeOf(t)' /\ Alive(t)'
  <2>1. Alive(t)' /\ waitingroom'[t] = NoRoom /\ NoRoom \notin Room
    BY <1>1, SchedulerAssumption DEF Alive, FateOf, Ready
  <2>2. IsReady(t)' /\ \A r \in Room : ~ WaitsIn(t, r)'
    BY <1>2, <1>3, RoomsSame DEF ReadyPlus, SameRooms, Waiting, Ready
  <2>3. \A c \in CPU : ~ RunsOn(t, c)'
    BY <1>2, <1>3 DEF SameRunning, Running
  <2>. QED  BY <2>1, <2>2, <2>3 DEF HomeOf, Waiting, Running
<1>7. \A u \in Thread : HomeOf(u)' /\ (Alive(u)' <=> Alive(u) \/ u = t)
  BY <1>1, <1>5, <1>6, OthersStay DEF Ready, lockVars
<1>8. ASSUME NEW u \in Thread PROVE FateOf(u)'
  BY DEF IInv, FateOf, Ready, lockVars, callVars
<1>9. ASSUME NEW u \in Thread PROVE LockingOf(u)'
  BY <1>3, RoomsSame DEF IInv, LockingOf, Ready, lockVars, Running, SameRooms, SameRunning
<1>10. ASSUME NEW m \in Mutex PROVE MutexOf(m)'
  <2>1. \A u \in Thread : HandedOver(u, m)' <=> HandedOver(u, m)
    BY <1>1, <1>3, SchedulerAssumption DEF FateOf, HandedOver, ReadyPlus, Ready, lockVars, Room
  <2>. QED  BY <1>7, <2>1 DEF MutexOf, IInv, Ready, lockVars, callVars
<1>11. NoUnitWithWaiters'
  BY DEF IInv, NoUnitWithWaiters, Ready, lockVars
<1>. QED  BY <1>4, <1>7, <1>8, <1>9, <1>10, <1>11 DEF IInv

\* dispatch_next(): the first ready thread runs, and is the owner of the mutex in
\* whose lock() it was.
LEMMA DispatchKeeps ==
  ASSUME IInv, NEW c \in CPU, DispatchReady(c), TypeOK'
  PROVE  IInv'
<1>. PICK t \in Thread : t = Head(ready_list)
  BY ReadyTail DEF DispatchReady
<1>1. IsReady(t) /\ IsInjective(ready_list') /\ ReadyMinus(t)
  BY ReadyTail DEF DispatchReady
<1>2. /\ life' = [life EXCEPT ![c] = t] /\ switching = c /\ switching' = NoCPU /\ NoCPU \notin CPU
      /\ dying = NoThread /\ dying' = NoThread /\ NoThread \notin Thread
      /\ UNCHANGED <<customers, waitingroom, counter, fateVars>> /\ Continue(t)
  BY SchedulerAssumption DEF DispatchReady
<1>3. life \in [CPU -> Thread \cup {Idle, NoThread}]
  BY DEF IInv, TypeOK
<1>4. \A u \in Thread : \A d \in CPU : RunsOn(u, d)' <=> RunsOn(u, d) \/ (u = t /\ d = c)
  BY <1>1, <1>2, <1>3 DEF RunsOn
<1>5. SameRooms /\ \A r \in Room : IsInjective(customers'[r])
  BY <1>2, RoomsSame
<1>6. HomeOf(t) /\ FateOf(t) /\ LockingOf(t) /\ Alive(t) /\ ~ Waiting(t) /\ ~ Running(t)
  BY <1>1 DEF IInv, HomeOf
<1>7. \A u \in Thread \ {t} : SamePlace(u)
  BY <1>1, <1>4, <1>5 DEF SamePlace, ReadyMinus, SameRooms
<1>8. HomeOf(t)' /\ Alive(t)'
  <2>1. Alive(t)' /\ waitingroom'[t] = waitingroom[t]
    BY <1>2, <1>6 DEF Alive, fateVars
  <2>2. ~ IsReady(t)' /\ ~ Waiting(t)' /\ \A d \in CPU : RunsOn(t, d)' <=> d = c
    BY <1>1, <1>4, <1>5, <1>6 DEF ReadyMinus, SameRooms, Waiting, Running
  <2>. QED  BY <1>6, <2>1, <2>2 DEF HomeOf, Waiting, Running
<1>9. \A u \in Thread : HomeOf(u)' /\ (Alive(u)' <=> Alive(u))
  BY <1>1, <1>2, <1>6, <1>7, <1>8, OthersStay DEF fateVars, Alive
<1>10. /\ locking' = [locking EXCEPT ![t] = NoRoom]
       /\ locking \in [Thread -> Mutex \cup {NoRoom}]
       /\ mutex_list \in [Thread -> Seq(Mutex)]
       /\ owner \in [Mutex -> Thread \cup {NoThread}]
       /\ NoRoom \notin Mutex
  BY <1>2, SchedulerAssumption DEF Continue, IInv, TypeOK, Room
<1>11. ASSUME NEW u \in Thread PROVE FateOf(u)'
  BY <1>2, <1>10 DEF IInv, FateOf, fateVars
<1>12. ASSUME NEW u \in Thread PROVE LockingOf(u)'
  <2>1. CASE u # t
    BY <1>4, <1>5, <1>10, <2>1 DEF IInv, LockingOf, SameRooms, Running
  <2>2. CASE u = t
    BY <1>5, <1>6, <1>10, <2>2 DEF LockingOf, SameRooms, Waiting
  <2>. QED  BY <2>1, <2>2
<1>13. Unique' /\ \A m \in Mutex : MutexOf(m)'
  <2>1. CASE locking[t] = NoRoom
    <3>1. owner' = owner /\ mutex_list' = mutex_list
      BY <1>2, <2>1 DEF Continue
    <3>2. ASSUME NEW m \in Mutex PROVE MutexOf(m)'
      <4>1. \A u \in Thread : HandedOver(u, m)' <=> HandedOver(u, m)
        BY <1>1, <1>10, <2>1 DEF HandedOver, ReadyMinus
      <4>. QED  BY <1>2, <1>9, <3>1, <4>1 DEF MutexOf, IInv
    <3>. QED  BY <1>1, <1>5, <3>1, <3>2 DEF Unique, IInv
  <2>2. CASE locking[t] # NoRoom
    <3>. PICK m \in Mutex : m = locking[t]
      BY <1>10, <2>2
    <3>1. /\ locking[t] = m /\ HandedOver(t, m)
          /\ owner' = [owner EXCEPT ![m] = t]
          /\ mutex_list' = [mutex_list EXCEPT ![t] = Append(@, m)]
      BY <1>1, <1>2, <1>10, <2>2 DEF Continue, HandedOver
    <3>2. MutexOf(m) /\ owner[m] = NoThread /\ counter[m] = 0 /\ ~ Contains(mutex_list[t], m)
      BY <1>1, <1>2, <3>1 DEF IInv, MutexOf
    <3>3. /\ IsInjective(mutex_list'[t])
          /\ \A k : Contains(mutex_list'[t], k) <=> Contains(mutex_list[t], k) \/ k = m
          /\ \A u \in Thread \ {t} : mutex_list'[u] = mutex_list[u]
      <4>1. mutex_list[t] \in Seq(Mutex) /\ IsInjective(mutex_list[t])
        BY <1>1, <1>10 DEF IInv, Unique
      <4>2. mutex_list'[t] = Append(mutex_list[t], m) /\ \A u \in Thread \ {t} : mutex_list'[u] = mutex_list[u]
        BY <1>1, <1>10, <3>1
      <4>. QED  BY <3>1, <3>2, <4>1, <4>2, InAppend, UniqueAppend
    <3>4. Unique'
      BY <1>1, <1>5, <3>3 DEF Unique, IInv
    <3>5. ASSUME NEW k \in Mutex PROVE MutexOf(k)'
      <4>1. \A u \in Thread : HandedOver(u, k)' <=> HandedOver(u, k) /\ u # t
        BY <1>1, <1>10 DEF HandedOver, ReadyMinus
      <4>2. CASE k # m
        <5>1. owner'[k] = owner[k] /\ ~ HandedOver(t, k)
          BY <1>1, <1>10, <3>1, <4>2 DEF HandedOver
        <5>2. \A u \in Thread : Contains(mutex_list'[u], k) <=> Contains(mutex_list[u], k)
          BY <3>3, <4>2
        <5>. QED  BY <1>2, <1>9, <4>1, <5>1, <5>2 DEF MutexOf, IInv
      <4>3. CASE k = m
        <5>1. owner'[k] = t
          BY <1>10, <3>1, <4>3
        <5>2. \A u \in Thread : Contains(mutex_list'[u], k) <=> u = t
          BY <1>2, <3>2, <3>3, <4>3 DEF MutexOf
        <5>3. \A u \in Thread : ~ HandedOver(u, k)'
          BY <1>1, <3>1, <3>2, <4>1, <4>3 DEF MutexOf
        <5>. QED  BY <1>1, <1>2, <1>8, <3>2, <4>3, <5>1, <5>2, <5>3 DEF MutexOf
      <4>. QED  BY <4>2, <4>3
    <3>. QED  BY <3>4, <3>5
  <2>. QED  BY <2>1, <2>2
<1>14. NoUnitWithWaiters'
  BY <1>2 DEF IInv, NoUnitWithWaiters
<1>. QED  BY <1>9, <1>11, <1>12, <1>13, <1>14 DEF IInv

\* resume(): the running thread goes to the end of the ready list.
LEMMA ResumeKeeps ==
  ASSUME IInv, NEW c \in CPU, ResumeQueue(c), TypeOK'
  PROVE  IInv'
<1>. PICK t \in Thread : t = life[c]
  BY DEF ResumeQueue
<1>1. /\ KernelFree /\ DispatchNext(c)
      /\ UNCHANGED <<life, customers, waitingroom, lockVars, fateVars, dying>>
      /\ ready_list' = Append(ready_list, t)
  BY DEF ResumeQueue
<1>2. RunsOn(t, c) /\ LeavesCPU(c) /\ \A d \in CPU : ~ RunsOn(t, d)'
  BY <1>1, GivesUp
<1>3. HomeOf(t) /\ LockingOf(t) /\ Alive(t) /\ ~ IsReady(t) /\ ~ Waiting(t) /\ Running(t)
  BY <1>2 DEF IInv, HomeOf, Running
<1>4. IsInjective(ready_list') /\ ReadyPlus(t) /\ SameRooms
  BY <1>1, <1>3, ReadyAppend, RoomsSame
<1>5. Unique'
  BY <1>1, <1>4 DEF Unique, IInv, lockVars
<1>6. \A u \in Thread \ {t} : SamePlace(u)
  <2>1. \A u \in Thread \ {t} : ~ RunsOn(u, c)
    BY <1>2 DEF RunsOn
  <2>. QED  BY <1>2, <1>4, <2>1 DEF SamePlace, ReadyPlus, SameRooms, LeavesCPU
<1>7. HomeOf(t)' /\ Alive(t)'
  BY <1>1, <1>2, <1>3, <1>4 DEF HomeOf, Alive, Waiting, Running, ReadyPlus, SameRooms, fateVars
<1>8. \A u \in Thread : HomeOf(u)' /\ (Alive(u)' <=> Alive(u))
  BY <1>1, <1>3, <1>6, <1>7, OthersStay DEF fateVars, Alive
<1>9. ASSUME NEW u \in Thread PROVE FateOf(u)'
  BY <1>1 DEF IInv, FateOf, fateVars, lockVars
<1>10. ASSUME NEW u \in Thread PROVE LockingOf(u)'
  BY <1>1, <1>2, <1>4 DEF IInv, LockingOf, SameRooms, LeavesCPU, Running, lockVars
<1>11. ASSUME NEW m \in Mutex PROVE MutexOf(m)'
  <2>1. \A u \in Thread : HandedOver(u, m)' <=> HandedOver(u, m)
    BY <1>1, <1>3, <1>4, SchedulerAssumption DEF LockingOf, HandedOver, ReadyPlus, lockVars, Room
  <2>. QED  BY <1>1, <1>8, <2>1 DEF MutexOf, IInv, lockVars
<1>12. NoUnitWithWaiters'
  BY <1>1 DEF IInv, NoUnitWithWaiters, lockVars
<1>. QED  BY <1>5, <1>8, <1>9, <1>10, <1>11, <1>12 DEF IInv

\* block(), from p() or from lock(): the running thread goes into a room without
\* units.
LEMMA BlockKeeps ==
  ASSUME IInv, NEW t \in Thread, NEW c \in CPU, NEW r \in Room, Calls(t, c), Block(t, c, r),
         counter[r] = 0, locking' = [locking EXCEPT ![t] = IF r \in Mutex THEN r ELSE NoRoom],
         UNCHANGED <<life, ready_list, counter, owner, mutex_list, fateVars, dying>>, TypeOK'
  PROVE  IInv'
<1>1. /\ KernelFree /\ DispatchNext(c) /\ life[c] = t
      /\ customers' = [customers EXCEPT ![r] = Append(@, t)]
      /\ waitingroom' = [waitingroom EXCEPT ![t] = r]
      /\ waitingroom \in [Thread -> Room \cup {NoRoom}]
      /\ locking \in [Thread -> Mutex \cup {NoRoom}]
      /\ NoRoom \notin Room
  BY SchedulerAssumption DEF Calls, Block, IInv, TypeOK
<1>2. RunsOn(t, c) /\ LeavesCPU(c) /\ \A d \in CPU : ~ RunsOn(t, d)'
  BY <1>1, GivesUp
<1>3. HomeOf(t) /\ LockingOf(t) /\ Alive(t) /\ ~ IsReady(t) /\ ~ Waiting(t) /\ Running(t)
  BY <1>2 DEF IInv, HomeOf, Running
<1>4. (\A q \in Room : IsInjective(customers'[q])) /\ RoomPlus(t, r) /\ SameReady
  BY <1>1, <1>3, RoomAppend, ReadySame DEF Waiting
<1>5. Unique'
  BY <1>4 DEF Unique, IInv
<1>6. \A u \in Thread \ {t} : SamePlace(u)
  <2>1. \A u \in Thread \ {t} : ~ RunsOn(u, c)
    BY <1>2 DEF RunsOn
  <2>. QED  BY <1>2, <1>4, <2>1 DEF SamePlace, RoomPlus, SameReady, LeavesCPU
<1>7. HomeOf(t)' /\ Alive(t)'
  <2>1. Alive(t)' /\ waitingroom'[t] = r
    BY <1>1, <1>3 DEF Alive, fateVars
  <2>2. ~ IsReady(t)' /\ (\A q \in Room : WaitsIn(t, q)' <=> q = r) /\ \A d \in CPU : ~ RunsOn(t, d)'
    BY <1>2, <1>3, <1>4 DEF SameReady, RoomPlus, Waiting
  <2>. QED  BY <2>1, <2>2 DEF HomeOf, Waiting, Running
<1>8. \A u \in Thread : HomeOf(u)' /\ (Alive(u)' <=> Alive(u))
  BY <1>1, <1>3, <1>6, <1>7, OthersStay DEF fateVars, Alive
<1>9. ASSUME NEW u \in Thread PROVE FateOf(u)'
  BY <1>1, <1>3 DEF IInv, FateOf, fateVars, Alive
<1>10. ASSUME NEW u \in Thread PROVE LockingOf(u)'
  <2>1. CASE u # t
    BY <1>1, <1>2, <1>4, <2>1 DEF IInv, LockingOf, RoomPlus, LeavesCPU, Running
  <2>2. CASE u = t
    <3>1. ~ Running(t)' /\ \A q \in Room : WaitsIn(t, q)' => q = r
      BY <1>2, <1>3, <1>4 DEF RoomPlus, Waiting, Running
    <3>. QED  BY <1>1, <2>2, <3>1 DEF LockingOf
  <2>. QED  BY <2>1, <2>2
<1>11. ASSUME NEW m \in Mutex PROVE MutexOf(m)'
  <2>1. \A u \in Thread : HandedOver(u, m)' <=> HandedOver(u, m)
    BY <1>1, <1>3, <1>4 DEF HandedOver, SameReady
  <2>. QED  BY <1>8, <2>1 DEF MutexOf, IInv
<1>12. NoUnitWithWaiters'
  BY <1>1 DEF IInv, NoUnitWithWaiters
<1>. QED  BY <1>5, <1>8, <1>9, <1>10, <1>11, <1>12 DEF IInv

\* v() with somebody waiting: that thread goes from the room to the ready list.
LEMMA SignalHomes ==
  ASSUME IInv, NEW r \in Room, SignalFirst(r), NEW t \in Thread, t = Head(customers[r]),
         UNCHANGED <<life, started, destroyed, switching, dying, locking>>
  PROVE  /\ UniqueLists'
         /\ \A u \in Thread : /\ HomeOf(u)' /\ (Alive(u)' <=> Alive(u))
                              /\ FateOf(u)' /\ LockingOf(u)'
         /\ WaitsIn(t, r) /\ ReadyPlus(t)
         /\ \A u \in Thread \ {t} : SamePlace(u)
         /\ \A q \in Room : customers[q] = <<>> => customers'[q] = <<>>
<1>1. /\ customers[r] # <<>>
      /\ customers' = [customers EXCEPT ![r] = Tail(@)]
      /\ waitingroom' = [waitingroom EXCEPT ![t] = NoRoom]
      /\ ready_list' = Append(ready_list, t)
      /\ waitingroom \in [Thread -> Room \cup {NoRoom}]
      /\ customers \in [Room -> Seq(Thread)]
      /\ NoRoom \notin Room
  BY SchedulerAssumption DEF SignalFirst, IInv, TypeOK
<1>2. WaitsIn(t, r) /\ RoomMinus(t, r) /\ \A q \in Room : IsInjective(customers'[q])
  BY <1>1, RoomTail
<1>3. HomeOf(t) /\ Alive(t) /\ ~ IsReady(t) /\ Waiting(t) /\ ~ Running(t)
  BY <1>2 DEF IInv, HomeOf, Waiting
<1>4. IsInjective(ready_list') /\ ReadyPlus(t) /\ SameRunning
  BY <1>1, <1>3, ReadyAppend, RunningSame
<1>5. \A u \in Thread \ {t} : SamePlace(u)
  BY <1>2, <1>4 DEF SamePlace, RoomMinus, ReadyPlus, SameRunning
<1>6. IsReady(t)' /\ (\A q \in Room : ~ WaitsIn(t, q)') /\ \A d \in CPU : ~ RunsOn(t, d)'
  BY <1>2, <1>3, <1>4 DEF HomeOf, RoomMinus, ReadyPlus, SameRunning, Running
<1>7. HomeOf(t)' /\ Alive(t)'
  <2>1. Alive(t)' /\ waitingroom'[t] = NoRoom
    BY <1>1, <1>3 DEF Alive
  <2>. QED  BY <1>1, <1>6, <2>1 DEF HomeOf, Waiting, Running
<1>8. \A u \in Thread : HomeOf(u)' /\ (Alive(u)' <=> Alive(u))
  BY <1>1, <1>3, <1>5, <1>7, OthersStay DEF Alive
<1>9. ASSUME NEW u \in Thread PROVE FateOf(u)'
  BY <1>1, <1>3 DEF IInv, FateOf, Alive
<1>10. ASSUME NEW u \in Thread PROVE LockingOf(u)'
  BY <1>2, <1>4 DEF IInv, LockingOf, RoomMinus, SameRunning, Running
<1>11. \A q \in Room : customers[q] = <<>> => customers'[q] = <<>>
  BY <1>1
<1>. QED  BY <1>2, <1>4, <1>5, <1>8, <1>9, <1>10, <1>11 DEF UniqueLists

\* v() on a plain semaphore.  A thread that is woken was in no lock().
LEMMA PostKeeps ==
  ASSUME IInv, NEW s \in Sem, Post(s), TypeOK'
  PROVE  IInv'
<1>1. s \in Room /\ s \notin Mutex /\ NoRoom \notin Mutex
  BY SchedulerAssumption DEF Room
<1>2. CASE SignalFirst(s)
  <2>. PICK t \in Thread : t = Head(customers[s])
    BY <1>1, <1>2, RoomTail DEF SignalFirst
  <2>1. /\ UniqueLists'
        /\ \A u \in Thread : /\ HomeOf(u)' /\ (Alive(u)' <=> Alive(u))
                             /\ FateOf(u)' /\ LockingOf(u)'
        /\ WaitsIn(t, s) /\ ReadyPlus(t)
        /\ \A q \in Room : customers[q] = <<>> => customers'[q] = <<>>
    BY <1>1, <1>2, SignalHomes DEF Post, fateVars, callVars
  <2>2. locking[t] = NoRoom
    BY <1>1, <2>1 DEF IInv, LockingOf
  <2>3. ASSUME NEW m \in Mutex PROVE MutexOf(m)'
    <3>1. \A u \in Thread : HandedOver(u, m)' <=> HandedOver(u, m)
      BY <1>1, <2>1, <2>2 DEF Post, HandedOver, ReadyPlus
    <3>. QED  BY <1>2, <2>1, <3>1 DEF MutexOf, IInv, Post, SignalFirst, callVars
  <2>4. Unique' /\ NoUnitWithWaiters'
    BY <1>2, <2>1 DEF UniqueLists, Unique, IInv, NoUnitWithWaiters, Post, SignalFirst
  <2>. QED  BY <2>1, <2>3, <2>4 DEF IInv
<1>3. CASE SignalNobody(s)
  <2>1. Quiet
    BY <1>3, RunningSame DEF Quiet, Post, SignalNobody, fateVars, callVars
  <2>2. \A r \in Room : customers[r] # <<>> \/ r \in Mutex => counter'[r] = counter[r]
    BY <1>1, <1>3 DEF SignalNobody, IInv, TypeOK
  <2>. QED  BY <2>1, <2>2, QuietKeeps
<1>. QED  BY <1>2, <1>3 DEF Post, Signal

-----------------------------------------------------------------------------
(* Mutexes                                                                 *)

\* lock() of a mutex that is free: it has no owner and nobody is handed it.
LEMMA LockKeeps ==
  ASSUME IInv, NEW t \in Thread, NEW c \in CPU, NEW m \in Mutex, LockTake(t, c, m), TypeOK'
  PROVE  IInv'
<1>1. /\ KernelFree /\ life[c] = t /\ counter[m] > 0 /\ m \in Room /\ NoThread \notin Thread
      /\ counter' = [counter EXCEPT ![m] = @ - 1]
      /\ owner' = [owner EXCEPT ![m] = t]
      /\ mutex_list' = [mutex_list EXCEPT ![t] = Append(@, m)]
      /\ UNCHANGED <<life, listVars, locking, fateVars, callVars>>
  BY SchedulerAssumption DEF LockTake, Calls, Room
<1>2. /\ counter \in [Room -> Nat] /\ counter[m] \in {0, 1}
      /\ owner \in [Mutex -> Thread \cup {NoThread}]
      /\ mutex_list \in [Thread -> Seq(Mutex)] /\ IsInjective(mutex_list[t])
  BY DEF IInv, TypeOK, Unique
<1>3. MutexOf(m) /\ counter[m] = 1 /\ counter'[m] = 0
  BY <1>1, <1>2 DEF IInv
<1>4. \A u \in Thread : owner[m] # u /\ ~ HandedOver(u, m) /\ ~ Contains(mutex_list[u], m)
  BY <1>3 DEF MutexOf
<1>5. RunsOn(t, c) /\ Alive(t)
  <2>1. RunsOn(t, c)
    BY <1>1, SchedulerAssumption DEF KernelFree, RunsOn
  <2>. QED  BY <2>1 DEF IInv, HomeOf, Running
<1>6. /\ IsInjective(mutex_list'[t])
      /\ \A k : Contains(mutex_list'[t], k) <=> Contains(mutex_list[t], k) \/ k = m
      /\ \A u \in Thread \ {t} : mutex_list'[u] = mutex_list[u]
  <2>1. mutex_list'[t] = Append(mutex_list[t], m) /\ \A u \in Thread \ {t} : mutex_list'[u] = mutex_list[u]
    BY <1>1, <1>2
  <2>. QED  BY <1>2, <1>4, <2>1, InAppend, UniqueAppend
<1>7. Unique'
  BY <1>1, <1>6 DEF Unique, IInv, listVars
<1>8. \A u \in Thread : SamePlace(u)
  BY <1>1 DEF SamePlace, IsReady, WaitsIn, RunsOn, listVars, callVars
<1>9. ASSUME NEW u \in Thread PROVE HomeOf(u)' /\ (Alive(u)' <=> Alive(u))
  BY <1>1, <1>8, StaysHome DEF IInv, listVars, fateVars
<1>10. ASSUME NEW u \in Thread PROVE FateOf(u)' /\ LockingOf(u)'
  BY <1>1, <1>8 DEF IInv, FateOf, LockingOf, SamePlace, Running, listVars, fateVars, callVars
<1>11. ASSUME NEW k \in Mutex PROVE MutexOf(k)'
  <2>1. \A u \in Thread : HandedOver(u, k)' <=> HandedOver(u, k)
    BY <1>1, <1>8 DEF HandedOver, SamePlace
  <2>2. CASE k # m
    <3>1. k \in Room /\ owner'[k] = owner[k] /\ counter'[k] = counter[k]
      BY <1>1, <1>2, <2>2 DEF Room
    <3>2. \A u \in Thread : Contains(mutex_list'[u], k) <=> Contains(mutex_list[u], k)
      BY <1>6, <2>2
    <3>. QED  BY <1>1, <1>9, <2>1, <3>1, <3>2 DEF MutexOf, IInv, callVars
  <2>3. CASE k = m
    <3>1. owner'[m] = t
      BY <1>1, <1>2
    <3>2. \A u \in Thread : Contains(mutex_list'[u], m) <=> u = t
      BY <1>4, <1>6
    <3>. QED  BY <1>3, <1>4, <1>5, <1>9, <2>1, <2>3, <3>1, <3>2 DEF MutexOf
  <2>. QED  BY <2>2, <2>3
<1>12. NoUnitWithWaiters'
  BY <1>1, <1>2 DEF IInv, NoUnitWithWaiters, listVars
<1>. QED  BY <1>7, <1>9, <1>10, <1>11, <1>12 DEF IInv

\* unlock(), by the owner or at its end: the mutex is handed to the first that waits
\* for it, or is free.
LEMMA GivesBack ==
  ASSUME IInv, NEW t \in Thread, NEW m \in Mutex, owner[m] = t, ~ IsReady(t), NEW rest,
         IsInjective(rest), \A k : Contains(rest, k) <=> Contains(mutex_list[t], k) /\ k # m,
         mutex_list' = [mutex_list EXCEPT ![t] = rest],
         owner' = [owner EXCEPT ![m] = NoThread], Signal(m),
         UNCHANGED <<life, locking, fateVars, callVars>>, TypeOK'
  PROVE  IInv'
<1>1. /\ m \in Room /\ NoThread \notin Thread /\ NoRoom \notin Mutex
      /\ counter \in [Room -> Nat]
      /\ owner \in [Mutex -> Thread \cup {NoThread}]
      /\ mutex_list \in [Thread -> Seq(Mutex)]
  BY SchedulerAssumption DEF IInv, TypeOK, Room
<1>2. MutexOf(m) /\ counter[m] = 0 /\ \A u \in Thread : ~ HandedOver(u, m)
  BY <1>1 DEF IInv, MutexOf
<1>3. /\ mutex_list'[t] = rest /\ \A u \in Thread \ {t} : mutex_list'[u] = mutex_list[u]
      /\ owner'[m] = NoThread /\ \A k \in Mutex \ {m} : owner'[k] = owner[k]
  BY <1>1
<1>4. \A k \in Mutex, u \in Thread : owner'[k] = u <=> Contains(mutex_list'[u], k)
  <2>1. \A k \in Mutex, u \in Thread : owner[k] = u <=> Contains(mutex_list[u], k)
    BY DEF IInv, MutexOf
  <2>. QED  BY <1>1, <1>3, <2>1
<1>5. CASE SignalFirst(m)
  <2>. PICK h \in Thread : h = Head(customers[m])
    BY <1>1, <1>5, RoomTail DEF SignalFirst
  <2>1. /\ UniqueLists'
        /\ \A u \in Thread : /\ HomeOf(u)' /\ (Alive(u)' <=> Alive(u))
                             /\ FateOf(u)' /\ LockingOf(u)'
        /\ WaitsIn(h, m) /\ ReadyPlus(h)
        /\ \A q \in Room : customers[q] = <<>> => customers'[q] = <<>>
    BY <1>1, <1>5, SignalHomes DEF fateVars, callVars
  <2>2. locking[h] = m /\ locking' = locking /\ counter' = counter /\ dying' = dying
    BY <1>1, <1>5, <2>1 DEF IInv, LockingOf, SignalFirst, callVars
  <2>3. \A k \in Mutex, u \in Thread : HandedOver(u, k)' <=> HandedOver(u, k) \/ (u = h /\ k = m)
    BY <2>1, <2>2 DEF HandedOver, ReadyPlus
  <2>4. ASSUME NEW k \in Mutex PROVE MutexOf(k)'
    <3>1. CASE k # m
      BY <1>3, <1>4, <2>1, <2>2, <2>3, <3>1 DEF MutexOf, IInv
    <3>2. CASE k = m
      BY <1>1, <1>2, <1>3, <1>4, <2>2, <2>3, <3>2 DEF MutexOf
    <3>. QED  BY <3>1, <3>2
  <2>5. Unique' /\ NoUnitWithWaiters'
    BY <1>3, <2>1, <2>2 DEF UniqueLists, Unique, IInv, NoUnitWithWaiters
  <2>. QED  BY <2>1, <2>4, <2>5 DEF IInv
<1>6. CASE SignalNobody(m)
  <2>1. /\ counter' = [counter EXCEPT ![m] = @ + 1] /\ customers[m] = <<>>
        /\ UNCHANGED <<listVars, life, locking, fateVars, callVars>>
    BY <1>6 DEF SignalNobody
  <2>2. \A u \in Thread : SamePlace(u)
    BY <2>1 DEF SamePlace, IsReady, WaitsIn, RunsOn, listVars, callVars
  <2>3. ASSUME NEW u \in Thread PROVE HomeOf(u)' /\ (Alive(u)' <=> Alive(u))
    BY <2>1, <2>2, StaysHome DEF IInv, listVars, fateVars
  <2>4. ASSUME NEW u \in Thread PROVE FateOf(u)' /\ LockingOf(u)'
    BY <2>1, <2>2 DEF IInv, FateOf, LockingOf, SamePlace, Running, listVars, fateVars, callVars
  <2>5. ASSUME NEW k \in Mutex PROVE MutexOf(k)'
    <3>1. \A u \in Thread : HandedOver(u, k)' <=> HandedOver(u, k)
      BY <2>1, <2>2 DEF HandedOver, SamePlace
    <3>2. CASE k # m
      <4>1. k \in Room /\ counter'[k] = counter[k]
        BY <1>1, <2>1, <3>2 DEF Room
      <4>. QED  BY <1>3, <1>4, <2>1, <2>3, <3>1, <3>2, <4>1 DEF MutexOf, IInv, callVars
    <3>3. CASE k = m
      BY <1>1, <1>2, <1>3, <1>4, <3>1, <3>3 DEF MutexOf
    <3>. QED  BY <3>2, <3>3
  <2>6. Unique'
    BY <1>3, <2>1 DEF Unique, IInv, listVars
  <2>7. NoUnitWithWaiters'
    BY <1>1, <2>1 DEF IInv, NoUnitWithWaiters, listVars
  <2>. QED  BY <2>3, <2>4, <2>5, <2>6, <2>7 DEF IInv
<1>. QED  BY <1>5, <1>6 DEF Signal

\* unlock() by the owner, which runs.
LEMMA UnlockKeeps ==
  ASSUME IInv, NEW t \in Thread, NEW c \in CPU, NEW m \in Mutex, Unlock(t, c, m), TypeOK'
  PROVE  IInv'
<1>1. ~ IsReady(t)
  BY SchedulerAssumption DEF Unlock, Calls, KernelFree, IInv, HomeOf, RunsOn, Running
<1>2. mutex_list[t] \in Seq(Mutex) /\ IsInjective(mutex_list[t])
  BY DEF IInv, TypeOK, Unique
<1>3. /\ IsInjective(RemoveFirst(mutex_list[t], m))
      /\ \A k : Contains(RemoveFirst(mutex_list[t], m), k) <=> Contains(mutex_list[t], k) /\ k # m
  BY <1>2, InRemoveFirst
<1>4. mutex_list' = [mutex_list EXCEPT ![t] = RemoveFirst(mutex_list[t], m)]
  BY DEF Unlock
<1>. QED  BY <1>1, <1>3, <1>4, GivesBack DEF Unlock

\* mutex_release_all() for a thread that has ended.
LEMMA ReleaseKeeps ==
  ASSUME IInv, Release, TypeOK'
  PROVE  IInv'
<1>. PICK t \in Thread : dying = t
  BY DEF IInv, TypeOK, Release
<1>1. ~ IsReady(t)
  BY DEF IInv, HomeOf, FateOf, Alive
<1>2. mutex_list[t] \in Seq(Mutex) /\ IsInjective(mutex_list[t]) /\ mutex_list[t] # <<>>
  BY DEF IInv, TypeOK, Unique, Release
<1>. PICK m \in Mutex : m = Head(mutex_list[t])
  BY <1>2
<1>3. /\ IsInjective(Tail(mutex_list[t])) /\ Contains(mutex_list[t], m)
      /\ \A k : Contains(Tail(mutex_list[t]), k) <=> Contains(mutex_list[t], k) /\ k # m
  BY <1>2, InTail
<1>4. owner[m] = t
  BY <1>3 DEF IInv, MutexOf
<1>5. mutex_list' = [mutex_list EXCEPT ![t] = Tail(mutex_list[t])]
  BY DEF Release
<1>. QED  BY <1>1, <1>3, <1>4, <1>5, GivesBack DEF Release

\* mutex_release_all() is through: the thread is the owner of none.
LEMMA DestroyedKeeps ==
  ASSUME IInv, Destroyed, TypeOK'
  PROVE  IInv'
<1>. PICK t \in Thread : dying = t
  BY DEF IInv, TypeOK, Destroyed
<1>1. /\ dying' = NoThread /\ NoThread \notin Thread /\ mutex_list[t] = <<>>
      /\ UNCHANGED <<life, listVars, lockVars, fateVars, switching>>
  BY SchedulerAssumption DEF Destroyed
<1>2. \A m \in Mutex : owner[m] # t
  BY <1>1, InEmpty DEF IInv, MutexOf
<1>3. \A u \in Thread : SamePlace(u)
  BY <1>1 DEF SamePlace, IsReady, WaitsIn, RunsOn, listVars
<1>4. ASSUME NEW u \in Thread PROVE HomeOf(u)' /\ (Alive(u)' <=> Alive(u))
  BY <1>1, <1>3, StaysHome DEF IInv, listVars, fateVars
<1>5. ASSUME NEW u \in Thread PROVE FateOf(u)' /\ LockingOf(u)'
  BY <1>1, <1>3 DEF IInv, FateOf, LockingOf, SamePlace, Running, listVars, lockVars, fateVars
<1>6. ASSUME NEW m \in Mutex PROVE MutexOf(m)'
  <2>1. \A u \in Thread : HandedOver(u, m)' <=> HandedOver(u, m)
    BY <1>1, <1>3 DEF HandedOver, SamePlace, lockVars
  <2>. QED  BY <1>1, <1>2, <1>4, <2>1 DEF MutexOf, IInv, lockVars
<1>7. Unique' /\ NoUnitWithWaiters'
  BY <1>1 DEF IInv, Unique, NoUnitWithWaiters, listVars, lockVars
<1>. QED  BY <1>4, <1>5, <1>6, <1>7 DEF IInv

-----------------------------------------------------------------------------
(* Types                                                                   *)

\* v() leaves lists of threads, and does not raise the counter of a mutex that
\* somebody has above one.
LEMMA SignalTypes ==
  ASSUME IInv, NEW r \in Room, Signal(r), r \in Mutex => counter[r] = 0
  PROVE  /\ ready_list' \in Seq(Thread) /\ customers' \in [Room -> Seq(Thread)]
         /\ counter' \in [Room -> Nat] /\ \A m \in Mutex : counter'[m] \in {0, 1}
         /\ waitingroom' \in [Thread -> Room \cup {NoRoom}]
<1>1. CASE SignalFirst(r)
  <2>1. /\ Head(customers[r]) \in Thread /\ WaitsIn(Head(customers[r]), r)
        /\ customers' \in [Room -> Seq(Thread)]
    BY <1>1, RoomTail DEF SignalFirst
  <2>2. ~ IsReady(Head(customers[r]))
    BY <2>1 DEF IInv, HomeOf, Waiting
  <2>3. ready_list' \in Seq(Thread)
    BY <1>1, <2>1, <2>2, ReadyAppend DEF SignalFirst
  <2>. QED  BY <1>1, <2>1, <2>3 DEF SignalFirst, IInv, TypeOK
<1>2. CASE SignalNobody(r)
  BY <1>2 DEF SignalNobody, listVars, IInv, TypeOK, Room
<1>. QED  BY <1>1, <1>2 DEF Signal

\* The steps that begin or end with a call of one thread.
LEMMA TypeCalls ==
  ASSUME IInv, NEW t \in Thread, NEW c \in CPU, Syscall(t, c)
  PROVE  TypeOK'
<1> USE DEF IInv, TypeOK, listVars, lockVars, fateVars, callVars
<1>1. ASSUME NEW s \in Sem, WaitTake(t, c, s) PROVE TypeOK'
  <2>1. s \in Room /\ s \notin Mutex
    BY SchedulerAssumption DEF Room
  <2>. QED  BY <1>1, <2>1 DEF WaitTake
<1>2. ASSUME NEW s \in Sem, WaitBlock(t, c, s) PROVE TypeOK'
  BY <1>2 DEF WaitBlock, Block, DispatchNext, Room
<1>3. ASSUME NEW m \in Mutex, LockTake(t, c, m) PROVE TypeOK'
  BY <1>3 DEF LockTake, Room
<1>4. ASSUME NEW m \in Mutex, LockBlock(t, c, m) PROVE TypeOK'
  BY <1>4 DEF LockBlock, Block, DispatchNext, Room
<1>5. ASSUME NEW m \in Mutex, Unlock(t, c, m) PROVE TypeOK'
  <2>1. m \in Room /\ counter[m] = 0
    BY <1>5 DEF Room, Unlock, MutexOf
  <2>2. RemoveFirst(mutex_list[t], m) \in Seq(Mutex)
    BY InRemoveFirst DEF Unique
  <2>. QED  BY <1>5, <2>1, <2>2, SignalTypes DEF Unlock
<1>6. CASE Exit(t, c)
  BY <1>6 DEF Exit, Destruct, DispatchNext
<1>. QED  BY <1>1, <1>2, <1>3, <1>4, <1>5, <1>6 DEF Syscall

LEMMA TypeKill ==
  ASSUME IInv, NEW t \in Thread, Kill(t)
  PROVE  TypeOK'
<1> USE DEF IInv, TypeOK, listVars, lockVars, fateVars, callVars, Destruct
<1>1. CASE KillReady(t)
  BY <1>1, ReadyRemove DEF KillReady
<1>2. CASE KillWaiting(t)
  <2>1. waitingroom[t] \in Room
    BY <1>2 DEF KillWaiting
  <2>2. customers' \in [Room -> Seq(Thread)]
    BY <1>2, <2>1, RoomRemove DEF KillWaiting
  <2>. QED  BY <1>2, <2>2 DEF KillWaiting
<1>3. CASE KillNowhere(t)
  BY <1>3 DEF KillNowhere, Marks
<1>4. ASSUME NEW c \in CPU, KillSelf(t, c) PROVE TypeOK'
  BY <1>4 DEF KillSelf, Marks, DispatchNext
<1>5. ASSUME NEW c \in CPU, NEW d \in CPU, KillRemote(t, c, d) PROVE TypeOK'
  BY <1>5 DEF KillRemote, Marks
<1>. QED  BY <1>1, <1>2, <1>3, <1>4, <1>5 DEF Kill

LEMMA TypeCPU ==
  ASSUME IInv, NEW c \in CPU,
         Schedule(c) \/ Resume(c) \/ Assassin(c) \/ AssassinMerged(c) \/ DispatchReady(c) \/ DispatchIdle(c)
  PROVE  TypeOK'
<1> USE DEF IInv, TypeOK, listVars, lockVars, fateVars, callVars, Destruct, DispatchNext
<1>1. CASE Schedule(c)
  BY <1>1 DEF Schedule
<1>2. CASE ResumeQueue(c)
  BY <1>2 DEF ResumeQueue
<1>3. CASE ResumeDying(c)
  BY <1>3 DEF ResumeDying
<1>4. CASE ResumeIdle(c)
  BY <1>4 DEF ResumeIdle
<1>5. CASE Assassin(c)
  BY <1>5 DEF Assassin
<1>6. CASE AssassinMerged(c)
  BY <1>6 DEF AssassinMerged
<1>7. CASE DispatchReady(c)
  <2>1. Head(ready_list) \in Thread /\ Tail(ready_list) \in Seq(Thread)
    BY <1>7 DEF DispatchReady
  <2>2. /\ owner' \in [Mutex -> Thread \cup {NoThread}]
        /\ mutex_list' \in [Thread -> Seq(Mutex)]
        /\ locking' \in [Thread -> Mutex \cup {NoRoom}]
    BY <1>7, <2>1 DEF DispatchReady, Continue
  <2>. QED  BY <1>7, <2>1, <2>2 DEF DispatchReady
<1>8. CASE DispatchIdle(c)
  BY <1>8 DEF DispatchIdle
<1>. QED  BY <1>1, <1>2, <1>3, <1>4, <1>5, <1>6, <1>7, <1>8 DEF Resume

LEMMA TypeOthers ==
  ASSUME IInv, (\E t \in Thread : Ready(t)) \/ (\E s \in Sem : Post(s)) \/ Release \/ Destroyed
  PROVE  TypeOK'
<1> USE DEF IInv, TypeOK, listVars, lockVars, fateVars, callVars
<1>1. ASSUME NEW t \in Thread, Ready(t) PROVE TypeOK'
  BY <1>1 DEF Ready
<1>2. ASSUME NEW s \in Sem, Post(s) PROVE TypeOK'
  <2>1. s \in Room /\ s \notin Mutex
    BY SchedulerAssumption DEF Room
  <2>. QED  BY <1>2, <2>1, SignalTypes DEF Post
<1>3. CASE Release
  <2>. PICK t \in Thread : dying = t /\ mutex_list[t] # <<>>
    BY <1>3 DEF Release
  <2>1. Head(mutex_list[t]) \in Mutex /\ Contains(mutex_list[t], Head(mutex_list[t]))
    BY InTail DEF Unique
  <2>2. Head(mutex_list[t]) \in Room /\ counter[Head(mutex_list[t])] = 0
    BY <2>1 DEF Room, MutexOf
  <2>3. Signal(Head(mutex_list[t]))
    BY <1>3 DEF Release
  <2>. QED  BY <1>3, <2>1, <2>2, <2>3, SignalTypes DEF Release
<1>4. CASE Destroyed
  BY <1>4 DEF Destroyed
<1>. QED  BY <1>1, <1>2, <1>3, <1>4

-----------------------------------------------------------------------------
(* The ways in which a thread ends                                         *)

\* exit(), kill() of oneself, resume() and the assassin: the thread runs on the CPU that
\* takes it away.
LEMMA RunningEnds ==
  ASSUME IInv, NEW t \in Thread, NEW c \in CPU, KernelFree, life[c] = t,
         Destruct(t), DispatchNext(c), UNCHANGED <<life, listVars, lockVars, started>>
  PROVE  Ends(t)
<1>1. RunsOn(t, c) /\ LeavesCPU(c) /\ \A d \in CPU : ~ RunsOn(t, d)'
  BY GivesUp
<1>2. Alive(t) /\ ~ IsReady(t) /\ ~ Waiting(t)
  BY <1>1 DEF IInv, HomeOf, Running
<1>3. SameReady /\ SameRooms /\ UniqueLists'
  BY ReadySame, RoomsSame DEF listVars, UniqueLists
<1>4. ASSUME NEW u \in Thread, NEW d \in CPU PROVE RunsOn(u, d)' <=> RunsOn(u, d) /\ u # t
  <2>1. CASE u = t
    BY <1>1, <2>1
  <2>2. CASE u # t
    BY <1>1, <2>2 DEF LeavesCPU, RunsOn
  <2>. QED  BY <2>1, <2>2
<1>. QED  BY <1>2, <1>3, <1>4 DEF Ends, ReadyMinus, SameReady, SameRooms, Waiting, listVars

LEMMA KillReadyEnds ==
  ASSUME IInv, NEW t \in Thread, KillReady(t)
  PROVE  Ends(t)
<1>1. IsReady(t) /\ Alive(t) /\ ~ Waiting(t) /\ ~ Running(t)
  BY DEF KillReady, IsReady, IInv, HomeOf
<1>2. IsInjective(ready_list') /\ ReadyMinus(t)
  BY ReadyRemove DEF KillReady
<1>3. SameRooms /\ UniqueLists'
  BY <1>2, RoomsSame DEF KillReady, UniqueLists
<1>4. SameRunning
  BY RunningSame DEF KillReady
<1>. QED
  BY <1>1, <1>2, <1>3, <1>4 DEF Ends, KillReady, CallsKill, SameRooms, SameRunning, Waiting, Running

\* kill() by the record of the room; the thread is there, or has ended already.
LEMMA KillWaitingEnds ==
  ASSUME IInv, NEW t \in Thread, KillWaiting(t)
  PROVE  Ends(t)
<1>. PICK r \in Room : waitingroom[t] = r
  BY DEF KillWaiting, IInv, TypeOK
<1>1. HomeOf(t) /\ ~ IsReady(t)
  BY DEF IInv, KillWaiting, IsReady
<1>2. (Alive(t) => WaitsIn(t, r)) /\ ~ Running(t) /\ \A q \in Room : WaitsIn(t, q) => q = r
  BY <1>1 DEF HomeOf, Waiting
<1>3. /\ RoomMinus(t, r) /\ (\A q \in Room : IsInjective(customers'[q]))
      /\ \A q \in Room : customers[q] = <<>> => customers'[q] = <<>>
  BY RoomRemove DEF KillWaiting
<1>4. SameReady /\ SameRunning /\ UniqueLists'
  BY <1>3, ReadySame, RunningSame DEF KillWaiting, UniqueLists
<1>5. waitingroom[t] # NoRoom /\ t \in started
  BY DEF KillWaiting, CallsKill
<1>. QED
  BY <1>1, <1>2, <1>3, <1>4, <1>5
     DEF Ends, KillWaiting, CallsKill, ReadyMinus, SameReady, RoomMinus, SameRunning, Running

-----------------------------------------------------------------------------
(* The invariant holds                                                     *)

LEMMA CallsKeep ==
  ASSUME IInv, NEW t \in Thread, NEW c \in CPU, Syscall(t, c)
  PROVE  IInv'
<1>1. TypeOK'
  BY TypeCalls
<1>2. ASSUME NEW s \in Sem, WaitTake(t, c, s) PROVE IInv'
  <2>1. s \in Room /\ s \notin Mutex /\ counter \in [Room -> Nat] /\ customers[s] = <<>>
    BY <1>2, SchedulerAssumption DEF Room, WaitTake, IInv, TypeOK, NoUnitWithWaiters
  <2>2. Quiet
    BY <1>2, RunningSame DEF WaitTake, Quiet, fateVars, callVars
  <2>3. \A r \in Room : customers[r] # <<>> \/ r \in Mutex => counter'[r] = counter[r]
    BY <1>2, <2>1 DEF WaitTake
  <2>. QED  BY <1>1, <2>2, <2>3, QuietKeeps
<1>3. ASSUME NEW s \in Sem, WaitBlock(t, c, s) PROVE IInv'
  <2>1. s \in Room /\ s \notin Mutex
    BY SchedulerAssumption DEF Room
  <2>2. locking[t] = NoRoom /\ locking \in [Thread -> Mutex \cup {NoRoom}]
    BY <1>3, SchedulerAssumption
       DEF WaitBlock, Calls, KernelFree, IInv, TypeOK, LockingOf, Running, RunsOn
  <2>3. locking' = [locking EXCEPT ![t] = IF s \in Mutex THEN s ELSE NoRoom]
    BY <1>3, <2>1, <2>2 DEF WaitBlock, lockVars
  <2>. QED  BY <1>1, <1>3, <2>1, <2>3, BlockKeeps DEF WaitBlock, lockVars
<1>4. ASSUME NEW m \in Mutex, LockTake(t, c, m) PROVE IInv'
  BY <1>1, <1>4, LockKeeps
<1>5. ASSUME NEW m \in Mutex, LockBlock(t, c, m) PROVE IInv'
  <2>1. locking' = [locking EXCEPT ![t] = IF m \in Mutex THEN m ELSE NoRoom]
    BY <1>5 DEF LockBlock
  <2>. QED  BY <1>1, <1>5, <2>1, BlockKeeps DEF LockBlock, Room
<1>6. ASSUME NEW m \in Mutex, Unlock(t, c, m) PROVE IInv'
  BY <1>1, <1>6, UnlockKeeps
<1>7. CASE Exit(t, c)
  BY <1>1, <1>7, RunningEnds, EndsKeeps DEF Exit, Calls
<1>. QED  BY <1>2, <1>3, <1>4, <1>5, <1>6, <1>7 DEF Syscall

LEMMA KillKeeps ==
  ASSUME IInv, NEW t \in Thread, Kill(t)
  PROVE  IInv'
<1>1. TypeOK'
  BY TypeKill
<1>2. CASE KillReady(t)
  BY <1>1, <1>2, KillReadyEnds, EndsKeeps
<1>3. CASE KillWaiting(t)
  BY <1>1, <1>3, KillWaitingEnds, EndsKeeps
<1>4. ASSUME Marks(t), UNCHANGED <<life, listVars, lockVars, started, destroyed, callVars>>
      PROVE  IInv'
  BY <1>1, <1>4, RunningSame, QuietKeeps DEF Quiet, lockVars, callVars
<1>5. CASE KillNowhere(t)
  BY <1>4, <1>5 DEF KillNowhere
<1>6. ASSUME NEW c \in CPU, KillSelf(t, c) PROVE IInv'
  BY <1>1, <1>6, RunningEnds, EndsKeeps DEF KillSelf, Marks, CallsKill
<1>7. ASSUME NEW c \in CPU, NEW d \in CPU, KillRemote(t, c, d) PROVE IInv'
  BY <1>4, <1>7 DEF KillRemote
<1>. QED  BY <1>2, <1>3, <1>5, <1>6, <1>7 DEF Kill

LEMMA CPUKeeps ==
  ASSUME IInv, NEW c \in CPU,
         Schedule(c) \/ Resume(c) \/ Assassin(c) \/ AssassinMerged(c) \/ DispatchReady(c) \/ DispatchIdle(c)
  PROVE  IInv'
<1>1. TypeOK'
  BY TypeCPU
\* No thread runs on a CPU that is in its idle thread, or has not begun.
<1>2. ASSUME KernelFree, life[c] \notin Thread, DispatchNext(c),
             UNCHANGED <<life, listVars, lockVars, fateVars, dying>>
      PROVE  IInv'
  <2>1. SameRunning
    BY <1>2, GivesUp DEF SameRunning, LeavesCPU, RunsOn
  <2>. QED  BY <1>1, <1>2, <2>1, QuietKeeps DEF Quiet, fateVars, lockVars
<1>3. CASE Schedule(c)
  BY <1>2, <1>3, SchedulerAssumption DEF Schedule, Calls
<1>4. CASE ResumeQueue(c)
  BY <1>1, <1>4, ResumeKeeps
<1>5. CASE ResumeDying(c)
  BY <1>1, <1>5, RunningEnds, EndsKeeps DEF ResumeDying
<1>6. CASE ResumeIdle(c)
  BY <1>2, <1>6, SchedulerAssumption DEF ResumeIdle, Calls
<1>7. CASE Assassin(c)
  <2>1. CASE life[c] \in Thread /\ killed[life[c]]
    BY <1>1, <1>7, <2>1, RunningEnds, EndsKeeps DEF Assassin
  <2>2. CASE ~ (life[c] \in Thread /\ killed[life[c]])
    BY <1>1, <1>7, <2>2, RunningSame, QuietKeeps DEF Assassin, Quiet, lockVars
  <2>. QED  BY <2>1, <2>2
<1>8. CASE AssassinMerged(c)
  BY <1>1, <1>8, RunningSame, QuietKeeps DEF AssassinMerged, Quiet, lockVars, callVars
<1>9. CASE DispatchReady(c)
  BY <1>1, <1>9, DispatchKeeps
<1>10. CASE DispatchIdle(c)
  <2>1. SameRunning
    BY <1>10, SchedulerAssumption DEF DispatchIdle, SameRunning, RunsOn, IInv, TypeOK
  <2>. QED  BY <1>1, <1>10, <2>1, QuietKeeps DEF DispatchIdle, Quiet, lockVars, fateVars
<1>. QED  BY <1>3, <1>4, <1>5, <1>6, <1>7, <1>8, <1>9, <1>10 DEF Resume

LEMMA IInvInit == Init => IInv
<1> SUFFICES ASSUME Init PROVE IInv
  OBVIOUS
<1>1. TypeOK
  BY SchedulerAssumption DEF Init, TypeOK, Room
<1>2. Unique /\ NoUnitWithWaiters
  BY InEmpty DEF Init, Unique, NoUnitWithWaiters
<1>3. \A t \in Thread : ~ IsReady(t) /\ ~ Waiting(t) /\ ~ Running(t) /\ ~ Alive(t)
  BY InEmpty, SchedulerAssumption DEF Init, IsReady, Waiting, WaitsIn, Running, RunsOn, Alive
<1>4. ASSUME NEW t \in Thread PROVE HomeOf(t) /\ FateOf(t) /\ LockingOf(t)
  <2>1. HomeOf(t)
    BY <1>3 DEF HomeOf, Waiting, Running
  <2>2. FateOf(t)
    BY SchedulerAssumption DEF Init, FateOf
  <2>3. LockingOf(t)
    BY <1>3 DEF LockingOf, Waiting
  <2>. QED  BY <2>1, <2>2, <2>3
<1>5. ASSUME NEW m \in Mutex PROVE MutexOf(m)
  BY <1>3, InEmpty, SchedulerAssumption DEF Init, MutexOf, HandedOver
<1>. QED  BY <1>1, <1>2, <1>4, <1>5 DEF IInv

LEMMA IInvNext == IInv /\ [Next]_vars => IInv'
<1> SUFFICES ASSUME IInv, [Next]_vars PROVE IInv'
  OBVIOUS
<1>1. CASE UNCHANGED vars
  <2>1. TypeOK'
    BY <1>1 DEF vars, listVars, lockVars, fateVars, callVars, IInv, TypeOK
  <2>. QED
    BY <1>1, <2>1, RunningSame, QuietKeeps DEF vars, listVars, lockVars, fateVars, callVars, Quiet
<1>2. ASSUME NEW t \in Thread, Ready(t) PROVE IInv'
  BY <1>2, ReadyKeeps, TypeOthers
<1>3. ASSUME NEW s \in Sem, Post(s) PROVE IInv'
  BY <1>3, PostKeeps, TypeOthers
<1>4. CASE Release
  BY <1>4, ReleaseKeeps, TypeOthers
<1>5. CASE Destroyed
  BY <1>5, DestroyedKeeps, TypeOthers
<1>6. CASE Next
  BY <1>2, <1>3, <1>4, <1>5, <1>6, KillKeeps, CallsKeep, CPUKeeps DEF Next, Finish
<1>. QED  BY <1>1, <1>6

LEMMA IInvHolds == Spec => []IInv
  BY IInvInit, IInvNext, PTL DEF Spec

\* thread/scheduler.cc, dispatcher.cc: ready(), dispatch, block(), wakeup(), exit() and
\* kill() keep each living thread in exactly one place, and leave none that has ended
\* anywhere.
THEOREM ThreadsHaveOneHome == Spec => []OneHome
<1>1. IInv => OneHome
  BY DEF IInv, Unique, HomeOf, OneHome
<1>. QED  BY IInvHolds, <1>1, PTL

\* user/mutex/mutex.cc: lock(), unlock() and mutex_release_all() agree on who owns a
\* mutex, at most one thread, and its semaphore has no unit then.
THEOREM MutexesHaveOneOwner == Spec => []MutexAccounted
<1>1. IInv => MutexAccounted
  BY DEF IInv, MutexOf, MutexAccounted
<1>. QED  BY IInvHolds, <1>1, PTL

\* meeting/semaphore.cc: nobody waits for a unit that is there.
THEOREM NobodyWaitsForUnits == Spec => []NoUnitWithWaiters
<1>1. IInv => NoUnitWithWaiters
  BY DEF IInv
<1>. QED  BY IInvHolds, <1>1, PTL

\* thread/thread.cc: ~Thread runs once, but for a thread killed in a waiting room.
THEOREM ThreadsEndOnce == Spec => []DestructedOnce
<1>1. IInv => DestructedOnce
  BY DEF IInv, FateOf, DestructedOnce
<1>. QED  BY IInvHolds, <1>1, PTL

-----------------------------------------------------------------------------
(* States                                                                  *)

\* A living thread is in the state that its place says; the others are new or ended.
LEMMA StateIs ==
  ASSUME NEW t \in Thread, HomeOf(t), FateOf(t)
  PROVE  /\ Alive(t) => StateOf(t) = IF IsReady(t) THEN "ready"
                                     ELSE IF Waiting(t) THEN "waiting" ELSE "running"
         /\ Alive(t) /\ Running(t) => StateOf(t) = "running"
         /\ t \notin started => StateOf(t) = "new"
         /\ t \in started /\ ~ Alive(t) /\ destroyed[t] > 0 => StateOf(t) = "ended"
  BY DEF HomeOf, FateOf, Alive, StateOf

\* A thread to which nothing happens keeps its state.
LEMMA StateSame ==
  ASSUME NEW u \in Thread, SamePlace(u),
         (u \in started)' <=> (u \in started), destroyed'[u] = destroyed[u]
  PROVE  StateOf(u)' = StateOf(u)
  BY DEF SamePlace, StateOf, Waiting, Running

\* The same, of the state that a thread gets to.
LEMMA NextStateIs ==
  ASSUME NEW t \in Thread
  PROVE  /\ (t \in started)' /\ destroyed'[t] = 0 /\ IsReady(t)' => StateOf(t)' = "ready"
         /\ (t \in started)' /\ destroyed'[t] = 0 /\ ~ IsReady(t)' /\ Waiting(t)' => StateOf(t)' = "waiting"
         /\ (t \in started)' /\ destroyed'[t] = 0 /\ ~ IsReady(t)' /\ ~ Waiting(t)' /\ Running(t)'
              => StateOf(t)' = "running"
         /\ (t \in started)' /\ destroyed'[t] > 0 /\ ~ IsReady(t)' /\ ~ Waiting(t)' /\ ~ Running(t)'
              => StateOf(t)' = "ended"
  BY DEF StateOf, Waiting, Running

\* Who is in the state of running runs.
LEMMA RunningIs ==
  ASSUME NEW t \in Thread, StateOf(t) = "running"
  PROVE  Running(t)
  BY DEF StateOf

AbstractState == [t \in Thread |-> StateOf(t)]

LEMMA Stutters ==
  ASSUME \A u \in Thread : StateOf(u)' = StateOf(u)
  PROVE  AbstractState' = AbstractState
  BY DEF AbstractState

LEMMA Changes ==
  ASSUME NEW t \in Thread, \A u \in Thread \ {t} : StateOf(u)' = StateOf(u)
  PROVE  Abstract!Goes(t, StateOf(t), StateOf(t)')
<1>1. AbstractState' = [AbstractState EXCEPT ![t] = StateOf(t)']
  BY DEF AbstractState
<1>. QED  BY <1>1 DEF AbstractState, Abstract!Goes

\* A step of the scheduler is one of Threads or changes no state.
Implements == Abstract!ThreadsNext \/ AbstractState' = AbstractState

-----------------------------------------------------------------------------
(* The steps                                                               *)

\* Nothing that StateOf looks at changes.
LEMMA SameStates ==
  ASSUME UNCHANGED <<ready_list, customers, started, destroyed>>, SameRunning
  PROVE  AbstractState' = AbstractState
<1>1. ASSUME NEW u \in Thread PROVE SamePlace(u)
  BY DEF SamePlace, IsReady, WaitsIn, SameRunning
<1>. QED  BY <1>1, StateSame, Stutters

\* The thread ends, or it had ended and nothing changes.
LEMMA EndImplements ==
  ASSUME IInv, IInv', NEW t \in Thread, Ends(t)
  PROVE  Implements
<1>1. ASSUME NEW u \in Thread \ {t} PROVE StateOf(u)' = StateOf(u)
  <2>1. SamePlace(u) /\ destroyed'[u] = destroyed[u]
    BY DEF Ends, ReadyMinus, SamePlace, Destruct
  <2>. QED  BY <2>1, StateSame DEF Ends
<1>2. destroyed'[t] > 0 /\ t \in started /\ t \in started'
  BY DEF Ends, Destruct, IInv, TypeOK, Alive
<1>3. StateOf(t)' = "ended"
  <2>1. ~ Alive(t)'
    BY <1>2 DEF Alive
  <2>2. ~ IsReady(t)' /\ ~ Waiting(t)' /\ ~ Running(t)'
    BY <2>1 DEF IInv, HomeOf
  <2>. QED  BY <1>2, <2>2, NextStateIs
<1>4. CASE Alive(t)
  <2>1. StateOf(t) \in {"ready", "running", "waiting"}
    BY <1>4, StateIs DEF IInv
  <2>2. Abstract!End(t)
    BY <1>1, <1>3, <2>1, Changes DEF Abstract!End
  <2>. QED  BY <2>2 DEF Implements, Abstract!ThreadsNext
<1>5. CASE ~ Alive(t)
  <2>1. destroyed[t] > 0
    <3>1. destroyed[t] \in 0 .. 2
      BY DEF IInv, TypeOK
    <3>. QED  BY <1>2, <1>5, <3>1 DEF Alive
  <2>2. StateOf(t) = "ended"
    BY <1>2, <1>5, <2>1, StateIs DEF IInv
  <2>. QED  BY <1>1, <1>3, <2>2, Stutters DEF Implements
<1>. QED  BY <1>4, <1>5

LEMMA ReadyImplements ==
  ASSUME IInv, IInv', NEW t \in Thread, Ready(t)
  PROVE  Implements
<1>1. /\ t \notin started /\ started' = started \cup {t} /\ ~ Alive(t) /\ ~ IsReady(t)
      /\ UNCHANGED <<customers, destroyed>>
  BY DEF Ready, Alive, IInv, HomeOf
<1>2. ReadyPlus(t) /\ SameRunning
  BY <1>1, ReadyAppend, RunningSame DEF Ready, callVars
<1>3. ASSUME NEW u \in Thread \ {t} PROVE StateOf(u)' = StateOf(u)
  <2>1. SamePlace(u)
    BY <1>1, <1>2 DEF SamePlace, ReadyPlus, WaitsIn, SameRunning
  <2>. QED  BY <1>1, <2>1, StateSame
<1>4. StateOf(t) = "new" /\ StateOf(t)' = "ready"
  <2>1. t \in started' /\ destroyed'[t] = 0 /\ IsReady(t)'
    BY <1>1, <1>2 DEF ReadyPlus, IInv, FateOf
  <2>. QED  BY <1>1, <2>1, StateIs, NextStateIs DEF IInv
<1>5. Abstract!Start(t)
  BY <1>3, <1>4, Changes DEF Abstract!Start
<1>. QED  BY <1>5 DEF Implements, Abstract!ThreadsNext

LEMMA ResumeImplements ==
  ASSUME IInv, IInv', NEW c \in CPU, ResumeQueue(c)
  PROVE  Implements
<1>. PICK t \in Thread : t = life[c]
  BY DEF ResumeQueue
<1>1. /\ KernelFree /\ DispatchNext(c) /\ ready_list' = Append(ready_list, t)
      /\ UNCHANGED <<life, customers, started, destroyed>>
  BY DEF ResumeQueue, fateVars
<1>2. RunsOn(t, c) /\ LeavesCPU(c)
  BY <1>1, GivesUp
<1>3. Alive(t) /\ Running(t) /\ ~ IsReady(t)
  BY <1>2 DEF IInv, HomeOf, Running
<1>4. ReadyPlus(t)
  BY <1>1, <1>3, ReadyAppend
<1>5. ASSUME NEW u \in Thread \ {t} PROVE StateOf(u)' = StateOf(u)
  <2>1. SamePlace(u)
    BY <1>1, <1>2, <1>4 DEF SamePlace, ReadyPlus, WaitsIn, LeavesCPU, RunsOn
  <2>. QED  BY <1>1, <2>1, StateSame
<1>6. StateOf(t) = "running" /\ StateOf(t)' = "ready"
  <2>1. Alive(t)' /\ IsReady(t)'
    BY <1>1, <1>3, <1>4 DEF Alive, ReadyPlus
  <2>. QED  BY <1>3, <2>1, StateIs, NextStateIs DEF IInv, Alive
<1>7. Abstract!Preempt(t)
  BY <1>5, <1>6, Changes DEF Abstract!Preempt
<1>. QED  BY <1>7 DEF Implements, Abstract!ThreadsNext

LEMMA BlockImplements ==
  ASSUME IInv, IInv', NEW t \in Thread, NEW c \in CPU, NEW r \in Room, Calls(t, c), Block(t, c, r),
         UNCHANGED <<life, ready_list, started, destroyed>>
  PROVE  Implements
<1>1. /\ KernelFree /\ DispatchNext(c) /\ life[c] = t
      /\ customers' = [customers EXCEPT ![r] = Append(@, t)]
  BY DEF Calls, Block
<1>2. RunsOn(t, c) /\ LeavesCPU(c)
  BY <1>1, GivesUp
<1>3. Alive(t) /\ Running(t) /\ ~ Waiting(t) /\ ~ IsReady(t)
  BY <1>2 DEF IInv, HomeOf, Running
<1>4. RoomPlus(t, r)
  BY <1>1, <1>3, RoomAppend DEF Waiting
<1>5. ASSUME NEW u \in Thread \ {t} PROVE StateOf(u)' = StateOf(u)
  <2>1. SamePlace(u)
    BY <1>1, <1>2, <1>4 DEF SamePlace, RoomPlus, IsReady, LeavesCPU, RunsOn
  <2>. QED  BY <2>1, StateSame
<1>6. StateOf(t) = "running" /\ StateOf(t)' = "waiting"
  <2>1. Alive(t)' /\ Waiting(t)' /\ ~ IsReady(t)'
    BY <1>3, <1>4 DEF Alive, RoomPlus, Waiting, IsReady
  <2>. QED  BY <1>3, <2>1, StateIs, NextStateIs DEF IInv, Alive
<1>7. Abstract!Wait(t)
  BY <1>5, <1>6, Changes DEF Abstract!Wait
<1>. QED  BY <1>7 DEF Implements, Abstract!ThreadsNext

LEMMA SignalImplements ==
  ASSUME IInv, IInv', NEW r \in Room, Signal(r),
         UNCHANGED <<life, started, destroyed, switching, dying, locking>>
  PROVE  Implements
<1>1. CASE SignalFirst(r)
  <2>. PICK t \in Thread : t = Head(customers[r])
    BY <1>1, RoomTail DEF SignalFirst
  <2>1. WaitsIn(t, r) /\ ReadyPlus(t) /\ \A u \in Thread \ {t} : SamePlace(u)
    BY <1>1, SignalHomes
  <2>2. \A u \in Thread \ {t} : StateOf(u)' = StateOf(u)
    BY <2>1, StateSame
  <2>3. Alive(t) /\ Waiting(t) /\ ~ IsReady(t) /\ Alive(t)' /\ IsReady(t)'
    BY <2>1 DEF IInv, HomeOf, Waiting, ReadyPlus, Alive
  <2>4. StateOf(t) = "waiting" /\ StateOf(t)' = "ready"
    BY <2>3, StateIs, NextStateIs DEF IInv, Alive
  <2>5. Abstract!Wake(t)
    BY <2>2, <2>4, Changes DEF Abstract!Wake
  <2>. QED  BY <2>5 DEF Implements, Abstract!ThreadsNext
<1>2. CASE SignalNobody(r)
  BY <1>2, RunningSame, SameStates DEF SignalNobody, listVars, Implements
<1>. QED  BY <1>1, <1>2 DEF Signal

\* No two threads run on one CPU, and none on the one that is in dispatch_next().
LEMMA FewerThanCPUs ==
  ASSUME IInv, IsFiniteSet(CPU), NEW c \in CPU, switching = c
  PROVE  Cardinality({u \in Thread : StateOf(u) = "running"}) < Cardinality(CPU)
<1> DEFINE R == {u \in Thread : StateOf(u) = "running"}
           place == [u \in R |-> CHOOSE d \in CPU : RunsOn(u, d)]
<1>1. ASSUME NEW u \in R PROVE place[u] \in CPU \ {c} /\ RunsOn(u, place[u])
  <2>1. Running(u)
    BY RunningIs
  <2>2. PICK d \in CPU : RunsOn(u, d)
    BY <2>1 DEF Running
  <2>3. place[u] \in CPU /\ RunsOn(u, place[u])
    BY <2>2
  <2>. QED  BY <2>3 DEF RunsOn
<1>2. place \in Injection(R, CPU \ {c})
  <2>1. place \in [R -> CPU \ {c}]
    BY <1>1
  <2>2. ASSUME NEW u \in R, NEW v \in R, place[u] = place[v] PROVE u = v
    BY <1>1, <2>2 DEF RunsOn
  <2>. QED  BY <2>1, <2>2 DEF Injection, IsInjective
<1>3. IsFiniteSet(CPU \ {c}) /\ Cardinality(CPU \ {c}) = Cardinality(CPU) - 1 /\ Cardinality(CPU) \in Nat
  BY FS_RemoveElement, FS_CardinalityType
<1> HIDE DEF R, place
<1>4. IsFiniteSet(R) /\ Cardinality(R) <= Cardinality(CPU \ {c})
  BY <1>2, <1>3, FS_Injection
<1>5. Cardinality(R) \in Nat
  BY <1>4, FS_CardinalityType
<1>6. Cardinality(R) < Cardinality(CPU)
  BY <1>3, <1>4, <1>5
<1>. QED  BY <1>6 DEF R


LEMMA DispatchImplements ==
  ASSUME IInv, IInv', IsFiniteSet(CPU), NEW c \in CPU, DispatchReady(c)
  PROVE  Implements
<1>. PICK t \in Thread : t = Head(ready_list)
  BY ReadyTail DEF DispatchReady
<1>1. IsReady(t) /\ ReadyMinus(t)
  BY ReadyTail DEF DispatchReady
<1>2. /\ life' = [life EXCEPT ![c] = t] /\ switching = c /\ switching' = NoCPU /\ NoCPU \notin CPU
      /\ UNCHANGED <<customers, started, destroyed>>
  BY SchedulerAssumption DEF DispatchReady, fateVars
<1>3. life \in [CPU -> Thread \cup {Idle, NoThread}]
  BY DEF IInv, TypeOK
<1>4. \A u \in Thread : \A d \in CPU : RunsOn(u, d)' <=> RunsOn(u, d) \/ (u = t /\ d = c)
  BY <1>1, <1>2, <1>3 DEF RunsOn
<1>5. Alive(t) /\ ~ Waiting(t) /\ ~ Running(t)
  BY <1>1 DEF IInv, HomeOf
<1>6. ASSUME NEW u \in Thread \ {t} PROVE StateOf(u)' = StateOf(u)
  <2>1. SamePlace(u)
    BY <1>1, <1>2, <1>4 DEF SamePlace, ReadyMinus, WaitsIn
  <2>. QED  BY <1>2, <2>1, StateSame
<1>7. StateOf(t) = "ready" /\ StateOf(t)' = "running"
  <2>1. ~ IsReady(t)' /\ ~ Waiting(t)' /\ Running(t)'
    BY <1>1, <1>2, <1>4, <1>5 DEF ReadyMinus, Waiting, WaitsIn, Running
  <2>2. t \in started' /\ destroyed'[t] = 0
    BY <1>2, <1>5 DEF Alive
  <2>. QED  BY <1>1, <1>5, <2>1, <2>2, StateIs, NextStateIs DEF IInv
<1>8. Cardinality({u \in Thread : StateOf(u) = "running"}) < Cardinality(CPU)
  BY <1>2, FewerThanCPUs
<1>9. {u \in Thread : AbstractState[u] = "running"} = {u \in Thread : StateOf(u) = "running"}
  BY DEF AbstractState
<1>10. Abstract!Goes(t, "ready", "running")
  BY <1>6, <1>7, Changes
<1>11. \A S : Abstract!Cardinality(S) = Cardinality(S)
  BY DEF Abstract!Cardinality, Cardinality
<1>12. Abstract!Dispatch(t)
  BY <1>8, <1>9, <1>10, <1>11 DEF Abstract!Dispatch, AbstractState
<1>. QED  BY <1>12 DEF Implements, Abstract!ThreadsNext

-----------------------------------------------------------------------------
(* The refinement                                                          *)

LEMMA CallImplements ==
  ASSUME IInv, IInv', NEW t \in Thread, NEW c \in CPU, Syscall(t, c)
  PROVE  Implements
<1>1. ASSUME NEW s \in Sem, WaitTake(t, c, s) PROVE Implements
  BY <1>1, RunningSame, SameStates DEF WaitTake, listVars, fateVars, callVars, Implements
<1>2. ASSUME NEW s \in Sem, WaitBlock(t, c, s) PROVE Implements
  BY <1>2, BlockImplements DEF WaitBlock, fateVars, Room
<1>3. ASSUME NEW m \in Mutex, LockTake(t, c, m) PROVE Implements
  BY <1>3, RunningSame, SameStates DEF LockTake, listVars, fateVars, callVars, Implements
<1>4. ASSUME NEW m \in Mutex, LockBlock(t, c, m) PROVE Implements
  BY <1>4, BlockImplements DEF LockBlock, fateVars, Room
<1>5. ASSUME NEW m \in Mutex, Unlock(t, c, m) PROVE Implements
  BY <1>5, SignalImplements DEF Unlock, fateVars, callVars, Room
<1>6. CASE Exit(t, c)
  BY <1>6, RunningEnds, EndImplements DEF Exit, Calls
<1>. QED  BY <1>1, <1>2, <1>3, <1>4, <1>5, <1>6 DEF Syscall

LEMMA KillImplements ==
  ASSUME IInv, IInv', NEW t \in Thread, Kill(t)
  PROVE  Implements
<1>1. CASE KillReady(t)
  BY <1>1, KillReadyEnds, EndImplements
<1>2. CASE KillWaiting(t)
  BY <1>2, KillWaitingEnds, EndImplements
<1>3. ASSUME UNCHANGED <<life, listVars, started, destroyed, callVars>> PROVE Implements
  BY <1>3, RunningSame, SameStates DEF listVars, callVars, Implements
<1>4. CASE KillNowhere(t)
  BY <1>3, <1>4 DEF KillNowhere
<1>5. ASSUME NEW c \in CPU, KillSelf(t, c) PROVE Implements
  BY <1>5, RunningEnds, EndImplements DEF KillSelf, Marks, CallsKill
<1>6. ASSUME NEW c \in CPU, NEW d \in CPU, KillRemote(t, c, d) PROVE Implements
  BY <1>3, <1>6 DEF KillRemote
<1>. QED  BY <1>1, <1>2, <1>4, <1>5, <1>6 DEF Kill

LEMMA CPUImplements ==
  ASSUME IInv, IInv', IsFiniteSet(CPU), NEW c \in CPU,
         Schedule(c) \/ Resume(c) \/ Assassin(c) \/ AssassinMerged(c) \/ DispatchReady(c) \/ DispatchIdle(c)
  PROVE  Implements
\* No thread runs on a CPU that is in its idle thread, or has not begun.
<1>1. ASSUME KernelFree, life[c] \notin Thread, DispatchNext(c), UNCHANGED <<life, listVars, fateVars>>
      PROVE  Implements
  <2>1. SameRunning
    BY <1>1, GivesUp DEF SameRunning, LeavesCPU, RunsOn
  <2>. QED  BY <1>1, <2>1, SameStates DEF listVars, fateVars, Implements
<1>2. CASE Schedule(c)
  BY <1>1, <1>2, SchedulerAssumption DEF Schedule, Calls
<1>3. CASE ResumeQueue(c)
  BY <1>3, ResumeImplements
<1>4. CASE ResumeDying(c)
  BY <1>4, RunningEnds, EndImplements DEF ResumeDying
<1>5. CASE ResumeIdle(c)
  BY <1>1, <1>5, SchedulerAssumption DEF ResumeIdle, Calls
<1>6. CASE Assassin(c)
  <2>1. CASE life[c] \in Thread /\ killed[life[c]]
    BY <1>6, <2>1, RunningEnds, EndImplements DEF Assassin
  <2>2. CASE ~ (life[c] \in Thread /\ killed[life[c]])
    BY <1>6, <2>2, RunningSame, SameStates DEF Assassin, listVars, Implements
  <2>. QED  BY <2>1, <2>2
<1>7. CASE AssassinMerged(c)
  BY <1>7, RunningSame, SameStates DEF AssassinMerged, listVars, callVars, Implements
<1>8. CASE DispatchReady(c)
  BY <1>8, DispatchImplements
<1>9. CASE DispatchIdle(c)
  <2>1. SameRunning
    BY <1>9, SchedulerAssumption DEF DispatchIdle, SameRunning, RunsOn, IInv, TypeOK
  <2>. QED  BY <1>9, <2>1, SameStates DEF DispatchIdle, listVars, fateVars, Implements
<1>. QED  BY <1>2, <1>3, <1>4, <1>5, <1>6, <1>7, <1>8, <1>9 DEF Resume

LEMMA NextImplements ==
  ASSUME IInv, IInv', IsFiniteSet(CPU), [Next]_vars
  PROVE  Implements
<1>1. CASE UNCHANGED vars
  BY <1>1, RunningSame, SameStates DEF vars, listVars, fateVars, callVars, Implements
<1>2. ASSUME NEW t \in Thread, Ready(t) PROVE Implements
  BY <1>2, ReadyImplements
<1>3. ASSUME NEW s \in Sem, Post(s) PROVE Implements
  BY <1>3, SignalImplements DEF Post, fateVars, callVars, Room
<1>4. CASE Release
  <2>. PICK t \in Thread : dying = t /\ mutex_list[t] # <<>>
    BY <1>4 DEF Release, IInv, TypeOK
  <2>1. Head(mutex_list[t]) \in Room
    BY InTail DEF IInv, TypeOK, Room
  <2>. QED  BY <1>4, <2>1, SignalImplements DEF Release, fateVars, callVars
<1>5. CASE Destroyed
  BY <1>5, RunningSame, SameStates DEF Destroyed, listVars, fateVars, Implements
<1>6. CASE Next
  BY <1>2, <1>3, <1>4, <1>5, <1>6, CallImplements, KillImplements, CPUImplements DEF Next, Finish
<1>. QED  BY <1>1, <1>6

\* No thread has been started.
LEMMA InitImplements == Init => Abstract!ThreadsInit
<1> SUFFICES ASSUME Init PROVE Abstract!ThreadsInit
  OBVIOUS
<1>1. ASSUME NEW t \in Thread PROVE StateOf(t) = "new"
  BY IInvInit, StateIs DEF Init, IInv
<1>. QED  BY <1>1 DEF Abstract!ThreadsInit

\* thread/scheduler.cc: whatever ready(), dispatch, block(), wakeup(), exit(), kill() and
\* the assassin do, each thread is started once, runs only from the ready list and on a
\* CPU of its own, is woken where it waits, and ends once.
THEOREM SchedulerIsThreads == ASSUME IsFiniteSet(CPU) PROVE Spec => ImplementsThreads
<1>1. IInv /\ IInv' /\ [Next]_vars => [Abstract!ThreadsNext]_AbstractState
  BY NextImplements DEF Implements
<1>2. [Abstract!ThreadsNext]_AbstractState => [Abstract!ThreadsNext]_([t \in Thread |-> StateOf(t)])
  BY DEF AbstractState
<1>. QED  BY InitImplements, IInvHolds, <1>1, <1>2, PTL DEF Spec, ImplementsThreads, Abstract!ThreadsSpec
=============================================================================
