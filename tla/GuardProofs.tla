---------------------------- MODULE GuardProofs ----------------------------
(***************************************************************************)
(* Proofs about the guard, for any set of CPUs and gates and any number of *)
(* interrupts: epilogues are serialised, a gate is in one queue at most,   *)
(* no epilogue is left behind, and no request is lost.  They rest on facts *)
(* about the abstract lock that the guard uses as bkl, and that Ticketlock *)
(* implements; these come first.                                           *)
(***************************************************************************)
EXTENDS Guard, ListProofs

-----------------------------------------------------------------------------
(* The kernel lock: what a step of FifoLock preserves, and that it excludes *)

LockInv == LockTypeOK /\ Ordered

\* Whoever is inside is ahead of everybody, so nobody else is inside.
LEMMA OrderedExcludes == LockInv => Exclusive
  BY DEF LockInv, LockTypeOK, Ordered, Exclusive, Phase

\* The queue order is preserved by asking, by getting in and by leaving.
LEMMA RequestKeepsOrder == ASSUME LockInv, NEW c \in CPU, Request(c) PROVE LockInv'
<1>. USE DEF LockInv, LockTypeOK, Phase
<1>1. LockTypeOK'
  BY DEF Request
<1>2. \A d \in CPU : d # c => ahead'[d] = ahead[d] /\ phase'[d] = phase[d]
  BY DEF Request
<1>3. phase[c] = "out" /\ phase'[c] = "waiting" /\ ahead'[c] = {d \in CPU : phase[d] # "out"}
  BY DEF Request
<1>4. \A d, e \in CPU : d \in ahead'[e] => phase'[d] # "out" /\ phase'[e] = "waiting"
  BY <1>2, <1>3 DEF Ordered
<1>5. \A d, e \in CPU : phase'[d] # "out" /\ phase'[e] # "out" /\ d # e
                          => (d \in ahead'[e] <=> e \notin ahead'[d])
  BY <1>2, <1>3 DEF Ordered
<1>6. \A d \in CPU : d \notin ahead'[d]
  BY <1>2, <1>3 DEF Ordered
<1>. QED BY <1>1, <1>4, <1>5, <1>6 DEF Ordered

LEMMA AcquireKeepsOrder == ASSUME LockInv, NEW c \in CPU, Acquire(c) PROVE LockInv'
  BY DEF LockInv, LockTypeOK, Phase, Ordered, Acquire

LEMMA ReleaseKeepsOrder == ASSUME LockInv, NEW c \in CPU, Release(c) PROVE LockInv'
  BY DEF LockInv, LockTypeOK, Phase, Ordered, Release

\* The abstract lock excludes: no two CPUs are ever inside together.
THEOREM FifoLockExcludes == LockSpec => []Exclusive
<1>1. LockInit => LockInv
  BY DEF LockInit, LockInv, LockTypeOK, Phase, Ordered
<1>2. LockInv /\ [LockNext]_lockVars => LockInv'
  <2>1. CASE UNCHANGED lockVars
    BY <2>1 DEF lockVars, LockInv, LockTypeOK, Phase, Ordered
  <2>. QED
    BY <2>1, RequestKeepsOrder, AcquireKeepsOrder, ReleaseKeepsOrder DEF LockNext
<1>. QED BY <1>1, <1>2, OrderedExcludes, PTL DEF LockSpec

-----------------------------------------------------------------------------
(* The inductive invariant                                                 *)

\* Where a CPU is determines its lock phase, its in_epilogue flag and whether
\* it can be interrupted; a handler runs with interrupts disabled, never on top
\* of code that has disabled them, and enqueues only inside the kernel.
Control ==
  \A c \in CPU :
    /\ phase[c] = IF InKernel(c) THEN "inside" ELSE IF pc[c] = "spin" THEN "waiting" ELSE "out"
    /\ in_epilogue[c] <=> pc[c] \notin {"thread", "enter"}
    /\ ints[c] => handler[c] = "none" /\ pc[c] \notin {"enter", "leave", "dequeued", "unlocked"}
    /\ handler[c] # "none" => irq[c] \in Gate
                             /\ pc[c] \notin {"enter", "leave", "dequeued", "unlocked"}
    /\ handler[c] = "enqueue" => in_epilogue[c]
    /\ pc[c] = "dequeued" => item[c] \in Gate

\* The queue of a CPU is empty from the unlock in leave() to the next enter().
Drained == \A c \in CPU : pc[c] \in {"unlocked", "thread", "enter"} => queue[c] = <<>>

IInv ==
  /\ TypeOK
  /\ Ordered
  /\ Control
  /\ Drained
  /\ OnePlace
  /\ NoRequestLost

\* The steps of one CPU, one case per action of Next.
Steps(c) ==
  \/ EnterDisable(c) \/ Step(c)
  \/ \E g \in Gate : Raise(c, g) \/ Interrupt(c, g) \/ InterruptOnly(c, g)

LEMMA InitHolds == Init => IInv
<1>. SUFFICES ASSUME Init PROVE IInv
  OBVIOUS
<1>1. TypeOK
  BY GuardAssumption DEF Init, LockInit, TypeOK, LockTypeOK, Phase, PC, Handler
<1>2. Ordered /\ Control /\ Drained /\ NoRequestLost
  BY DEF Init, LockInit, Ordered, Control, Drained, NoRequestLost, InKernel
<1>3. \A c \in CPU : \A g : ~ Has(c, g)
  BY InEmpty DEF Init, Has, Waits, InHand
<1>4. OnePlace
  BY <1>3, InEmpty DEF Init, OnePlace, Has
<1>. QED BY <1>1, <1>2, <1>4 DEF IInv

LEMMA TypeStep == ASSUME IInv, NEW c \in CPU, Steps(c) PROVE TypeOK'
<1>. USE GuardAssumption DEF IInv, TypeOK, LockTypeOK, Phase, PC, Handler
<1>1. CASE EnterDisable(c) BY <1>1 DEF EnterDisable, At, lockVars
<1>2. CASE EnterMark(c) BY <1>2 DEF EnterMark, At, lockVars
<1>3. CASE LockTicket(c) BY <1>3 DEF LockTicket, Request, At, lockVars
<1>4. CASE LockTaken(c) BY <1>4 DEF LockTaken, Acquire, EpilogueBegins, At, lockVars
<1>5. CASE LeaveDisable(c) BY <1>5 DEF LeaveDisable, At, lockVars
<1>6. CASE LeaveDequeue(c) BY <1>6 DEF LeaveDequeue, At, lockVars
<1>7. CASE LeaveEpilogue(c) BY <1>7 DEF LeaveEpilogue, EpilogueBegins, At, lockVars
<1>8. CASE LeaveUnlock(c) BY <1>8 DEF LeaveUnlock, Release, At, lockVars
<1>9. CASE LeaveClear(c) BY <1>9 DEF LeaveClear, At, lockVars
<1>10. CASE RelayMark(c) BY <1>10 DEF RelayMark, Owe, Control, lockVars
<1>11. CASE RelayMerge(c) BY <1>11 DEF RelayMerge, Owe, HandlerDone, Control, lockVars
<1>12. CASE RelayEnqueue(c) BY <1>12 DEF RelayEnqueue, HandlerDone, Control, lockVars
<1>13. CASE RelayEnter(c) BY <1>13 DEF RelayEnter, Owe, HandlerDone, Control, lockVars
<1>14. ASSUME NEW g \in Gate, Raise(c, g) PROVE TypeOK' BY <1>14 DEF Raise, lockVars
<1>15. ASSUME NEW g \in Gate, Interrupt(c, g) PROVE TypeOK' BY <1>15 DEF Interrupt, lockVars
<1>16. ASSUME NEW g \in Gate, InterruptOnly(c, g) PROVE TypeOK' BY <1>16 DEF InterruptOnly, lockVars
<1>. QED
  BY <1>1, <1>2, <1>3, <1>4, <1>5, <1>6, <1>7, <1>8, <1>9, <1>10, <1>11, <1>12, <1>13,
     <1>14, <1>15, <1>16 DEF Steps, Step

\* The lock sees a step of FifoLock or none.
LEMMA LockStep == ASSUME IInv, NEW c \in CPU, Steps(c) PROVE Ordered'
<1>. USE DEF IInv, TypeOK
<1>1. LockInv
  BY DEF LockInv
<1>2. Request(c) \/ Acquire(c) \/ Release(c) \/ UNCHANGED lockVars
  BY DEF Steps, Step, EnterDisable, EnterMark, LockTicket, LockTaken, LeaveDisable,
     LeaveDequeue, LeaveEpilogue, LeaveUnlock, LeaveClear, RelayMark, RelayMerge,
     RelayEnqueue, RelayEnter, Raise, Interrupt, InterruptOnly
<1>. QED
  BY <1>1, <1>2, RequestKeepsOrder, AcquireKeepsOrder, ReleaseKeepsOrder
  DEF LockInv, lockVars, Ordered

LEMMA ControlStep == ASSUME IInv, NEW c \in CPU, Steps(c) PROVE Control'
<1>. USE GuardAssumption DEF IInv, TypeOK, LockTypeOK, Phase, PC, Handler, Control, InKernel
<1>1. CASE EnterDisable(c) BY <1>1 DEF EnterDisable, At, lockVars
<1>2. CASE EnterMark(c) BY <1>2 DEF EnterMark, At, lockVars
<1>3. CASE LockTicket(c) BY <1>3 DEF LockTicket, Request, At, lockVars
<1>4. CASE LockTaken(c) BY <1>4 DEF LockTaken, Acquire, At, lockVars
<1>5. CASE LeaveDisable(c) BY <1>5 DEF LeaveDisable, At, lockVars
<1>6. CASE LeaveDequeue(c) BY <1>6 DEF LeaveDequeue, At, lockVars
<1>7. CASE LeaveEpilogue(c) BY <1>7 DEF LeaveEpilogue, At, lockVars
<1>8. CASE LeaveUnlock(c) BY <1>8 DEF LeaveUnlock, Release, At, lockVars
<1>9. CASE LeaveClear(c) BY <1>9 DEF LeaveClear, At, lockVars
<1>10. CASE RelayMark(c) BY <1>10 DEF RelayMark, lockVars
<1>11. CASE RelayMerge(c) BY <1>11 DEF RelayMerge, HandlerDone, lockVars
<1>12. CASE RelayEnqueue(c) BY <1>12 DEF RelayEnqueue, HandlerDone, lockVars
<1>13. CASE RelayEnter(c) BY <1>13 DEF RelayEnter, HandlerDone, lockVars
<1>14. ASSUME NEW g \in Gate, Raise(c, g) PROVE Control' BY <1>14 DEF Raise, lockVars
<1>15. ASSUME NEW g \in Gate, Interrupt(c, g) PROVE Control' BY <1>15 DEF Interrupt, lockVars
<1>16. ASSUME NEW g \in Gate, InterruptOnly(c, g) PROVE Control' BY <1>16 DEF InterruptOnly, lockVars
<1>. QED
  BY <1>1, <1>2, <1>3, <1>4, <1>5, <1>6, <1>7, <1>8, <1>9, <1>10, <1>11, <1>12, <1>13,
     <1>14, <1>15, <1>16 DEF Steps, Step

LEMMA DrainedStep == ASSUME IInv, NEW c \in CPU, Steps(c) PROVE Drained'
<1>. USE DEF IInv, TypeOK, PC, Drained, Control
<1>1. CASE LeaveDequeue(c) BY <1>1 DEF LeaveDequeue, At
<1>2. CASE LeaveUnlock(c) BY <1>2 DEF LeaveUnlock, At
<1>3. CASE RelayEnqueue(c) BY <1>3 DEF RelayEnqueue
<1>4. CASE /\ UNCHANGED queue
           /\ \A d \in CPU : pc'[d] \in {"unlocked", "thread", "enter"}
                             => pc[d] \in {"unlocked", "thread", "enter"}
  BY <1>4
<1>. QED
  BY <1>1, <1>2, <1>3, <1>4
  DEF Steps, Step, EnterDisable, EnterMark, LockTicket, LockTaken, LeaveDisable,
     LeaveEpilogue, LeaveClear, RelayMark, RelayMerge,
     RelayEnter, Raise, Interrupt, InterruptOnly, At

\* A step that moves no gate between its places preserves OnePlace.
LEMMA OnePlaceUndisturbed ==
  ASSUME OnePlace, UNCHANGED <<queue, in_queue>>,
         \A d \in CPU, g \in Gate : InHand(d, g)' <=> InHand(d, g)
  PROVE  OnePlace'
<1>1. \A d \in CPU, g \in Gate : /\ Waits(d, g)' <=> Waits(d, g)
                                 /\ Has(d, g)' <=> Has(d, g)
  BY DEF Waits, Has
<1>. QED BY <1>1 DEF OnePlace

\* The gates of one CPU's queue, after a step that changes that queue only.
LEMMA OtherQueues ==
  ASSUME TypeOK, NEW c \in CPU, NEW q, queue' = [queue EXCEPT ![c] = q]
  PROVE  /\ queue'[c] = q
         /\ \A d \in CPU : d # c => queue'[d] = queue[d]
         /\ \A g : Waits(c, g)' <=> Contains(q, g)
         /\ \A d \in CPU : d # c => \A g : Waits(d, g)' <=> Waits(d, g)
  BY DEF TypeOK, Waits

LEMMA OnePlaceStep == ASSUME IInv, NEW c \in CPU, Steps(c) PROVE OnePlace'
<1>. USE DEF IInv
<1>1. CASE LeaveDequeue(c)
  <2>. DEFINE h == Head(queue[c])
  <2>1. /\ pc[c] = "leave" /\ handler[c] = "none" /\ queue[c] \in Seq(Gate) /\ queue[c] # <<>>
        /\ queue' = [queue EXCEPT ![c] = Tail(queue[c])] /\ in_queue' = in_queue
        /\ \A d \in CPU : d # c => pc'[d] = pc[d] /\ item'[d] = item[d]
        /\ pc'[c] = "dequeued" /\ item'[c] = h /\ handler' = handler /\ irq' = irq
    BY <1>1 DEF LeaveDequeue, At, TypeOK
  <2>2. /\ h \in Gate /\ Waits(c, h) /\ IsInjective(Tail(queue[c]))
        /\ \A g : Contains(Tail(queue[c]), g) <=> Waits(c, g) /\ g # h
    BY <2>1, InTail DEF OnePlace, Waits
  <2>3. /\ \A g : Waits(c, g)' <=> Waits(c, g) /\ g # h
        /\ \A d \in CPU : d # c => \A g : Waits(d, g)' <=> Waits(d, g)
        /\ \A d \in CPU : IsInjective(queue'[d])
    <3>1. /\ queue'[c] = Tail(queue[c])
          /\ \A d \in CPU : d # c => queue'[d] = queue[d]
          /\ \A g : Waits(c, g)' <=> Contains(Tail(queue[c]), g)
          /\ \A d \in CPU : d # c => \A g : Waits(d, g)' <=> Waits(d, g)
      BY <2>1, OtherQueues
    <3>2. ASSUME NEW d \in CPU PROVE IsInjective(queue'[d])
      BY <3>1, <2>2 DEF OnePlace
    <3>. QED BY <3>1, <3>2, <2>2
  <2>4. /\ \A g \in Gate : ~ InHand(c, g) /\ (InHand(c, g)' <=> g = h)
        /\ \A d \in CPU : d # c => \A g \in Gate : InHand(d, g)' <=> InHand(d, g)
    BY <2>1 DEF InHand
  <2>5. \A d \in CPU, g \in Gate : Has(d, g)' <=> Has(d, g)
    BY <2>2, <2>3, <2>4 DEF Has
  <2>6. \A d \in CPU, g \in Gate : ~ (Waits(d, g)' /\ InHand(d, g)')
    BY <2>3, <2>4 DEF OnePlace
  <2>. QED BY <2>1, <2>3, <2>5, <2>6 DEF OnePlace
<1>2. CASE LeaveEpilogue(c)
  <2>1. /\ pc[c] = "dequeued" /\ handler[c] = "none" /\ item[c] \in Gate
        /\ in_queue' = [in_queue EXCEPT ![item[c]] = FALSE]
        /\ \A d \in CPU : d # c => pc'[d] = pc[d]
        /\ pc'[c] = "section" /\ queue' = queue /\ handler' = handler /\ irq' = irq
        /\ item' = item
    BY <1>2 DEF LeaveEpilogue, At, TypeOK, Control
  <2>2. /\ \A g \in Gate : ~ InHand(c, g)' /\ (InHand(c, g) <=> g = item[c])
        /\ \A d \in CPU : d # c => \A g \in Gate : InHand(d, g)' <=> InHand(d, g)
        /\ \A d \in CPU, g \in Gate : Waits(d, g)' <=> Waits(d, g)
    BY <2>1 DEF InHand, Waits
  <2>a. Has(c, item[c]) /\ ~ Waits(c, item[c])
    BY <2>1, <2>2 DEF Has, OnePlace
  <2>b. \A d \in CPU : d # c => ~ Has(d, item[c])
    BY <2>1, <2>a DEF OnePlace
  <2>3. \A d \in CPU, g \in Gate : Has(d, g)' <=> Has(d, g) /\ g # item[c]
    BY <2>1, <2>2, <2>a, <2>b DEF Has
  <2>4. \A g \in Gate : in_queue'[g] <=> in_queue[g] /\ g # item[c]
    BY <2>1 DEF TypeOK
  <2>. QED BY <2>1, <2>2, <2>3, <2>4 DEF OnePlace
<1>3. CASE RelayMark(c)
  <2>1. /\ handler[c] = "relay" /\ irq[c] \in Gate /\ pc[c] # "dequeued"
        /\ ~ in_queue[irq[c]] /\ in_queue' = [in_queue EXCEPT ![irq[c]] = TRUE]
        /\ \A d \in CPU : d # c => handler'[d] = handler[d]
        /\ handler'[c] = "enqueue" /\ queue' = queue /\ pc' = pc /\ irq' = irq
        /\ item' = item
    BY <1>3 DEF RelayMark, TypeOK, Control
  <2>2. /\ \A g \in Gate : ~ InHand(c, g) /\ (InHand(c, g)' <=> g = irq[c])
        /\ \A d \in CPU : d # c => \A g \in Gate : InHand(d, g)' <=> InHand(d, g)
        /\ \A d \in CPU, g \in Gate : Waits(d, g)' <=> Waits(d, g)
    BY <2>1 DEF InHand, Waits
  <2>3. \A d \in CPU : ~ Has(d, irq[c])
    BY <2>1 DEF OnePlace
  <2>4. \A d \in CPU, g \in Gate : Has(d, g)' <=> Has(d, g) \/ (d = c /\ g = irq[c])
    BY <2>2 DEF Has
  <2>5. \A g \in Gate : in_queue'[g] <=> in_queue[g] \/ g = irq[c]
    BY <2>1 DEF TypeOK
  <2>6. \A d \in CPU, g \in Gate : ~ (Waits(d, g)' /\ InHand(d, g)')
    BY <2>2, <2>3 DEF OnePlace, Has
  <2>. QED BY <2>1, <2>3, <2>4, <2>5, <2>6 DEF OnePlace
<1>4. CASE RelayEnqueue(c)
  <2>1. /\ handler[c] = "enqueue" /\ irq[c] \in Gate /\ pc[c] # "dequeued"
        /\ queue[c] \in Seq(Gate) /\ queue' = [queue EXCEPT ![c] = Append(queue[c], irq[c])]
        /\ \A d \in CPU : d # c => handler'[d] = handler[d] /\ irq'[d] = irq[d]
        /\ handler'[c] = "none" /\ in_queue' = in_queue /\ pc' = pc /\ item' = item
    BY <1>4 DEF RelayEnqueue, HandlerDone, TypeOK, Control
  <2>2. InHand(c, irq[c]) /\ ~ Waits(c, irq[c])
    BY <2>1 DEF InHand, OnePlace
  <2>3. /\ IsInjective(Append(queue[c], irq[c]))
        /\ \A g : Contains(Append(queue[c], irq[c]), g) <=> Waits(c, g) \/ g = irq[c]
    BY <2>1, <2>2, InAppend, UniqueAppend DEF OnePlace, Waits
  <2>a. /\ queue'[c] = Append(queue[c], irq[c])
        /\ \A d \in CPU : d # c => queue'[d] = queue[d]
        /\ \A g : Waits(c, g)' <=> Contains(Append(queue[c], irq[c]), g)
        /\ \A d \in CPU : d # c => \A g : Waits(d, g)' <=> Waits(d, g)
    BY <2>1, OtherQueues
  <2>4. /\ \A g : Waits(c, g)' <=> Waits(c, g) \/ g = irq[c]
        /\ \A d \in CPU : d # c => \A g : Waits(d, g)' <=> Waits(d, g)
        /\ \A d \in CPU : IsInjective(queue'[d])
    BY <2>a, <2>3 DEF OnePlace
  <2>5. /\ \A g \in Gate : ~ InHand(c, g)' /\ (InHand(c, g) <=> g = irq[c])
        /\ \A d \in CPU : d # c => \A g \in Gate : InHand(d, g)' <=> InHand(d, g)
    BY <2>1 DEF InHand
  <2>6. \A d \in CPU, g \in Gate : Has(d, g)' <=> Has(d, g)
    BY <2>4, <2>5 DEF Has
  <2>7. \A d \in CPU, g \in Gate : ~ (Waits(d, g)' /\ InHand(d, g)')
    BY <2>4, <2>5 DEF OnePlace
  <2>. QED BY <2>1, <2>4, <2>6, <2>7 DEF OnePlace
<1>5. CASE /\ UNCHANGED <<queue, in_queue>>
           /\ \A d \in CPU, g \in Gate : InHand(d, g)' <=> InHand(d, g)
  BY <1>5, OnePlaceUndisturbed
<1>. USE DEF InHand, At, TypeOK, PC
<1>6. CASE EnterDisable(c) \/ EnterMark(c) \/ LockTicket(c)
  BY <1>5, <1>6 DEF EnterDisable, EnterMark, LockTicket
<1>7. CASE LockTaken(c) \/ LeaveUnlock(c) \/ LeaveClear(c)
  BY <1>5, <1>7 DEF LockTaken, LeaveUnlock, LeaveClear
<1>8. CASE LeaveDisable(c)
  BY <1>5, <1>8 DEF LeaveDisable
<1>9. CASE RelayMerge(c) \/ RelayEnter(c)
  BY <1>5, <1>9 DEF RelayMerge, RelayEnter, HandlerDone, Control
<1>10. ASSUME NEW g \in Gate, Raise(c, g) \/ Interrupt(c, g) \/ InterruptOnly(c, g)
       PROVE  OnePlace'
  BY <1>5, <1>10 DEF Raise, Interrupt, InterruptOnly, Control
<1>. QED
  BY <1>1, <1>2, <1>3, <1>4, <1>6, <1>7, <1>8, <1>9, <1>10 DEF Steps, Step

\* A gate that is queued or in hand stays so until leave() clears its in_queue.
LEMMA HasKept ==
  ASSUME IInv, NEW c \in CPU, Steps(c), NEW d \in CPU, NEW g \in Gate, Has(d, g),
         ~ (LeaveEpilogue(c) /\ g = item[c])
  PROVE  Has(d, g)'
<1>. USE DEF IInv
<1>1. CASE LeaveDequeue(c)
  <2>1. queue[c] \in Seq(Gate) /\ queue[c] # <<>> /\ IsInjective(queue[c])
    BY <1>1 DEF LeaveDequeue, OnePlace, TypeOK
  <2>2. /\ Waits(c, g)' <=> Waits(c, g) /\ g # Head(queue[c])
        /\ d # c => (Waits(d, g)' <=> Waits(d, g))
    <3>1. queue' = [queue EXCEPT ![c] = Tail(queue[c])]
      BY <1>1 DEF LeaveDequeue
    <3>2. /\ Waits(c, g)' <=> Contains(Tail(queue[c]), g)
          /\ d # c => (Waits(d, g)' <=> Waits(d, g))
      BY <3>1, OtherQueues
    <3>3. Contains(Tail(queue[c]), g) <=> Contains(queue[c], g) /\ g # Head(queue[c])
      BY ONLY <2>1, InTail
    <3>. QED  BY <3>2, <3>3 DEF Waits
  <2>3. /\ pc[c] = "leave" /\ handler[c] = "none"
        /\ \A x \in CPU : x # c => pc'[x] = pc[x] /\ item'[x] = item[x]
        /\ pc'[c] = "dequeued" /\ item'[c] = Head(queue[c]) /\ handler' = handler /\ irq' = irq
    BY <1>1 DEF LeaveDequeue, TypeOK, At
  <2>4. (g = Head(queue[c]) => InHand(c, g)') /\ ~ InHand(c, g)
    BY <2>3 DEF InHand
  <2>5. d # c => (InHand(d, g)' <=> InHand(d, g))
    BY <2>3 DEF InHand
  <2>6. CASE d = c
    BY <2>2, <2>4, <2>6 DEF Has
  <2>7. CASE d # c
    BY <2>2, <2>5, <2>7 DEF Has
  <2>. QED BY <2>6, <2>7
<1>2. CASE RelayEnqueue(c)
  <2>1. queue[c] \in Seq(Gate) /\ irq[c] \in Gate /\ pc[c] # "dequeued"
    BY <1>2 DEF RelayEnqueue, TypeOK, Control
  <2>2. Contains(Append(queue[c], irq[c]), g) <=> Contains(queue[c], g) \/ g = irq[c]
    BY <2>1, InAppend
  <2>3. queue' = [queue EXCEPT ![c] = Append(queue[c], irq[c])]
    BY <1>2 DEF RelayEnqueue
  <2>4. /\ Waits(c, g)' <=> Contains(Append(queue[c], irq[c]), g)
        /\ d # c => (Waits(d, g)' <=> Waits(d, g))
    BY <2>3, OtherQueues
  <2>5. (InHand(c, g) => g = irq[c]) /\ (d # c => (InHand(d, g)' <=> InHand(d, g)))
    BY <1>2, <2>1 DEF RelayEnqueue, HandlerDone, InHand, TypeOK
  <2>. QED BY <2>2, <2>4, <2>5 DEF Has, Waits
<1>3. CASE queue' = queue /\ (InHand(d, g) => InHand(d, g)')
  BY <1>3 DEF Has, Waits
<1>. USE DEF InHand, At, TypeOK, PC, Control
<1>4. CASE LeaveEpilogue(c)
  BY <1>3, <1>4 DEF LeaveEpilogue
<1>5. CASE EnterDisable(c) \/ EnterMark(c) \/ LockTicket(c) \/ LockTaken(c)
  BY <1>3, <1>5 DEF EnterDisable, EnterMark, LockTicket, LockTaken
<1>6. CASE LeaveDisable(c) \/ LeaveUnlock(c) \/ LeaveClear(c)
  BY <1>3, <1>6 DEF LeaveDisable, LeaveUnlock, LeaveClear
<1>7. CASE RelayMark(c) \/ RelayMerge(c) \/ RelayEnter(c)
  BY <1>3, <1>7 DEF RelayMark, RelayMerge, RelayEnter, HandlerDone
<1>8. ASSUME NEW h \in Gate, Raise(c, h) \/ Interrupt(c, h) \/ InterruptOnly(c, h)
      PROVE  Has(d, g)'
  BY <1>3, <1>8 DEF Raise, Interrupt, InterruptOnly
<1>. QED
  BY <1>1, <1>2, <1>4, <1>5, <1>6, <1>7, <1>8 DEF Steps, Step

\* What NoRequestLost says of one gate.
Cared(g) ==
  \/ \E d \in CPU : Has(d, g)
  \/ \E d \in CPU : pc[d] \in {"lock", "spin"} /\ item[d] = g

LEMMA NoRequestLostStep == ASSUME IInv, NEW c \in CPU, Steps(c) PROVE NoRequestLost'
<1>. USE DEF IInv, TypeOK, Control, At
<1>. SUFFICES ASSUME NEW e \in CPU, NEW g \in owed'[e], g \in Gate PROVE Cared(g)'
  <2>1. TypeOK'
    BY TypeStep
  <2>2. \A e \in CPU : owed'[e] \subseteq Gate
    BY <2>1
  <2>3. NoRequestLost' <=> \A e \in CPU : \A g \in owed'[e] : Cared(g)'
    BY DEF NoRequestLost, Cared
  <2>. QED BY <2>2, <2>3
<1>1. g \in owed[e] => Cared(g)
  BY DEF NoRequestLost, Cared
<1>2. CASE /\ g \in owed[e]
           /\ ~ (LeaveEpilogue(c) /\ g = item[c])
           /\ \A d \in CPU : pc[d] \in {"lock", "spin"} /\ item[d] = g
                             => pc'[d] \in {"lock", "spin"} /\ item'[d] = g
  <2>1. CASE \E d \in CPU : Has(d, g)
    BY <1>2, <2>1, HasKept DEF Cared
  <2>2. CASE \E d \in CPU : pc[d] \in {"lock", "spin"} /\ item[d] = g
    BY <1>2, <2>2 DEF Cared
  <2>. QED BY <1>1, <1>2, <2>1, <2>2 DEF Cared
<1>3. CASE LeaveEpilogue(c)
  BY <1>2, <1>3 DEF LeaveEpilogue, EpilogueBegins
<1>4. CASE LockTaken(c)
  BY <1>2, <1>4 DEF LockTaken, EpilogueBegins, LeaveEpilogue
<1>5. CASE RelayMark(c)
  <2>1. CASE g = irq[c]
    BY <1>5, <2>1 DEF RelayMark, Cared, Has, InHand
  <2>2. CASE g # irq[c]
    BY <1>2, <1>5, <2>2 DEF RelayMark, Owe, LeaveEpilogue
  <2>. QED BY <2>1, <2>2
<1>6. CASE RelayMerge(c)
  <2>1. CASE g = irq[c]
    <3>1. PICK d \in CPU : Has(d, g)
      BY <1>6, <2>1 DEF RelayMerge, OnePlace
    <3>2. ~ LeaveEpilogue(c)
      BY <1>6 DEF RelayMerge, LeaveEpilogue
    <3>. QED BY <3>1, <3>2, HasKept DEF Cared
  <2>2. CASE g # irq[c]
    BY <1>2, <1>6, <2>2 DEF RelayMerge, Owe, LeaveEpilogue
  <2>. QED BY <2>1, <2>2
<1>7. CASE RelayEnter(c)
  <2>1. CASE g = irq[c]
    BY <1>7, <2>1 DEF RelayEnter, Cared
  <2>2. CASE g # irq[c]
    BY <1>2, <1>7, <2>2 DEF RelayEnter, Owe, LeaveEpilogue
  <2>. QED BY <2>1, <2>2
<1>8. CASE EnterDisable(c) \/ EnterMark(c) \/ LockTicket(c)
  BY <1>2, <1>8 DEF EnterDisable, EnterMark, LockTicket, LeaveEpilogue
<1>9. CASE LeaveDisable(c) \/ LeaveDequeue(c) \/ LeaveUnlock(c) \/ LeaveClear(c)
  BY <1>2, <1>9 DEF LeaveDisable, LeaveDequeue, LeaveUnlock, LeaveClear, LeaveEpilogue
<1>10. CASE RelayEnqueue(c)
  BY <1>2, <1>10 DEF RelayEnqueue, LeaveEpilogue
<1>11. ASSUME NEW h \in Gate, Raise(c, h) \/ Interrupt(c, h) \/ InterruptOnly(c, h)
       PROVE  Cared(g)'
  BY <1>2, <1>11 DEF Raise, Interrupt, InterruptOnly, LeaveEpilogue
<1>. QED
  BY <1>3, <1>4, <1>5, <1>6, <1>7, <1>8, <1>9, <1>10, <1>11 DEF Steps, Step

LEMMA Inductive == IInv /\ [Next]_vars => IInv'
<1>1. ASSUME IInv, NEW c \in CPU, Steps(c) PROVE IInv'
  BY <1>1, TypeStep, LockStep, ControlStep, DrainedStep, OnePlaceStep, NoRequestLostStep DEF IInv
<1>2. ASSUME IInv, UNCHANGED vars PROVE IInv'
  BY <1>2
  DEF vars, lockVars, guardVars, IInv, TypeOK, LockTypeOK, Ordered, Control, InKernel, Drained,
      OnePlace, NoRequestLost, Has, Waits, InHand
<1>3. Next => \E c \in CPU : Steps(c)
  BY DEF Next, Steps
<1>. QED BY <1>1, <1>2, <1>3

LEMMA InvariantHolds == Spec => []IInv
  BY InitHolds, Inductive, PTL DEF Spec

-----------------------------------------------------------------------------
(* The theorems                                                            *)

\* The variables of the guard have their types.
THEOREM GuardTypeCorrect == Spec => []TypeOK
<1>1. IInv => TypeOK
  BY DEF IInv
<1>. QED BY <1>1, InvariantHolds, PTL

\* Secure sections and epilogues of all CPUs are serialised, whether the CPU
\* came in through enter() or through relay().
THEOREM EpiloguesAreSerialised == Spec => []EpiloguesExclusive
<1>1. IInv => EpiloguesExclusive
  <2>1. IInv => Exclusive
    BY OrderedExcludes DEF IInv, TypeOK, LockInv
  <2>. QED BY <2>1 DEF IInv, Control, Exclusive, EpiloguesExclusive
<1>. QED BY <1>1, InvariantHolds, PTL

\* set_queued and set_dequeued keep the single link of a gate in one queue,
\* although they run outside the big kernel lock and on different CPUs.
THEOREM GatesHaveOnePlace == Spec => []OnePlace
<1>1. IInv => OnePlace
  BY DEF IInv
<1>. QED BY <1>1, InvariantHolds, PTL

\* leave() never goes while its queue has an epilogue.
THEOREM NoEpilogueLeftBehind == Spec => []NoneLeftBehind
<1>1. IInv => NoneLeftBehind
  BY DEF IInv, TypeOK, PC, Control, Drained, NoneLeftBehind
<1>. QED BY <1>1, InvariantHolds, PTL

\* A request that relay() merged with an older one is still covered by it: no
\* interrupt's request for an epilogue is lost.
THEOREM RequestsAreKept == Spec => []NoRequestLost
<1>1. IInv => NoRequestLost
  BY DEF IInv
<1>. QED BY <1>1, InvariantHolds, PTL

=============================================================================
