------------------------------- MODULE Guard -------------------------------
(***************************************************************************)
(* guard/guard.cc, guard/gate.h, guard/guardian.cc, guard/secure.h: the    *)
(* prologue/epilogue model.  Threads enter the kernel with guard.enter()   *)
(* and leave it with guard.leave(); an interrupt runs a prologue and then  *)
(* relay()s the gate, whose epilogue runs at once when the CPU is at       *)
(* thread level and is queued on this CPU otherwise.                       *)
(*                                                                         *)
(* The model follows CPUs, not threads: a thread that blocks inside the    *)
(* kernel hands its CPU to another one, and every way a thread continues   *)
(* (the end of a Secure section, of an epilogue, kickoff of a new thread)  *)
(* leads to the loop of guard.leave() on whatever CPU it is then on.       *)
(*                                                                         *)
(* bkl is the FifoLock that machine/ticketlock.h implements.               *)
(***************************************************************************)
EXTENDS FifoLock, Integers, SequencesExt

CONSTANTS Gate,      \* the interrupt gates (watch, keyboard, assassin, ...)
          NoGate,    \* no gate
          MaxIrqs    \* bound: interrupts raised per CPU in one behaviour

ASSUME GuardAssumption ==
  /\ NoGate \notin Gate
  /\ MaxIrqs \in Nat

VARIABLES
  in_epilogue,  \* in_epilogue[CPU_MAX]
  queue,        \* queue[CPU_MAX], the epilogues put off on each CPU
  in_queue,     \* Gate::in_queue, set by set_queued
  ints,         \* interrupt flag of each CPU
  pc,           \* what each CPU does below its interrupt handler
  item,         \* gate whose epilogue that is, or NoGate for a thread
  handler,      \* where the interrupt handler on top of it is
  irq,          \* gate of that handler
  irr,          \* interrupts pending at each local APIC
  raised,       \* interrupts raised so far, per CPU
  owed          \* auxiliary: requests relayed on each CPU since which no
                \* epilogue of that gate has begun

guardVars == <<in_epilogue, queue, in_queue, ints, pc, item, handler, irq, irr, raised, owed>>
vars == <<lockVars, guardVars>>

PC == {"thread", "enter", "lock", "spin", "section", "leave", "dequeued", "unlocked"}
Handler == {"none", "relay", "enqueue"}

Init ==
  /\ LockInit
  /\ in_epilogue = [c \in CPU |-> FALSE]
  /\ queue = [c \in CPU |-> <<>>]
  /\ in_queue = [g \in Gate |-> FALSE]
  /\ ints = [c \in CPU |-> TRUE]
  /\ pc = [c \in CPU |-> "thread"]
  /\ item = [c \in CPU |-> NoGate]
  /\ handler = [c \in CPU |-> "none"]
  /\ irq = [c \in CPU |-> NoGate]
  /\ irr = [c \in CPU |-> {}]
  /\ raised = [c \in CPU |-> 0]
  /\ owed = [c \in CPU |-> {}]

\* The code below the interrupt handler only runs when no handler does.
At(c, where) == pc[c] = where /\ handler[c] = "none"

\* The epilogue of g begins: nothing is owed for g any more.
EpilogueBegins(g) == owed' = [c \in CPU |-> owed[c] \ {g}]

-----------------------------------------------------------------------------
(* The kernel entered from thread level: Guard::enter                      *)

\* enter(): CPU::disable_int()
EnterDisable(c) ==
  /\ At(c, "thread")
  /\ ints' = [ints EXCEPT ![c] = FALSE]
  /\ pc' = [pc EXCEPT ![c] = "enter"]
  /\ UNCHANGED <<lockVars, in_epilogue, queue, in_queue, item, handler, irq, irr, raised, owed>>

\* enter(): in_epilogue[...] = true; CPU::enable_int()
EnterMark(c) ==
  /\ At(c, "enter")
  /\ in_epilogue' = [in_epilogue EXCEPT ![c] = TRUE]
  /\ ints' = [ints EXCEPT ![c] = TRUE]
  /\ pc' = [pc EXCEPT ![c] = "lock"]
  /\ UNCHANGED <<lockVars, queue, in_queue, item, handler, irq, irr, raised, owed>>

\* bkl.lock(), from enter() or relay(): take a ticket ...
LockTicket(c) ==
  /\ At(c, "lock")
  /\ Request(c)
  /\ pc' = [pc EXCEPT ![c] = "spin"]
  /\ UNCHANGED <<in_epilogue, queue, in_queue, ints, item, handler, irq, irr, raised, owed>>

\* ... and spin.  What follows is the Secure section, or the epilogue that
\* relay() was called for.
LockTaken(c) ==
  /\ At(c, "spin")
  /\ Acquire(c)
  /\ pc' = [pc EXCEPT ![c] = "section"]
  /\ EpilogueBegins(item[c])
  /\ UNCHANGED <<in_epilogue, queue, in_queue, ints, item, handler, irq, irr, raised>>

-----------------------------------------------------------------------------
(* The kernel left: Guard::leave                                           *)

\* A faulty form of LeaveDisable: the loop runs with interrupts enabled.
LeaveNotDisabled(c) ==
  /\ At(c, "section")
  /\ pc' = [pc EXCEPT ![c] = "leave"]
  /\ item' = [item EXCEPT ![c] = NoGate]
  /\ UNCHANGED <<lockVars, in_epilogue, queue, in_queue, ints, handler, irq, irr, raised, owed>>

\* The section or epilogue is over.  leave(): CPU::disable_int(), both before
\* the loop and at the end of its body.
LeaveDisable(c) ==
  /\ At(c, "section")
  /\ ints' = [ints EXCEPT ![c] = FALSE]
  /\ pc' = [pc EXCEPT ![c] = "leave"]
  /\ item' = [item EXCEPT ![c] = NoGate]
  /\ UNCHANGED <<lockVars, in_epilogue, queue, in_queue, handler, irq, irr, raised, owed>>

\* leave(): g = queue[...].dequeue() finds a gate.
LeaveDequeue(c) ==
  /\ At(c, "leave")
  /\ queue[c] # <<>>
  /\ item' = [item EXCEPT ![c] = Head(queue[c])]
  /\ queue' = [queue EXCEPT ![c] = Tail(@)]
  /\ pc' = [pc EXCEPT ![c] = "dequeued"]
  /\ UNCHANGED <<lockVars, in_epilogue, in_queue, ints, handler, irq, irr, raised, owed>>

\* leave(): g->set_dequeued(); CPU::enable_int(); g->epilogue() begins.
LeaveEpilogue(c) ==
  /\ At(c, "dequeued")
  /\ in_queue' = [in_queue EXCEPT ![item[c]] = FALSE]
  /\ ints' = [ints EXCEPT ![c] = TRUE]
  /\ pc' = [pc EXCEPT ![c] = "section"]
  /\ EpilogueBegins(item[c])
  /\ UNCHANGED <<lockVars, in_epilogue, queue, item, handler, irq, irr, raised>>

\* A faulty form of LeaveUnlock: the lock is given back by nobody.
LeaveStillLocked(c) ==
  /\ At(c, "leave")
  /\ queue[c] = <<>>
  /\ pc' = [pc EXCEPT ![c] = "unlocked"]
  /\ phase' = [phase EXCEPT ![c] = "out"]
  /\ UNCHANGED <<ahead, in_epilogue, queue, in_queue, ints, item, handler, irq, irr, raised, owed>>

\* leave(): the queue is empty; bkl.unlock()
LeaveUnlock(c) ==
  /\ At(c, "leave")
  /\ queue[c] = <<>>
  /\ Release(c)
  /\ pc' = [pc EXCEPT ![c] = "unlocked"]
  /\ UNCHANGED <<in_epilogue, queue, in_queue, ints, item, handler, irq, irr, raised, owed>>

\* A faulty form of LeaveClear: in_epilogue stays set.
LeaveKeepMark(c) ==
  /\ At(c, "unlocked")
  /\ ints' = [ints EXCEPT ![c] = TRUE]
  /\ pc' = [pc EXCEPT ![c] = "thread"]
  /\ UNCHANGED <<lockVars, in_epilogue, queue, in_queue, item, handler, irq, irr, raised, owed>>

\* leave(): in_epilogue[...] = false; CPU::enable_int()
LeaveClear(c) ==
  /\ At(c, "unlocked")
  /\ in_epilogue' = [in_epilogue EXCEPT ![c] = FALSE]
  /\ ints' = [ints EXCEPT ![c] = TRUE]
  /\ pc' = [pc EXCEPT ![c] = "thread"]
  /\ UNCHANGED <<lockVars, queue, in_queue, item, handler, irq, irr, raised, owed>>

-----------------------------------------------------------------------------
(* Interrupts: guardian and Guard::relay                                   *)

\* A device or another CPU (an IPI) raises g at the local APIC of c, which
\* remembers one interrupt per vector.
Raise(c, g) ==
  /\ raised[c] < MaxIrqs
  /\ raised' = [raised EXCEPT ![c] = @ + 1]
  /\ irr' = [irr EXCEPT ![c] = @ \cup {g}]
  /\ UNCHANGED <<lockVars, in_epilogue, queue, in_queue, ints, pc, item, handler, irq, owed>>

\* guardian(): the CPU takes the interrupt, g->prologue() runs and asks for
\* the epilogue; ackIRQ.
Interrupt(c, g) ==
  /\ ints[c]
  /\ g \in irr[c]
  /\ irr' = [irr EXCEPT ![c] = @ \ {g}]
  /\ ints' = [ints EXCEPT ![c] = FALSE]
  /\ handler' = [handler EXCEPT ![c] = "relay"]
  /\ irq' = [irq EXCEPT ![c] = g]
  /\ UNCHANGED <<lockVars, in_epilogue, queue, in_queue, pc, item, raised, owed>>

\* guardian(): g->prologue() returns false, and the handler is done.
InterruptOnly(c, g) ==
  /\ ints[c]
  /\ g \in irr[c]
  /\ irr' = [irr EXCEPT ![c] = @ \ {g}]
  /\ UNCHANGED <<lockVars, in_epilogue, queue, in_queue, ints, pc, item, handler, irq, raised, owed>>

Owe(c, g) == owed' = [owed EXCEPT ![c] = @ \cup {g}]

\* The handler is over, or becomes a kernel entry: interrupts are enabled again,
\* by iret or by enable_int().
HandlerDone(c) ==
  /\ ints' = [ints EXCEPT ![c] = TRUE]
  /\ handler' = [handler EXCEPT ![c] = "none"]
  /\ irq' = [irq EXCEPT ![c] = NoGate]

\* Faulty forms of RelayMark: without the flag, and with the flag's old value
\* read the way the comment at gate.h:65 describes it.
RelayUnmarked(c) ==
  /\ handler[c] = "relay" /\ in_epilogue[c]
  /\ in_queue' = [in_queue EXCEPT ![irq[c]] = TRUE]
  /\ handler' = [handler EXCEPT ![c] = "enqueue"]
  /\ Owe(c, irq[c])
  /\ UNCHANGED <<lockVars, in_epilogue, queue, pc, item, irr, raised, ints, irq>>
RelayMarkInverted(c) ==
  /\ handler[c] = "relay" /\ in_epilogue[c]
  /\ ~ in_queue[irq[c]]
  /\ in_queue' = [in_queue EXCEPT ![irq[c]] = TRUE]
  /\ HandlerDone(c)
  /\ Owe(c, irq[c])
  /\ UNCHANGED <<lockVars, in_epilogue, queue, pc, item, irr, raised>>

\* relay(), inside the kernel: set_queued() finds the flag clear and sets it.
RelayMark(c) ==
  /\ handler[c] = "relay" /\ in_epilogue[c]
  /\ ~ in_queue[irq[c]]
  /\ in_queue' = [in_queue EXCEPT ![irq[c]] = TRUE]
  /\ handler' = [handler EXCEPT ![c] = "enqueue"]
  /\ Owe(c, irq[c])
  /\ UNCHANGED <<lockVars, in_epilogue, queue, pc, item, irr, raised, ints, irq>>

\* relay(), inside the kernel: set_queued() finds the flag set, and the request
\* goes into the one that set it.
RelayMerge(c) ==
  /\ handler[c] = "relay" /\ in_epilogue[c]
  /\ in_queue[irq[c]]
  /\ Owe(c, irq[c])
  /\ HandlerDone(c)
  /\ UNCHANGED <<lockVars, in_epilogue, queue, in_queue, pc, item, irr, raised>>

\* relay(), inside the kernel: queue[id].enqueue(item)
RelayEnqueue(c) ==
  /\ handler[c] = "enqueue"
  /\ queue' = [queue EXCEPT ![c] = Append(@, irq[c])]
  /\ HandlerDone(c)
  /\ UNCHANGED <<lockVars, in_epilogue, in_queue, pc, item, irr, raised, owed>>

\* A faulty form of RelayEnter: the epilogue does not wait for the lock.
RelayUnlocked(c) ==
  /\ handler[c] = "relay" /\ ~ in_epilogue[c]
  /\ in_epilogue' = [in_epilogue EXCEPT ![c] = TRUE]
  /\ item' = [item EXCEPT ![c] = irq[c]]
  /\ pc' = [pc EXCEPT ![c] = "section"]
  /\ HandlerDone(c)
  /\ UNCHANGED <<lockVars, queue, in_queue, irr, raised, owed>>

\* relay(), at thread level: in_epilogue[id] = true; CPU::enable_int(), and on
\* to bkl.lock().  From here the handler is the CPU's kernel entry.
RelayEnter(c) ==
  /\ handler[c] = "relay" /\ ~ in_epilogue[c]
  /\ in_epilogue' = [in_epilogue EXCEPT ![c] = TRUE]
  /\ item' = [item EXCEPT ![c] = irq[c]]
  /\ pc' = [pc EXCEPT ![c] = "lock"]
  /\ HandlerDone(c)
  /\ Owe(c, irq[c])
  /\ UNCHANGED <<lockVars, queue, in_queue, irr, raised>>

-----------------------------------------------------------------------------

\* What a CPU does once it has left thread level or taken an interrupt.
Step(c) ==
  \/ EnterMark(c) \/ LockTicket(c) \/ LockTaken(c)
  \/ LeaveDisable(c) \/ LeaveDequeue(c) \/ LeaveEpilogue(c) \/ LeaveUnlock(c) \/ LeaveClear(c)
  \/ RelayMark(c) \/ RelayMerge(c) \/ RelayEnqueue(c) \/ RelayEnter(c)

Next ==
  \E c \in CPU :
    \/ EnterDisable(c)
    \/ Step(c)
    \/ \E g \in Gate : Raise(c, g) \/ Interrupt(c, g) \/ InterruptOnly(c, g)

Spec == Init /\ [][Next]_vars

\* A CPU executes its instructions, and Secure sections and epilogues end.
\* Nobody has to enter the kernel and no interrupt has to come.  That only
\* MaxIrqs interrupts come is part of this: a CPU that is interrupted for ever
\* never gets to the end of the loop in leave().
Fairness == \A c \in CPU : WF_vars(Step(c))

FairSpec == Spec /\ Fairness

-----------------------------------------------------------------------------

TypeOK ==
  /\ LockTypeOK
  /\ in_epilogue \in [CPU -> BOOLEAN]
  /\ queue \in [CPU -> Seq(Gate)]
  /\ in_queue \in [Gate -> BOOLEAN]
  /\ ints \in [CPU -> BOOLEAN]
  /\ pc \in [CPU -> PC]
  /\ item \in [CPU -> Gate \cup {NoGate}]
  /\ handler \in [CPU -> Handler]
  /\ irq \in [CPU -> Gate \cup {NoGate}]
  /\ irr \in [CPU -> SUBSET Gate]
  /\ raised \in [CPU -> 0 .. MaxIrqs]
  /\ owed \in [CPU -> SUBSET Gate]

InKernel(c) == pc[c] \in {"section", "leave", "dequeued"}

\* Epilogues and Secure sections are serialised: no two CPUs are in the kernel
\* between bkl.lock() and bkl.unlock(), whoever came in through enter() and
\* whoever through relay().
EpiloguesExclusive == \A c, d \in CPU : InKernel(c) /\ InKernel(d) => c = d

\* Gate g waits in c's queue; and c has it in hand, between set_queued and
\* enqueue or between dequeue and set_dequeued.
Waits(c, g) == Contains(queue[c], g)
InHand(c, g) ==
  \/ handler[c] = "enqueue" /\ irq[c] = g
  \/ pc[c] = "dequeued" /\ item[c] = g
Has(c, g) == Waits(c, g) \/ InHand(c, g)

\* A gate has a single link, so it is never twice in the queues: not twice in
\* one, not in those of two CPUs, and not in one while a CPU has it in hand.
\* in_queue says exactly whether it is somewhere, although it is set and
\* cleared outside the lock and by different CPUs.
OnePlace ==
  /\ \A c \in CPU : IsInjective(queue[c])
  /\ \A c \in CPU, g \in Gate : ~ (Waits(c, g) /\ InHand(c, g))
  /\ \A c, d \in CPU, g \in Gate : Has(c, g) /\ Has(d, g) => c = d
  /\ \A g \in Gate : in_queue[g] <=> \E c \in CPU : Has(c, g)

\* leave() drains its queue before it goes: no epilogue is put off on a CPU
\* that is no longer in the kernel, where nothing would run it.
NoneLeftBehind == \A c \in CPU : ~ in_epilogue[c] => queue[c] = <<>>

\* No request is lost: as long as no epilogue of g has begun since an interrupt
\* asked for it, g is queued, in hand, or the CPU that took the interrupt is on
\* its way to the epilogue.
NoRequestLost ==
  \A c \in CPU : \A g \in owed[c] :
    \/ \E d \in CPU : Has(d, g)
    \/ \E d \in CPU : pc[d] \in {"lock", "spin"} /\ item[d] = g

\* Every epilogue that an interrupt asked for begins, on some CPU.
EveryRequestServed == \A c \in CPU, g \in Gate : g \in owed[c] ~> g \notin owed[c]

\* A CPU that has entered the kernel gets back to thread level, so that no CPU
\* waits for the lock, or runs epilogues, for ever.
KernelIsLeft == \A c \in CPU : pc[c] # "thread" ~> pc[c] = "thread"

=============================================================================
