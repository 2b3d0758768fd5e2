-------------------------- MODULE TicketlockProofs --------------------------
(***************************************************************************)
(* Proofs about machine/ticketlock.h, for any number of CPUs up to the     *)
(* number of tickets.                                                      *)
(***************************************************************************)
EXTENDS Ticketlock, FiniteSetTheorems, TLAPS

\* Every step keeps the types; the counters stay in the range of a uint8_t.
LEMMA TypeStep == TypeOK /\ [Next]_vars => TypeOK'
<1>. USE TicketAssumption DEF TypeOK, Ticket, Succ
<1>. SUFFICES ASSUME TypeOK, [Next]_vars PROVE TypeOK'
  OBVIOUS
<1>1. ASSUME NEW c \in CPU, TakeTicket(c) PROVE TypeOK'
  BY <1>1 DEF TakeTicket
<1>2. ASSUME NEW c \in CPU, Enter(c) PROVE TypeOK'
  BY <1>2 DEF Enter
<1>3. ASSUME NEW c \in CPU, UnlockLoad(c) PROVE TypeOK'
  BY <1>3 DEF UnlockLoad
<1>4. ASSUME NEW c \in CPU, UnlockStore(c) PROVE TypeOK'
  BY <1>4 DEF UnlockStore
<1>5. CASE UNCHANGED vars
  BY <1>5 DEF vars
<1>. QED BY <1>1, <1>2, <1>3, <1>4, <1>5 DEF Next

\* The number of queued CPUs is a natural number, at most the number of CPUs,
\* and smaller while some CPU is still outside.
LEMMA QueuedCardinality ==
  /\ IsFiniteSet(Queued)
  /\ Cardinality(Queued) \in Nat
  /\ Cardinality(Queued) <= Modulus
  /\ \A c \in CPU : pc[c] = "out" => Cardinality(Queued) < Modulus
<1>1. Queued \in SUBSET CPU
  BY DEF Queued
<1>2. IsFiniteSet(Queued) /\ Cardinality(Queued) <= Cardinality(CPU)
  BY <1>1, FS_Subset, TicketAssumption
<1>3. Cardinality(Queued) \in Nat /\ Cardinality(CPU) \in Nat
  BY <1>2, FS_CardinalityType, TicketAssumption
<1>4. ASSUME NEW c \in CPU, pc[c] = "out" PROVE Cardinality(Queued) < Modulus
  <2>1. Queued # CPU
    BY <1>4 DEF Queued
  <2>2. Cardinality(Queued) # Cardinality(CPU)
    BY <1>1, <2>1, FS_Subset, TicketAssumption
  <2>. QED BY <1>2, <1>3, <2>2, TicketAssumption
<1>. QED BY <1>2, <1>3, <1>4, TicketAssumption

\* A CPU that takes a ticket joins the queue, one that finishes its unlock
\* leaves it, and the two other steps leave the queue as it is.
LEMMA QueuedStep ==
  ASSUME TypeOK, NEW c \in CPU
  PROVE  /\ TakeTicket(c) => /\ Queued' = Queued \cup {c}
                             /\ Cardinality(Queued') = Cardinality(Queued) + 1
         /\ Enter(c) \/ UnlockLoad(c) => Queued' = Queued
         /\ UnlockStore(c) => /\ Queued' = Queued \ {c}
                              /\ Cardinality(Queued') = Cardinality(Queued) - 1
<1>1. ASSUME TakeTicket(c)
      PROVE  Queued' = Queued \cup {c} /\ Cardinality(Queued') = Cardinality(Queued) + 1
  <2>1. Queued' = Queued \cup {c} /\ c \notin Queued
    BY <1>1 DEF TakeTicket, Queued, TypeOK
  <2>. QED BY <2>1, QueuedCardinality, FS_AddElement
<1>2. ASSUME Enter(c) \/ UnlockLoad(c) PROVE Queued' = Queued
  BY <1>2 DEF Enter, UnlockLoad, Queued, TypeOK
<1>3. ASSUME UnlockStore(c)
      PROVE  Queued' = Queued \ {c} /\ Cardinality(Queued') = Cardinality(Queued) - 1
  <2>1. Queued' = Queued \ {c} /\ c \in Queued
    BY <1>3 DEF UnlockStore, Queued, TypeOK
  <2>. QED BY <2>1, QueuedCardinality, FS_RemoveElement
<1>. QED BY <1>1, <1>2, <1>3

IInv == TypeOK /\ TicketsConsecutive

\* The tickets in circulation stay consecutive, so no ticket is handed out
\* twice before the 8-bit counter has come round.
LEMMA Inductive == IInv /\ [Next]_vars => IInv'
<1>. SUFFICES ASSUME IInv, [Next]_vars, TypeOK' PROVE TicketsConsecutive'
  BY TypeStep DEF IInv
<1>. DEFINE n == Cardinality(Queued)
<1>. USE TicketAssumption, QueuedCardinality
<1>0. TypeOK /\ TicketsConsecutive
  BY DEF IInv
<1>1. ASSUME NEW c \in CPU, TakeTicket(c) PROVE TicketsConsecutive'
  <2>1. Queued' = Queued \cup {c} /\ n' = n + 1 /\ n < Modulus /\ l' = l /\ old'[c] = t
    BY <1>0, <1>1, QueuedStep DEF TakeTicket, TypeOK
  <2>2. Distance(t) = n
    BY <1>0, <2>1 DEF TicketsConsecutive, TypeOK, Ticket, Distance, After
  <2>3. \A d \in Queued : old'[d] = old[d] /\ d # c
    BY <1>0, <1>1 DEF TakeTicket, TypeOK, Queued
  <2>4. \A d \in Queued' : Distance(old[d])' < n'
    BY <1>0, <2>1, <2>2, <2>3 DEF TicketsConsecutive, TypeOK, Ticket, Distance, Queued
  <2>5. \A d, e \in Queued' : (old[d] = old[e])' => d = e
    BY <1>0, <2>1, <2>2, <2>3 DEF TicketsConsecutive
  <2>6. (t = After(n))'
    BY <1>0, <1>1, <2>1 DEF TicketsConsecutive, TypeOK, Ticket, TakeTicket, Succ, After
  <2>7. /\ \A d \in CPU : Holding(d)' => Holding(d) /\ (old[d] = l)'
        /\ \A d \in CPU : (pc[d] = "unlock")' => (seen[d] = l)'
    BY <1>0, <1>1 DEF TicketsConsecutive, TypeOK, TakeTicket, Holding
  <2>8. \A d \in CPU : Holding(d)' => (old[d] = l)'
    BY <2>7
  <2>. QED BY <2>4, <2>5, <2>6, <2>7, <2>8 DEF TicketsConsecutive
<1>2. ASSUME NEW c \in CPU, Enter(c) PROVE TicketsConsecutive'
  <2>1. Queued' = Queued /\ n' = n
    BY <1>0, <1>2, QueuedStep
  <2>. QED BY <1>0, <1>2, <2>1 DEF TicketsConsecutive, TypeOK, Enter, Holding, Distance, After
<1>3. ASSUME NEW c \in CPU, UnlockLoad(c) PROVE TicketsConsecutive'
  <2>1. Queued' = Queued /\ n' = n
    BY <1>0, <1>3, QueuedStep
  <2>. QED BY <1>0, <1>3, <2>1 DEF TicketsConsecutive, TypeOK, UnlockLoad, Holding, Distance, After
<1>4. ASSUME NEW c \in CPU, UnlockStore(c) PROVE TicketsConsecutive'
  <2>1. Queued' = Queued \ {c} /\ n' = n - 1 /\ c \in Queued
    BY <1>0, <1>4, QueuedStep DEF UnlockStore, Queued
  <2>2. old' = old /\ t' = t /\ seen' = seen /\ l' = Succ(l) /\ old[c] = l
    BY <1>0, <1>4 DEF UnlockStore, TicketsConsecutive, Holding, TypeOK
  <2>3. \A d \in Queued' : old[d] # l /\ old[d] \in Ticket /\ Distance(old[d]) < n
    BY <1>0, <2>1, <2>2 DEF TicketsConsecutive, TypeOK, Queued
  <2>4. \A d \in Queued' : Distance(old[d])' < n'
    BY <1>0, <2>1, <2>2, <2>3 DEF Distance, TypeOK, Ticket, Succ
  <2>5. \A d, e \in Queued' : (old[d] = old[e])' => d = e
    BY <1>0, <2>1, <2>2 DEF TicketsConsecutive
  <2>6. (t = After(n))'
    <3>1. n >= 1
      BY <1>0, <2>1, <2>2 DEF TicketsConsecutive, Distance, TypeOK, Ticket
    <3>. QED BY <1>0, <2>1, <2>2, <3>1 DEF TicketsConsecutive, TypeOK, Ticket, Succ, After
  <2>7. \A d \in CPU : ~ Holding(d)'
    BY <1>0, <1>4, <2>1, <2>2 DEF TicketsConsecutive, TypeOK, Holding, UnlockStore, Queued
  <2>. QED BY <2>4, <2>5, <2>6, <2>7 DEF TicketsConsecutive, Holding
<1>5. CASE UNCHANGED vars
  <2>1. Queued' = Queued
    BY <1>5 DEF vars, Queued
  <2>. QED BY <1>0, <1>5, <2>1 DEF vars, TicketsConsecutive, Holding, Distance, After
<1>. QED BY <1>1, <1>2, <1>3, <1>4, <1>5 DEF Next

LEMMA InitHolds == Init => IInv
<1>. SUFFICES ASSUME Init PROVE IInv
  OBVIOUS
<1>1. Queued = {}
  BY DEF Init, Queued
<1>2. Cardinality(Queued) = 0
  BY <1>1, FS_EmptySet
<1>3. TypeOK
  BY TicketAssumption DEF Init, TypeOK, Ticket
<1>4. TicketsConsecutive
  BY <1>1, <1>2, TicketAssumption DEF Init, TicketsConsecutive, Holding, After
<1>. QED BY <1>3, <1>4 DEF IInv

\* The variables have their types in every reachable state: l, t and every
\* ticket stay uint8_t values although lock() and l++ only ever increment.
THEOREM TypeCorrect == Spec => []TypeOK
<1>1. IInv => TypeOK
  BY DEF IInv
<1>. QED BY <1>1, InitHolds, Inductive, PTL DEF Spec

\* The tickets that are out are those from the one being served on, without a gap
\* and each once, wherever the counters wrap around.
THEOREM TicketsStayConsecutive == Spec => []TicketsConsecutive
<1>1. IInv => TicketsConsecutive
  BY DEF IInv
<1>. QED BY <1>1, InitHolds, Inductive, PTL DEF Spec

\* lock() and unlock() of the ticket lock give mutual exclusion to up to
\* Modulus CPUs, across wrap-around of both 8-bit counters.
THEOREM LockExcludes == Spec => []MutualExclusion
<1>1. IInv => MutualExclusion
  BY DEF IInv, TicketsConsecutive, MutualExclusion, Holding, Queued
<1>. QED BY <1>1, InitHolds, Inductive, PTL DEF Spec

-----------------------------------------------------------------------------

\* Names for the refinement mapping.
phaseBar == [c \in CPU |-> CASE pc[c] = "out"  -> "out"
                             [] pc[c] = "spin" -> "waiting"
                             [] OTHER          -> "inside"]
aheadBar == [c \in CPU |-> IF pc[c] = "spin"
                           THEN {d \in Queued : Distance(old[d]) < Distance(old[c])}
                           ELSE {}]

\* Taking a ticket is asking for the lock behind everybody in the queue.
LEMMA TakeTicketRefines ==
  ASSUME IInv, NEW c \in CPU, TakeTicket(c)
  PROVE  Fifo!Request(c)
<1>0. TypeOK /\ TicketsConsecutive
  BY DEF IInv
<1>1. /\ Queued' = Queued \cup {c} /\ c \notin Queued /\ l' = l /\ old'[c] = t
      /\ \A d \in Queued : old'[d] = old[d]
      /\ pc' = [pc EXCEPT ![c] = "spin"] /\ pc[c] = "out"
  BY <1>0, QueuedStep DEF TakeTicket, TypeOK, Queued
<1>2. Cardinality(Queued) \in Nat /\ Cardinality(Queued) < Modulus
  BY <1>1, QueuedCardinality
<1>3. Distance(t) = Cardinality(Queued)
  BY <1>0, <1>2, TicketAssumption DEF TicketsConsecutive, TypeOK, Ticket, Distance, After
<1>4. /\ \A d \in Queued : /\ Distance(old[d]) \in Int
                            /\ Distance(old[d]) < Distance(t)
                            /\ Distance(old[d])' = Distance(old[d])
      /\ Distance(old[c])' = Distance(t) /\ Distance(t) \in Int
  BY <1>0, <1>1, <1>2, <1>3, TicketAssumption
  DEF TicketsConsecutive, TypeOK, Ticket, Distance, Queued
<1>5. phaseBar[c] = "out" /\ phaseBar' = [phaseBar EXCEPT ![c] = "waiting"]
  BY <1>0, <1>1 DEF phaseBar, TypeOK
<1>6. aheadBar' = [aheadBar EXCEPT ![c] = {d \in CPU : phaseBar[d] # "out"}]
  <2>1. ASSUME NEW e \in CPU, e # c PROVE aheadBar'[e] = aheadBar[e]
    <3>1. CASE pc[e] # "spin"
      BY <1>0, <1>1, <2>1, <3>1 DEF aheadBar, TypeOK
    <3>2. CASE pc[e] = "spin"
      <4>1. pc'[e] = "spin" /\ e \in Queued
        BY <1>0, <1>1, <2>1, <3>2 DEF TypeOK, Queued
      <4>2. {d \in Queued' : Distance(old[d])' < Distance(old[e])'}
              = {d \in Queued : Distance(old[d]) < Distance(old[e])}
        BY <1>1, <1>4, <4>1
      <4>. QED BY <3>2, <4>1, <4>2 DEF aheadBar
    <3>. QED BY <3>1, <3>2
  <2>2. aheadBar'[c] = {d \in CPU : phaseBar[d] # "out"}
    <3>1. pc'[c] = "spin"
      BY <1>0, <1>1 DEF TypeOK
    <3>2. {d \in Queued' : Distance(old[d])' < Distance(old[c])'} = Queued
      BY <1>1, <1>4
    <3>3. Queued = {d \in CPU : phaseBar[d] # "out"}
      BY <1>0 DEF Queued, phaseBar, TypeOK
    <3>. QED BY <3>1, <3>2, <3>3 DEF aheadBar
  <2>. QED BY <2>1, <2>2 DEF aheadBar
<1>. QED BY <1>5, <1>6 DEF Fifo!Request, phaseBar, aheadBar

\* The spin loop ends exactly when nobody is ahead.
LEMMA EnterRefines ==
  ASSUME IInv, NEW c \in CPU, Enter(c)
  PROVE  Fifo!Acquire(c)
<1>0. TypeOK /\ TicketsConsecutive /\ Queued' = Queued
  BY QueuedStep DEF IInv
<1>1. /\ pc[c] = "spin" /\ old[c] = l /\ l' = l /\ old' = old
      /\ pc' = [pc EXCEPT ![c] = "inside"]
  BY DEF Enter
<1>2. \A d \in Queued : Distance(old[d]) >= 0 /\ Distance(old[d])' = Distance(old[d])
  BY <1>0, <1>1, TicketAssumption DEF TypeOK, Ticket, Distance, Queued
<1>3. Distance(old[c]) = 0
  BY <1>0, <1>1, TicketAssumption DEF TypeOK, Ticket, Distance
<1>4. aheadBar[c] = {}
  <2>1. {d \in Queued : Distance(old[d]) < Distance(old[c])} = {}
    BY <1>0, <1>2, <1>3, TicketAssumption DEF TypeOK, Ticket, Distance, Queued
  <2>. QED BY <1>1, <2>1 DEF aheadBar
<1>5. aheadBar' = aheadBar
  <2>1. ASSUME NEW e \in CPU PROVE aheadBar'[e] = aheadBar[e]
    <3>1. CASE e = c
      BY <1>0, <1>1, <1>4, <3>1 DEF aheadBar, TypeOK
    <3>2. CASE e # c
      <4>1. pc'[e] = pc[e] /\ (pc[e] = "spin" => e \in Queued)
        BY <1>0, <1>1, <3>2 DEF TypeOK, Queued
      <4>2. e \in Queued => {d \in Queued' : Distance(old[d])' < Distance(old[e])'}
                              = {d \in Queued : Distance(old[d]) < Distance(old[e])}
        BY <1>0, <1>2
      <4>. QED BY <4>1, <4>2 DEF aheadBar
    <3>. QED BY <3>1, <3>2
  <2>. QED BY <2>1 DEF aheadBar
<1>6. phaseBar[c] = "waiting" /\ phaseBar' = [phaseBar EXCEPT ![c] = "inside"]
  BY <1>0, <1>1 DEF phaseBar, TypeOK
<1>. QED BY <1>4, <1>5, <1>6 DEF Fifo!Acquire, phaseBar, aheadBar

\* The load of l++ changes nothing anybody else can see.
LEMMA UnlockLoadRefines ==
  ASSUME IInv, NEW c \in CPU, UnlockLoad(c)
  PROVE  UNCHANGED <<phaseBar, aheadBar>>
<1>0. TypeOK /\ Queued' = Queued
  BY QueuedStep DEF IInv
<1>1. /\ pc[c] = "inside" /\ l' = l /\ old' = old
      /\ pc' = [pc EXCEPT ![c] = "unlock"]
  BY DEF UnlockLoad
<1>2. phaseBar' = phaseBar
  BY <1>0, <1>1 DEF phaseBar, TypeOK
<1>3. \A x : Distance(x)' = Distance(x)
  BY <1>1 DEF Distance
<1>4. \A e \in CPU : (pc'[e] = "spin") <=> (pc[e] = "spin")
  BY <1>0, <1>1 DEF TypeOK
<1>5. aheadBar' = aheadBar
  BY <1>0, <1>1, <1>3, <1>4 DEF aheadBar, Distance
<1>. QED BY <1>2, <1>5

\* The store of l++ brings everybody who waits one place forward.
LEMMA UnlockStoreRefines ==
  ASSUME IInv, NEW c \in CPU, UnlockStore(c)
  PROVE  Fifo!Release(c)
<1>0. TypeOK /\ TicketsConsecutive /\ Queued' = Queued \ {c}
  BY QueuedStep DEF IInv
<1>1. /\ pc[c] = "unlock" /\ l' = Succ(l) /\ old' = old /\ old[c] = l
      /\ pc' = [pc EXCEPT ![c] = "out"] /\ c \in Queued
  BY <1>0 DEF UnlockStore, TicketsConsecutive, Holding, TypeOK, Queued
<1>2. \A d \in Queued : d # c => /\ Distance(old[d]) \in Nat /\ Distance(old[d]) # 0
                                 /\ Distance(old[d])' = Distance(old[d]) - 1
  BY <1>0, <1>1, TicketAssumption
  DEF TicketsConsecutive, TypeOK, Ticket, Distance, Queued, Succ
<1>3. Distance(old[c]) = 0
  BY <1>0, <1>1, TicketAssumption DEF TypeOK, Ticket, Distance
<1>4. phaseBar[c] = "inside" /\ phaseBar' = [phaseBar EXCEPT ![c] = "out"]
  BY <1>0, <1>1 DEF phaseBar, TypeOK
<1>5. ASSUME NEW e \in CPU PROVE aheadBar'[e] = aheadBar[e] \ {c}
  <2>1. CASE pc[e] # "spin"
    BY <1>0, <1>1, <2>1 DEF aheadBar, TypeOK
  <2>2. CASE pc[e] = "spin"
    <3>1. pc'[e] = "spin" /\ e \in Queued /\ e # c
      BY <1>0, <1>1, <2>2 DEF TypeOK, Queued
    <3>2. {d \in Queued' : Distance(old[d])' < Distance(old[e])'}
            = {d \in Queued : Distance(old[d]) < Distance(old[e])} \ {c}
      BY <1>0, <1>2, <3>1
    <3>. QED BY <2>2, <3>1, <3>2 DEF aheadBar
  <2>. QED BY <2>1, <2>2
<1>6. aheadBar' = [d \in CPU |-> aheadBar[d] \ {c}]
  BY <1>5 DEF aheadBar
<1>. QED BY <1>4, <1>6 DEF Fifo!Release, phaseBar, aheadBar

\* The ticket lock is a first-come-first-served lock: every behaviour of
\* lock() and unlock() on the 8-bit counters is one of FifoLock.
THEOREM TicketlockIsFifo == Spec => ImplementsFifoLock
<1>1. Init => Fifo!LockInit
  BY DEF Init, Fifo!LockInit
<1>2. IInv /\ [Next]_vars => [Fifo!LockNext]_<<phaseBar, aheadBar>>
  <2>. SUFFICES ASSUME IInv, [Next]_vars
                PROVE  Fifo!LockNext \/ UNCHANGED <<phaseBar, aheadBar>>
    OBVIOUS
  <2>1. ASSUME NEW c \in CPU, TakeTicket(c) PROVE Fifo!LockNext
    BY <2>1, TakeTicketRefines DEF Fifo!LockNext
  <2>2. ASSUME NEW c \in CPU, Enter(c) PROVE Fifo!LockNext
    BY <2>2, EnterRefines DEF Fifo!LockNext
  <2>3. ASSUME NEW c \in CPU, UnlockLoad(c) PROVE UNCHANGED <<phaseBar, aheadBar>>
    BY <2>3, UnlockLoadRefines
  <2>4. ASSUME NEW c \in CPU, UnlockStore(c) PROVE Fifo!LockNext
    BY <2>4, UnlockStoreRefines DEF Fifo!LockNext
  <2>5. CASE UNCHANGED vars
    BY <2>5 DEF vars, phaseBar, aheadBar, Queued, Distance
  <2>. QED BY <2>1, <2>2, <2>3, <2>4, <2>5 DEF Next
<1>3. [Fifo!LockNext]_<<phaseBar, aheadBar>> => [Fifo!LockNext]_Fifo!lockVars
  BY DEF Fifo!lockVars, phaseBar, aheadBar
<1>. QED BY <1>1, <1>2, <1>3, InitHolds, Inductive, PTL
     DEF Spec, ImplementsFifoLock, Fifo!LockSpec

=============================================================================
