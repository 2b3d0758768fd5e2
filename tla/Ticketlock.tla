----------------------------- MODULE Ticketlock -----------------------------
(***************************************************************************)
(* machine/ticketlock.h: the lock behind the guard.  `t' is the ticket     *)
(* dispenser, `l' the number being served; both are uint8_t and wrap.      *)
(* Modulus stands for 2^8, so that a small instance wraps as well.         *)
(* unlock() is `l++' on a volatile byte: a load and a store.               *)
(***************************************************************************)
EXTENDS Integers, FiniteSets

CONSTANTS CPU,      \* the CPUs that use the lock, at most CPU_MAX = 8
          Modulus   \* number of values of a uint8_t

ASSUME TicketAssumption ==
  /\ IsFiniteSet(CPU)
  /\ Modulus \in Nat \ {0}
  /\ Cardinality(CPU) <= Modulus

VARIABLES l,      \* number being served
          t,      \* next ticket
          old,    \* local variable of lock(), per CPU
          seen,   \* value of l that l++ loaded, per CPU
          pc      \* where each CPU is

vars == <<l, t, old, seen, pc>>

Ticket == 0 .. Modulus - 1

\* x + 1 in uint8_t.
Succ(x) == IF x = Modulus - 1 THEN 0 ELSE x + 1

Init ==
  /\ l = 0
  /\ t = 0
  /\ old = [c \in CPU |-> 0]
  /\ seen = [c \in CPU |-> 0]
  /\ pc = [c \in CPU |-> "out"]

\* lock(): uint8_t old = __sync_fetch_and_add(&t, 1)
TakeTicket(c) ==
  /\ pc[c] = "out"
  /\ old' = [old EXCEPT ![c] = t]
  /\ t' = Succ(t)
  /\ pc' = [pc EXCEPT ![c] = "spin"]
  /\ UNCHANGED <<l, seen>>

\* Faulty forms of Enter: waiting with l < old, and a lock that lets in any
\* spinning CPU once it is free.
EnterAtLeast(c) ==
  /\ pc[c] = "spin"
  /\ l >= old[c]
  /\ pc' = [pc EXCEPT ![c] = "inside"]
  /\ UNCHANGED <<l, t, old, seen>>
EnterUnordered(c) ==
  /\ pc[c] = "spin"
  /\ \A d \in CPU : pc[d] \notin {"inside", "unlock"}
  /\ pc' = [pc EXCEPT ![c] = "inside"]
  /\ UNCHANGED <<l, t, old, seen>>

\* lock(): the iteration of while (l != old) that ends it.
Enter(c) ==
  /\ pc[c] = "spin"
  /\ l = old[c]
  /\ pc' = [pc EXCEPT ![c] = "inside"]
  /\ UNCHANGED <<l, t, old, seen>>

\* unlock(): the load of l++.
UnlockLoad(c) ==
  /\ pc[c] = "inside"
  /\ seen' = [seen EXCEPT ![c] = l]
  /\ pc' = [pc EXCEPT ![c] = "unlock"]
  /\ UNCHANGED <<l, t, old>>

\* unlock(): the store of l++.
UnlockStore(c) ==
  /\ pc[c] = "unlock"
  /\ l' = Succ(seen[c])
  /\ pc' = [pc EXCEPT ![c] = "out"]
  /\ UNCHANGED <<t, old, seen>>

Next == \E c \in CPU : TakeTicket(c) \/ Enter(c) \/ UnlockLoad(c) \/ UnlockStore(c)

Spec == Init /\ [][Next]_vars

\* A CPU that spins keeps reading l, and whoever holds the lock leaves its
\* critical section; nobody has to ask for the lock.
Fairness ==
  \A c \in CPU : WF_vars(Enter(c)) /\ WF_vars(UnlockLoad(c)) /\ WF_vars(UnlockStore(c))

FairSpec == Spec /\ Fairness

-----------------------------------------------------------------------------

TypeOK ==
  /\ l \in Ticket
  /\ t \in Ticket
  /\ old \in [CPU -> Ticket]
  /\ seen \in [CPU -> Ticket]
  /\ pc \in [CPU -> {"out", "spin", "inside", "unlock"}]

Queued == {c \in CPU : pc[c] # "out"}
Holding(c) == pc[c] \in {"inside", "unlock"}

\* How many unlocks away ticket x is from being served.
Distance(x) == IF x >= l THEN x - l ELSE x - l + Modulus

\* The ticket that is n unlocks away, for n up to Modulus.
After(n) == IF l + n < Modulus THEN l + n ELSE l + n - Modulus

\* lock() and unlock() bracket a critical section: two CPUs are never between
\* them together, however often the 8-bit counters have wrapped.
MutualExclusion == \A c, d \in CPU : Holding(c) /\ Holding(d) => c = d

\* The inductive invariant: the tickets handed out and not yet served are the
\* next Cardinality(Queued) numbers from l on, each held once.
TicketsConsecutive ==
  /\ \A c \in Queued : Distance(old[c]) < Cardinality(Queued)
  /\ \A c, d \in Queued : old[c] = old[d] => c = d
  /\ t = After(Cardinality(Queued))
  /\ \A c \in CPU : Holding(c) => old[c] = l
  /\ \A c \in CPU : pc[c] = "unlock" => seen[c] = l

\* The lock is first come, first served: it implements FifoLock, where the
\* CPUs ahead of c are those whose ticket is served earlier.
Fifo == INSTANCE FifoLock WITH
  phase <- [c \in CPU |-> CASE pc[c] = "out"  -> "out"
                            [] pc[c] = "spin" -> "waiting"
                            [] OTHER          -> "inside"],
  ahead <- [c \in CPU |-> IF pc[c] = "spin"
                          THEN {d \in Queued : Distance(old[d]) < Distance(old[c])}
                          ELSE {}]

ImplementsFifoLock == Fifo!LockSpec

\* Every CPU that calls lock() gets the lock.
StarvationFree == \A c \in CPU : pc[c] = "spin" ~> pc[c] = "inside"

=============================================================================
