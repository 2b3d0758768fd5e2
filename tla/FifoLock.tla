------------------------------ MODULE FifoLock ------------------------------
(***************************************************************************)
(* What the big kernel lock promises its users: at most one CPU is inside, *)
(* and CPUs get in in the order in which they asked.  It is the abstract   *)
(* specification of machine/ticketlock.h; Ticketlock.tla is shown to       *)
(* implement it, and Guard.tla uses it as the lock called bkl.             *)
(*                                                                         *)
(* The order of arrival is kept as a set per CPU: ahead[c] holds the CPUs  *)
(* that asked before c and have not left yet.                              *)
(***************************************************************************)
EXTENDS FiniteSets

CONSTANT CPU

VARIABLES phase, ahead

lockVars == <<phase, ahead>>

Phase == {"out", "waiting", "inside"}

LockTypeOK ==
  /\ phase \in [CPU -> Phase]
  /\ ahead \in [CPU -> SUBSET CPU]

LockInit ==
  /\ phase = [c \in CPU |-> "out"]
  /\ ahead = [c \in CPU |-> {}]

\* lock(), the fetch-and-add: c is now behind everybody who is in the queue.
Request(c) ==
  /\ phase[c] = "out"
  /\ phase' = [phase EXCEPT ![c] = "waiting"]
  /\ ahead' = [ahead EXCEPT ![c] = {d \in CPU : phase[d] # "out"}]

\* lock() returns: nobody who asked earlier is left.
Acquire(c) ==
  /\ phase[c] = "waiting"
  /\ ahead[c] = {}
  /\ phase' = [phase EXCEPT ![c] = "inside"]
  /\ UNCHANGED ahead

\* unlock().
Release(c) ==
  /\ phase[c] = "inside"
  /\ phase' = [phase EXCEPT ![c] = "out"]
  /\ ahead' = [d \in CPU |-> ahead[d] \ {c}]

LockNext == \E c \in CPU : Request(c) \/ Acquire(c) \/ Release(c)

LockSpec == LockInit /\ [][LockNext]_lockVars

LockFairness == \A c \in CPU : WF_lockVars(Acquire(c)) /\ WF_lockVars(Release(c))

FairLockSpec == LockSpec /\ LockFairness

-----------------------------------------------------------------------------

Exclusive == \A c, d \in CPU : phase[c] = "inside" /\ phase[d] = "inside" => c = d

\* The queue behind the sets `ahead': they only name CPUs that are queued, of
\* two queued CPUs one is ahead of the other, and the one inside is first.
Ordered ==
  /\ \A c, d \in CPU : c \in ahead[d] => phase[c] # "out" /\ phase[d] = "waiting"
  /\ \A c, d \in CPU : phase[c] # "out" /\ phase[d] # "out" /\ c # d
                         => (c \in ahead[d] <=> d \notin ahead[c])
  /\ \A c \in CPU : c \notin ahead[c]

=============================================================================
