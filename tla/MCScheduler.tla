---------------------------- MODULE MCScheduler ----------------------------
(* Scheduler with interchangeable CPUs, threads and mutexes, for the       *)
(* safety runs.                                                            *)
EXTENDS Scheduler

Symmetry == Permutations(CPU) \cup Permutations(Thread) \cup Permutations(Mutex)

=============================================================================
