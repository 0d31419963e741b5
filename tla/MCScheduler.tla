----------------------------- MODULE MCScheduler -----------------------------
(* Small instances of Scheduler for TLC. *)
EXTENDS Scheduler, TLC

\* Fibre objects and worker threads are interchangeable.
Symmetry == Permutations(Fibers) \cup Permutations(Threads)

ThisOrAny == Threads \cup {None}
==============================================================================
