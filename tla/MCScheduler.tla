---------------------------- MODULE MCScheduler ----------------------------
(* Small instances of Scheduler for TLC. *)
EXTENDS Scheduler

CONSTANTS w1, w2, main, c1, c2, k1, k2, f1, f2

\* Threads, coroutines and functions of one kind are interchangeable as long
\* as the pins do not tell the threads apart.
Symmetry == Permutations(UserCor) \cup Permutations(CbCor) \cup Permutations(Callback)
=============================================================================
