--------------------------- MODULE MCTimerManager ---------------------------
(* Small instances of TimerManager for TLC. *)
EXTENDS TimerManager, TLC

CONSTANTS t1, t2, u1, u2, p1, p2

Symmetry == Permutations(User) \cup Permutations(Poller)
=============================================================================
