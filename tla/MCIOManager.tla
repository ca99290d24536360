---------------------------- MODULE MCIOManager ----------------------------
(* Small instances of IOManager for TLC. *)
EXTENDS IOManager

CONSTANTS w1, w2, main, c1, c2, k1, f1, d1, d2

Symmetry == Permutations(UserCor) \cup Permutations(Worker) \cup Permutations(Fd)
=============================================================================
