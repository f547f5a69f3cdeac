---------------------------- MODULE MCScheduler ----------------------------
(* Scheduler on small instances: the constants of the runs are model values *)
(* given in the .cfg files, and the sets of them that are alike.            *)
EXTENDS Scheduler, TLC

CONSTANTS w1, w2, f1, f2, f3, j1, j2, j3

SymObjects == Permutations(Fibers) \cup Permutations(Jobs)
SymAll == SymObjects \cup Permutations(Workers)
=============================================================================
