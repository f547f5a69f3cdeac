---------------------------- MODULE MCIOManager ----------------------------
(* IOManager on small instances: threads and descriptors are model values.  *)
EXTENDS IOManager, TLC

CONSTANTS t1, t2, fd1, fd2

Sym == Permutations(Threads) \cup Permutations(Fds)
=============================================================================
