---------------------------- MODULE MCScopedLock ----------------------------
(* Instance of ScopedLock for TLC: three threads and three guards on one
   read-write lock, whose write side acts as the exclusive locks do. *)
EXTENDS ScopedLock, TLC

CONSTANTS t1, t2, t3, g1, g2, g3

MCThreads == {t1, t2, t3}
MCGuards == {g1, g2, g3}
MCContract == Clauses
Symmetry == Permutations(MCThreads) \cup Permutations(MCGuards)
=============================================================================
