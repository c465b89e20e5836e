------------------------------ MODULE MCFiber ------------------------------
(* Instance of Fiber for TLC: two threads that share three worker fibers. *)
EXTENDS Fiber, TLC

CONSTANTS t1, t2, f1, f2, f3

MCThreads == {t1, t2}
MCFibers == {f1, f2, f3}
MCContract == Clauses
=============================================================================
