---------------------------- MODULE MCConfigVar -----------------------------
(* Instance of ConfigVar for TLC: two variables of one type, two threads, two
   listeners. *)
EXTENDS ConfigVar, TLC

CONSTANTS t1, t2, x1, x2, v0, v1, v2, l1, l2

MCThreads == {t1, t2}
MCVars == {x1, x2}
MCValues == {v0, v1, v2}
MCListeners == {l1, l2}
MCContract == Clauses
=============================================================================
