------------------------------ MODULE MCLogger ------------------------------
(* Instance of Logger for TLC: the root and one more logger, the root's
   appender and one more, two threads. *)
EXTENDS Logger, TLC

CONSTANTS t1, t2, root, l1, out, a1, f0, f1

MCThreads == {t1, t2}
MCLoggers == {root, l1}
MCAppenders == {out, a1}
MCFormats == {f0, f1}
MCContract == Clauses
=============================================================================
