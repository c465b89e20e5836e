--------------------------- MODULE MCFileAppender ---------------------------
(* Instance of FileAppender for TLC. *)
EXTENDS FileAppender

CONSTANTS t1, t2

MCThreads == {t1, t2}
MCContract == Clauses
=============================================================================
