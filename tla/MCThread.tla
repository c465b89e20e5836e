------------------------------ MODULE MCThread ------------------------------
(* Instance of Thread for TLC: two Thread objects, whose callbacks may use the
   class themselves, and two clients. *)
EXTENDS Thread, TLC

CONSTANTS o1, o2, c1, c2

MCObjs == {o1, o2}
MCClients == {c1, c2}
MCNames == {"a", "b"}
MCContract == Clauses
=============================================================================
