----------------------------- MODULE Coroutine ------------------------------
(***************************************************************************)
(* What sylar/fiber.h promises, without contexts, stacks or thread-local   *)
(* pointers: a thread runs at most one coroutine, a coroutine runs on at   *)
(* most one thread, control goes from a thread to a coroutine and back to  *)
(* the same thread, and a coroutine that finished runs again only after it *)
(* was renewed.                                                            *)
(***************************************************************************)
CONSTANTS Threads, Fibers, Null

VARIABLES
  phase,   \* "none", "fresh", "running", "suspended" or "done"
  on       \* the coroutine each thread runs, or Null

cvars == <<phase, on>>

Init == phase = [f \in Fibers |-> "none"] /\ on = [t \in Threads |-> Null]

(* Fiber(cb), reset(cb) and ~Fiber(). *)
Make(f) ==
  /\ phase[f] \in {"none", "fresh", "done"}
  /\ phase' = [phase EXCEPT ![f] = "fresh"]
  /\ UNCHANGED on

Discard(f) ==
  /\ phase[f] \in {"fresh", "done"}
  /\ phase' = [phase EXCEPT ![f] = "none"]
  /\ UNCHANGED on

(* swapIn(). *)
Resume(t, f) ==
  /\ on[t] = Null /\ phase[f] \in {"fresh", "suspended"}
  /\ phase' = [phase EXCEPT ![f] = "running"]
  /\ on' = [on EXCEPT ![t] = f]

(* YieldToReady(), YieldToHold(), and the end of MainFunc(). *)
Leave(t, f, to) ==
  /\ on[t] = f /\ phase[f] = "running"
  /\ phase' = [phase EXCEPT ![f] = to]
  /\ on' = [on EXCEPT ![t] = Null]

Next ==
  \/ \E f \in Fibers : Make(f) \/ Discard(f)
  \/ \E t \in Threads, f \in Fibers : Resume(t, f)
  \/ \E t \in Threads, f \in Fibers, to \in {"suspended", "done"} :
       Leave(t, f, to)

Spec == Init /\ [][Next]_cvars
=============================================================================
