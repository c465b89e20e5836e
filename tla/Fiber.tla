------------------------------- MODULE Fiber -------------------------------
(***************************************************************************)
(* The fiber runtime of sylar/fiber.h and sylar/fiber.cc: stackful         *)
(* coroutines on ucontext, switched by hand between a thread's main fiber  *)
(* and worker fibers, with no lock and no scheduler.                       *)
(*                                                                         *)
(* A fiber object is its own identity: a worker is a member of Fibers, the *)
(* main fiber of thread t is written t.  The same names stand for the      *)
(* stacks: a worker's malloc'ed stack, and the thread's native stack.      *)
(* `running' says on which stack a thread executes, `pc' where the code on *)
(* a stack stands, and m_ctx[o] which stack's suspended execution the      *)
(* ucontext of object o holds.  A saved context is good for one resumption:*)
(* it is Null while the stack it described is executing again.             *)
(*                                                                         *)
(* The code checks little of what it needs from its callers.  What it      *)
(* needs is the set Clauses; a specification is checked under the caller   *)
(* contract Contract, a subset of it.                                      *)
(***************************************************************************)
EXTENDS Integers, FiniteSets

CONSTANTS
  Threads,    \* OS threads, and their main fibers
  Fibers,     \* worker fiber objects (addresses: reused after destruction)
  Null,       \* nullptr; in m_ctx, "holds no resumable execution"
  Contract    \* what callers respect

Clauses ==
  { "main_first",     \* GetThis() before the thread's first swapIn
    "from_main",      \* swapIn only from the thread's main fiber
    "unfinished",     \* no swapIn of a fiber that returned or threw
    "exclusive",      \* one thread at a time between swapIn and its return
    "worker_yields",  \* YieldTo* only inside a worker fiber
    "reset_done",     \* reset only of a fiber not started, or finished
    "finish_first" }  \* last reference dropped before start or after the end

ASSUME FiberAssumption ==
  /\ Threads \cap Fibers = {}
  /\ IsFiniteSet(Threads \cup Fibers)
  /\ Null \notin Threads \cup Fibers
  /\ Contract \subseteq Clauses

Objects == Threads \cup Fibers
Finished == {"TERM", "EXCEPT"}
State == {"INIT", "HOLD", "EXEC", "READY"} \cup Finished

VARIABLES
  m_state,        \* State of each fiber object, "NONE" when there is no object
  m_ctx,          \* the stack saved in the object's ucontext_t, or Null
  t_fiber,        \* thread_local: the current fiber, a raw pointer
  t_threadFiber,  \* thread_local: the thread's main fiber, or Null
  s_fiber_count,  \* live fiber objects
  running,        \* the stack each thread executes on
  pc,             \* where the code on each stack stands
  held,           \* some shared_ptr outside the fiber's own stack exists
  aborted         \* "no", or why the process died

vars == <<m_state, m_ctx, t_fiber, t_threadFiber, s_fiber_count, running, pc,
          held, aborted>>

Where == {"none", "entry", "run", "swapin", "yield", "finish", "final",
          "never", "exited"}
Reasons == {"no", "assert swapIn", "assert reset", "assert ~Fiber",
            "never reach", "null main fiber", "freed fiber", "stale context",
            "stack in use"}

TypeOK ==
  /\ m_state \in [Objects -> State \cup {"NONE"}]
  /\ m_ctx \in [Objects -> Objects \cup {Null}]
  /\ t_fiber \in [Threads -> Objects \cup {Null}]
  /\ t_threadFiber \in [Threads -> Threads \cup {Null}]
  /\ s_fiber_count \in Nat
  /\ running \in [Threads -> Objects]
  /\ pc \in [Objects -> Where]
  /\ held \in [Fibers -> BOOLEAN]
  /\ aborted \in Reasons

Init ==
  /\ m_state = [o \in Objects |-> "NONE"]
  /\ m_ctx = [o \in Objects |-> Null]
  /\ t_fiber = [t \in Threads |-> Null]
  /\ t_threadFiber = [t \in Threads |-> Null]
  /\ s_fiber_count = 0
  /\ running = [t \in Threads |-> t]
  /\ pc = [o \in Objects |-> IF o \in Threads THEN "run" ELSE "none"]
  /\ held = [f \in Fibers |-> FALSE]
  /\ aborted = "no"

----------------------------------------------------------------------------
(* Callers.                                                                *)

Demand(clause, P) == clause \in Contract => P

(* Client code runs on the stack of thread t. *)
InClient(t) == aborted = "no" /\ pc[running[t]] = "run"

(* Some thread is between swapIn's SetThis and the switch back. *)
InUse(f) == \E t \in Threads : t_fiber[t] = f \/ running[t] = f

(* Fault: MainFunc leaves for good without cur.reset(). *)
SelfRefForever(f) ==
  pc[f] \in {"run", "swapin", "yield", "finish", "final", "never"}

(* MainFunc's local `cur', and that of a YieldTo* frame below it, own the
   fiber from its own stack until cur.reset(). *)
SelfRef(f) == pc[f] \in {"run", "swapin", "yield", "finish"}

----------------------------------------------------------------------------
(* swapcontext(&into->m_ctx, &from->m_ctx) on thread t: save the running
   stack, resume the other. *)
Switch(t, into, from) ==
  LET saved == [m_ctx EXCEPT ![into] = running[t]]
      next  == saved[from]
  IN  IF next = Null
      THEN /\ aborted' = "stale context"
           /\ UNCHANGED <<m_ctx, running>>
      ELSE /\ running' = [running EXCEPT ![t] = next]
           /\ m_ctx' = [o \in Objects |->
                          IF saved[o] = next THEN Null ELSE saved[o]]
           /\ aborted' = IF pc[next] = "never" THEN "never reach" ELSE aborted

(* GetThis(): the current fiber; the first call of a thread constructs its
   main fiber with the default constructor. *)
Cur(t) == IF t_fiber[t] = Null THEN t ELSE t_fiber[t]

EnsureMain(t) ==
  IF t_fiber[t] = Null
  THEN /\ t_fiber' = [t_fiber EXCEPT ![t] = t]
       /\ t_threadFiber' = [t_threadFiber EXCEPT ![t] = t]
       /\ s_fiber_count' = s_fiber_count + 1
  ELSE UNCHANGED <<t_fiber, t_threadFiber, s_fiber_count>>

GetThis(t) ==
  /\ InClient(t)
  /\ EnsureMain(t)
  /\ m_state' = IF t_fiber[t] = Null
                THEN [m_state EXCEPT ![t] = "EXEC"] ELSE m_state
  /\ UNCHANGED <<m_ctx, running, pc, held, aborted>>

(* Fault: the constructor does not count the fiber. *)
NewFiberUncounted(t, f) ==
  /\ InClient(t)
  /\ m_state[f] = "NONE" /\ \A u \in Threads : running[u] # f
  /\ m_state' = [m_state EXCEPT ![f] = "INIT"]
  /\ m_ctx' = [m_ctx EXCEPT ![f] = f]
  /\ pc' = [pc EXCEPT ![f] = "entry"]
  /\ held' = [held EXCEPT ![f] = TRUE]
  /\ UNCHANGED <<t_fiber, t_threadFiber, s_fiber_count, running, aborted>>

(* Fiber(cb, stacksize): a stack of its own and a context that will enter
   MainFunc on it. *)
NewFiber(t, f) ==
  /\ InClient(t)
  /\ m_state[f] = "NONE" /\ \A u \in Threads : running[u] # f
  /\ m_state' = [m_state EXCEPT ![f] = "INIT"]
  /\ m_ctx' = [m_ctx EXCEPT ![f] = f]
  /\ pc' = [pc EXCEPT ![f] = "entry"]
  /\ s_fiber_count' = s_fiber_count + 1
  /\ held' = [held EXCEPT ![f] = TRUE]
  /\ UNCHANGED <<t_fiber, t_threadFiber, running, aborted>>

(* Fault: reset does not call makecontext. *)
ResetStateOnly(t, f) ==
  /\ InClient(t) /\ held[f]
  /\ Demand("exclusive", ~InUse(f))
  /\ Demand("reset_done", m_state[f] \in Finished \cup {"INIT"})
  /\ m_state' = [m_state EXCEPT ![f] = "INIT"]
  /\ UNCHANGED <<m_ctx, pc, t_fiber, t_threadFiber, s_fiber_count, running,
                 held, aborted>>

(* reset(cb): a fresh context on the old stack. *)
Reset(t, f) ==
  /\ InClient(t) /\ held[f]
  /\ Demand("exclusive", ~InUse(f))
  /\ Demand("reset_done", m_state[f] \in Finished \cup {"INIT"})
  /\ IF m_state[f] \notin Finished \cup {"INIT"}
     THEN /\ aborted' = "assert reset"
          /\ UNCHANGED <<m_state, m_ctx, pc>>
     ELSE /\ m_state' = [m_state EXCEPT ![f] = "INIT"]
          /\ m_ctx' = [m_ctx EXCEPT ![f] = f]
          /\ pc' = [pc EXCEPT ![f] = "entry"]
          /\ aborted' = IF \E u \in Threads : running[u] = f
                        THEN "stack in use" ELSE aborted
  /\ UNCHANGED <<t_fiber, t_threadFiber, s_fiber_count, running, held>>

(* ~Fiber() of a worker: its stack is freed. *)
Destroy(f) ==
  /\ s_fiber_count' = s_fiber_count - 1
  /\ m_state' = [m_state EXCEPT ![f] = "NONE"]
  /\ m_ctx' = [m_ctx EXCEPT ![f] = Null]
  /\ aborted' = IF m_state[f] \in Finished \cup {"INIT"}
                THEN aborted ELSE "assert ~Fiber"

(* The last shared_ptr outside the fiber's own stack goes away. *)
Drop(t, f) ==
  /\ InClient(t) /\ held[f]
  /\ Demand("exclusive", ~InUse(f))
  /\ Demand("finish_first", m_state[f] \in Finished \cup {"INIT"})
  /\ held' = [held EXCEPT ![f] = FALSE]
  /\ IF SelfRef(f)
     THEN UNCHANGED <<m_state, m_ctx, s_fiber_count, aborted>>
     ELSE Destroy(f)
  /\ UNCHANGED <<t_fiber, t_threadFiber, running, pc>>

(* swapIn(), up to the assertion: SetThis(this) and the check of m_state. *)
SwapInCheck(t, f) ==
  /\ InClient(t) /\ held[f]
  /\ Demand("main_first", t_threadFiber[t] = t)
  /\ Demand("from_main", running[t] = t)
  /\ Demand("unfinished", m_state[f] \notin Finished)
  /\ Demand("exclusive", ~InUse(f))
  /\ t_fiber' = [t_fiber EXCEPT ![t] = f]
  /\ IF m_state[f] = "EXEC"
     THEN aborted' = "assert swapIn" /\ UNCHANGED pc
     ELSE pc' = [pc EXCEPT ![running[t]] = "swapin"] /\ UNCHANGED aborted
  /\ UNCHANGED <<m_state, m_ctx, t_threadFiber, s_fiber_count, running, held>>

(* swapIn(), the rest: m_state = EXEC and the switch.  The caller goes on
   when something switches back to its stack. *)
SwapInSwitch(t) ==
  LET f == t_fiber[t] IN
  /\ aborted = "no" /\ pc[running[t]] = "swapin"
  /\ pc' = [pc EXCEPT ![running[t]] = "run"]
  /\ m_state' = [m_state EXCEPT ![f] = IF @ = "NONE" THEN @ ELSE "EXEC"]
  /\ IF m_state[f] = "NONE"
     THEN aborted' = "freed fiber" /\ UNCHANGED <<m_ctx, running>>
     ELSE IF t_threadFiber[t] = Null
     THEN aborted' = "null main fiber" /\ UNCHANGED <<m_ctx, running>>
     ELSE Switch(t, t_threadFiber[t], f)
  /\ UNCHANGED <<t_fiber, t_threadFiber, s_fiber_count, held>>

(* Fault: a yield leaves m_state alone. *)
YieldStillExec(t, to) ==
  /\ InClient(t)
  /\ Demand("worker_yields", running[t] \in Fibers)
  /\ EnsureMain(t)
  /\ pc' = [pc EXCEPT ![running[t]] = "yield"]
  /\ UNCHANGED <<m_state, m_ctx, running, held, aborted>>

(* YieldToReady() and YieldToHold(): the state is published first ... *)
YieldState(t, to) ==
  /\ InClient(t)
  /\ Demand("worker_yields", running[t] \in Fibers)
  /\ EnsureMain(t)
  /\ m_state' = [m_state EXCEPT ![Cur(t)] = to]
  /\ pc' = [pc EXCEPT ![running[t]] = "yield"]
  /\ UNCHANGED <<m_ctx, running, held, aborted>>

(* Fault: swapOut saves into the main fiber's m_ctx. *)
SwapOutIntoMain(t, o) ==
  /\ t_fiber' = [t_fiber EXCEPT ![t] = t_threadFiber[t]]
  /\ Switch(t, t_threadFiber[t], t_threadFiber[t])

(* Fault: swapOut forgets SetThis. *)
SwapOutKeepsThis(t, o) ==
  UNCHANGED t_fiber /\ Switch(t, o, t_threadFiber[t])

(* swapOut() of object o: the main fiber is current again and resumes. *)
SwapOut(t, o) ==
  /\ t_fiber' = [t_fiber EXCEPT ![t] = t_threadFiber[t]]
  /\ Switch(t, o, t_threadFiber[t])

(* ... and only then swapOut() saves the context. *)
YieldSwitch(t) ==
  /\ aborted = "no" /\ pc[running[t]] = "yield"
  /\ pc' = [pc EXCEPT ![running[t]] = "run"]
  /\ SwapOut(t, t_fiber[t])
  /\ UNCHANGED <<m_state, t_threadFiber, s_fiber_count, held>>

(* MainFunc(): entered by the first switch to the stack. *)
MainFuncEntry(t) ==
  /\ aborted = "no" /\ pc[running[t]] = "entry"
  /\ pc' = [pc EXCEPT ![running[t]] = "run"]
  /\ UNCHANGED <<m_state, m_ctx, t_fiber, t_threadFiber, s_fiber_count,
                 running, held, aborted>>

(* MainFunc(): the callback returned (TERM) or threw (EXCEPT). *)
CallbackEnds(t, how) ==
  /\ InClient(t) /\ running[t] \in Fibers
  /\ m_state' = [m_state EXCEPT ![running[t]] = how]
  /\ pc' = [pc EXCEPT ![running[t]] = "finish"]
  /\ UNCHANGED <<m_ctx, t_fiber, t_threadFiber, s_fiber_count, running, held,
                 aborted>>

(* MainFunc(): cur.reset() gives up the fiber's reference to itself. *)
CurReset(t) ==
  LET f == running[t] IN
  /\ aborted = "no" /\ pc[f] = "finish"
  /\ pc' = [pc EXCEPT ![f] = "final"]
  /\ IF held[f]
     THEN UNCHANGED <<m_state, m_ctx, s_fiber_count, aborted>>
     ELSE Destroy(f)
  /\ UNCHANGED <<t_fiber, t_threadFiber, running, held>>

(* Fault: MainFunc falls off its end; uc_link is nullptr. *)
NoFinalSwapOut(t) ==
  /\ aborted = "no" /\ pc[running[t]] = "final"
  /\ pc' = [pc EXCEPT ![running[t]] = "exited"]
  /\ UNCHANGED <<m_state, m_ctx, t_fiber, t_threadFiber, s_fiber_count,
                 running, held, aborted>>

(* MainFunc(): raw_ptr->swapOut(), meant never to come back. *)
FinalSwapOut(t) ==
  LET f == running[t] IN
  /\ aborted = "no" /\ pc[f] = "final"
  /\ pc' = [pc EXCEPT ![f] = "never"]
  /\ IF m_state[f] = "NONE"
     THEN aborted' = "freed fiber" /\ UNCHANGED <<m_ctx, t_fiber, running>>
     ELSE SwapOut(t, f)
  /\ UNCHANGED <<m_state, t_threadFiber, s_fiber_count, held>>

(* The thread returns: its thread_local t_threadFiber is destroyed, and with
   it the main fiber. *)
ThreadExit(t) ==
  /\ InClient(t) /\ running[t] = t
  /\ pc' = [pc EXCEPT ![t] = "exited"]
  /\ IF t_threadFiber[t] = Null
     THEN UNCHANGED <<m_state, m_ctx, t_fiber, t_threadFiber, s_fiber_count,
                      aborted>>
     ELSE /\ s_fiber_count' = s_fiber_count - 1
          /\ m_state' = [m_state EXCEPT ![t] = "NONE"]
          /\ m_ctx' = [m_ctx EXCEPT ![t] = Null]
          /\ t_threadFiber' = [t_threadFiber EXCEPT ![t] = Null]
          /\ t_fiber' = [t_fiber EXCEPT ![t] = IF @ = t THEN Null ELSE @]
          /\ aborted' = IF m_state[t] = "EXEC" THEN aborted
                        ELSE "assert ~Fiber"
  /\ UNCHANGED <<running, held>>

----------------------------------------------------------------------------
CallerStep(t) ==
  \/ GetThis(t)
  \/ \E f \in Fibers : NewFiber(t, f)
  \/ \E f \in Fibers : Reset(t, f)
  \/ \E f \in Fibers : Drop(t, f)
  \/ \E f \in Fibers : SwapInCheck(t, f)
  \/ ThreadExit(t)

(* What a callback does to leave its fiber. *)
CallbackLeaves(t) ==
  \/ \E to \in {"READY", "HOLD"} : YieldState(t, to)
  \/ \E how \in Finished : CallbackEnds(t, how)

(* Steps the library takes once it was called. *)
LibraryStep(t) ==
  \/ SwapInSwitch(t)
  \/ YieldSwitch(t)
  \/ MainFuncEntry(t)
  \/ CurReset(t)
  \/ FinalSwapOut(t)

Next == \E t \in Threads : CallerStep(t) \/ CallbackLeaves(t) \/ LibraryStep(t)

Spec == Init /\ [][Next]_vars

(* A thread inside the library keeps going, and a callback eventually yields,
   returns or throws: swapIn cannot return otherwise. *)
FairSpec ==
  /\ Spec
  /\ \A t \in Threads :
       /\ WF_vars(LibraryStep(t))
       /\ WF_vars(running[t] \in Fibers /\ CallbackLeaves(t))

----------------------------------------------------------------------------
(* Properties.                                                             *)

(* No SYLAR_ASSERT of fiber.cc fires, no fiber is used after ~Fiber, and no
   stale context is resumed: the contract is all the code needs. *)
NoAbort == aborted = "no"

(* Whatever a fiber still has to do is in exactly one place: executing on one
   thread, or saved in its own m_ctx.  And while a worker executes, the
   thread's way back is in its main fiber's m_ctx (swapIn, swapOut). *)
ContinuationKept ==
  /\ \A f \in Fibers : m_state[f] # "NONE" =>
       ((m_ctx[f] = f) <=> \A t \in Threads : running[t] # f)
  /\ \A t, u \in Threads : running[t] = running[u] => t = u
  /\ \A t \in Threads : running[t] # t => m_ctx[t] = t

(* t_fiber names the fiber whose code is executing, so GetThis(), YieldTo*
   and the fiber id in a log line speak of the right fiber; between swapIn's
   SetThis and the switch it already names the next one. *)
CurrentIsRunning ==
  \A t \in Threads : pc[running[t]] # "swapin" =>
    \/ t_fiber[t] = running[t]
    \/ t_fiber[t] = Null /\ running[t] = t

(* A fiber that nobody can reach is gone with its stack: MainFunc's `cur'
   does not keep a finished fiber alive (cur.reset() before swapOut). *)
NoLeak == \A f \in Fibers : m_state[f] # "NONE" => held[f] \/ InUse(f)

Live == {o \in Objects : m_state[o] # "NONE"}

(* TotalFibers() is the number of live fiber objects, main fibers included. *)
CountIsLive == s_fiber_count = Cardinality(Live)

(* Every swapIn returns: control always comes back to the main fiber, when
   callbacks keep leaving their fibers. *)
SwapInReturns == \A t \in Threads : running[t] # t ~> running[t] = t

PhaseOf(f) ==
  IF m_state[f] = "NONE" THEN "none"
  ELSE IF \E t \in Threads : running[t] = f THEN "running"
  ELSE IF pc[f] = "entry" THEN "fresh"
  ELSE IF pc[f] = "never" THEN "done"
  ELSE "suspended"

C == INSTANCE Coroutine
       WITH phase <- [f \in Fibers |-> PhaseOf(f)],
            on <- [t \in Threads |-> IF running[t] = t THEN Null
                                     ELSE running[t]]

(* The runtime implements coroutines: a thread goes into one fiber and back
   out of it, no two threads are in one fiber, and a fiber whose MainFunc
   ended is not entered again before reset(). *)
ImplementsCoroutine == C!Spec

=============================================================================
