---------------------------- MODULE FiberProofs ----------------------------
(***************************************************************************)
(* Under the full caller contract the fiber runtime is safe for any number *)
(* of threads and fibers.  NoAbort is not inductive: whether an assertion  *)
(* can fire depends on where every stack stands, where its context is and  *)
(* who may still reach it.  IInv says so for each main fiber, each worker  *)
(* and each pair of threads.                                               *)
(***************************************************************************)
EXTENDS Fiber, FiniteSetTheorems, TLAPS

OnCpu(f) == \E t \in Threads : running[t] = f

(* A thread executes native code, is inside swapIn, or executes a worker. *)
ThreadInv(t) ==
  /\ running[t] \in Fibers \cup {t}
  /\ t_threadFiber[t] \in {t, Null}
  /\ m_state[t] = IF t_threadFiber[t] = t THEN "EXEC" ELSE "NONE"
  /\ pc[t] \in {"run", "swapin", "exited"}
  /\ running[t] = t => m_ctx[t] = Null
  /\ running[t] = t /\ pc[t] # "swapin" => t_fiber[t] = t_threadFiber[t]
  /\ running[t] # t => /\ t_threadFiber[t] = t
                       /\ m_ctx[t] = t
                       /\ t_fiber[t] = running[t]
                       /\ pc[t] = "run"
  /\ pc[t] = "swapin" => /\ running[t] = t
                         /\ t_threadFiber[t] = t
                         /\ t_fiber[t] \in Fibers
                         /\ m_state[t_fiber[t]] \in {"INIT", "HOLD", "READY"}
                         /\ m_ctx[t_fiber[t]] = t_fiber[t]

(* The state of a worker fixes where its stack stands and where its
   continuation is. *)
FiberInv(f) ==
  /\ held[f] <=> m_state[f] # "NONE"
  /\ m_state[f] = "NONE" => m_ctx[f] = Null /\ ~InUse(f)
  /\ m_ctx[f] = f => ~OnCpu(f)
  /\ m_state[f] = "INIT" => pc[f] = "entry" /\ m_ctx[f] = f
  /\ m_state[f] \in {"HOLD", "READY"} =>
       \/ pc[f] = "run" /\ m_ctx[f] = f
       \/ pc[f] = "yield" /\ m_ctx[f] = Null /\ OnCpu(f)
  /\ m_state[f] = "EXEC" =>
       pc[f] \in {"entry", "run"} /\ m_ctx[f] = Null /\ OnCpu(f)
  /\ m_state[f] \in Finished =>
       \/ pc[f] \in {"finish", "final"} /\ m_ctx[f] = Null /\ OnCpu(f)
       \/ pc[f] = "never" /\ m_ctx[f] = f

(* No two threads are at the same fiber. *)
Apart ==
  \A t, u \in Threads : t # u /\ t_fiber[t] # Null => t_fiber[t] # t_fiber[u]

IInv ==
  /\ TypeOK
  /\ NoAbort
  /\ CountIsLive
  /\ Apart
  /\ \A t \in Threads : ThreadInv(t)
  /\ \A f \in Fibers : FiberInv(f)

----------------------------------------------------------------------------

(* A ucontext holds the execution of its own object's stack or none. *)
LEMMA CtxOwn == ASSUME IInv PROVE \A o \in Objects : m_ctx[o] \in {o, Null}
<1>1. ASSUME NEW t \in Threads PROVE m_ctx[t] \in {t, Null}
  BY DEF IInv, ThreadInv
<1>2. ASSUME NEW f \in Fibers PROVE m_ctx[f] \in {f, Null}
  BY DEF IInv, TypeOK, FiberInv, Objects, State, Finished
<1> QED BY <1>1, <1>2 DEF Objects

(* A thread that is off its native stack executes a worker, its way back is
   saved, and the state of that worker tells how far its code has come. *)
LEMMA Executing ==
  ASSUME IInv, NEW t \in Threads, running[t] # t
  PROVE  /\ running[t] \in Fibers /\ t_fiber[t] = running[t]
         /\ t_threadFiber[t] = t /\ m_ctx[t] = t /\ pc[t] = "run"
         /\ held[running[t]] /\ m_ctx[running[t]] = Null
         /\ pc[running[t]] \in {"entry", "run"} => m_state[running[t]] = "EXEC"
         /\ pc[running[t]] = "yield" =>
              m_state[running[t]] \in {"HOLD", "READY"}
         /\ pc[running[t]] \in {"finish", "final"} =>
              m_state[running[t]] \in Finished
         /\ pc[running[t]] \in {"entry", "run", "yield", "finish", "final"}
<1> DEFINE f == running[t]
<1>1. /\ f \in Fibers /\ t_fiber[t] = f
      /\ t_threadFiber[t] = t /\ m_ctx[t] = t /\ pc[t] = "run"
  BY DEF IInv, ThreadInv
<1>2. FiberInv(f) /\ OnCpu(f) /\ InUse(f)
  BY <1>1 DEF IInv, OnCpu, InUse
<1>3. f # Null
  BY <1>1, FiberAssumption
<1>4. m_state[f] \in {"INIT", "HOLD", "EXEC", "READY", "TERM", "EXCEPT"}
  BY <1>1, <1>2 DEF IInv, TypeOK, FiberInv, Objects, State, Finished
<1> HIDE DEF f
<1>5. /\ held[f] /\ m_ctx[f] = Null
      /\ pc[f] \in {"entry", "run"} => m_state[f] = "EXEC"
      /\ pc[f] = "yield" => m_state[f] \in {"HOLD", "READY"}
      /\ pc[f] \in {"finish", "final"} => m_state[f] \in Finished
      /\ pc[f] \in {"entry", "run", "yield", "finish", "final"}
  BY <1>2, <1>3, <1>4 DEF FiberInv, Finished
<1> QED BY <1>1, <1>5 DEF f

(* Each thread is at a worker, at its own main fiber or at none, and no two
   threads execute on one stack. *)
LEMMA ThreadsApart ==
  ASSUME IInv
  PROVE  /\ \A u \in Threads : t_fiber[u] \in Fibers \cup {u, Null}
         /\ \A u, v \in Threads : running[u] = running[v] => u = v
<1>1. ASSUME NEW u \in Threads PROVE t_fiber[u] \in Fibers \cup {u, Null}
  <2>1. ThreadInv(u) BY DEF IInv
  <2>2. CASE running[u] # u BY <2>1, <2>2 DEF ThreadInv
  <2>3. CASE running[u] = u /\ pc[u] = "swapin" BY <2>1, <2>3 DEF ThreadInv
  <2>4. CASE running[u] = u /\ pc[u] # "swapin" BY <2>1, <2>4 DEF ThreadInv
  <2> QED BY <2>2, <2>3, <2>4
<1>2. ASSUME NEW u \in Threads, running[u] # u
      PROVE  running[u] \in Fibers /\ t_fiber[u] = running[u]
  BY <1>2, Executing
<1> QED BY <1>1, <1>2, FiberAssumption DEF IInv, Apart

(* swapcontext between two objects of which one executes and the other is
   saved exchanges their roles. *)
LEMMA SwitchEffect ==
  ASSUME IInv, NEW t \in Threads, NEW into \in Objects, NEW from \in Objects,
         running[t] = into, into # from, m_ctx[from] = from,
         pc[from] # "never", Switch(t, into, from)
  PROVE  /\ running' = [running EXCEPT ![t] = from]
         /\ m_ctx' = [m_ctx EXCEPT ![into] = into, ![from] = Null]
         /\ UNCHANGED aborted
<1>1. m_ctx \in [Objects -> Objects \cup {Null}] /\ Null \notin Objects
  BY FiberAssumption DEF IInv, TypeOK, Objects
<1> DEFINE saved == [m_ctx EXCEPT ![into] = running[t]]
<1>2. saved[from] = from /\ from # Null
  BY <1>1
<1>3. \A o \in Objects : saved[o] = from <=> o = from
  BY <1>1, <1>2, CtxOwn
<1>4. /\ running' = [running EXCEPT ![t] = from]
      /\ m_ctx' = [o \in Objects |-> IF saved[o] = from THEN Null ELSE saved[o]]
      /\ UNCHANGED aborted
  BY <1>2 DEF Switch
<1>5. m_ctx' = [o \in Objects |-> IF o = from THEN Null ELSE saved[o]]
  BY <1>3, <1>4
<1> QED BY <1>1, <1>4, <1>5

(* The live objects are finitely many. *)
LEMMA LiveFinite == IsFiniteSet(Live) /\ Cardinality(Live) \in Nat
BY FiberAssumption, FS_Subset, FS_CardinalityType DEF Live, Objects

(* The counter follows a step that constructs one object ... *)
LEMMA CountUp ==
  ASSUME TypeOK, CountIsLive, NEW o \in Objects, m_state[o] = "NONE",
         NEW s \in State, m_state' = [m_state EXCEPT ![o] = s],
         s_fiber_count' = s_fiber_count + 1
  PROVE  CountIsLive' /\ s_fiber_count' \in Nat
<1>1. Live' = Live \cup {o} /\ o \notin Live
  BY DEF Live, TypeOK, State, Finished
<1>2. Cardinality(Live \cup {o}) = Cardinality(Live) + 1
  BY <1>1, LiveFinite, FS_AddElement
<1> QED BY <1>1, <1>2, LiveFinite DEF CountIsLive

(* ... destroys one ... *)
LEMMA CountDown ==
  ASSUME TypeOK, CountIsLive, NEW o \in Objects, m_state[o] # "NONE",
         m_state' = [m_state EXCEPT ![o] = "NONE"],
         s_fiber_count' = s_fiber_count - 1
  PROVE  CountIsLive' /\ s_fiber_count' \in Nat
<1>1. Live' = Live \ {o} /\ o \in Live
  BY DEF Live, TypeOK
<1>2. IsFiniteSet(Live \ {o}) /\ Cardinality(Live \ {o}) = Cardinality(Live) - 1
  BY <1>1, LiveFinite, FS_RemoveElement
<1>3. Cardinality(Live \ {o}) \in Nat
  BY <1>2, FS_CardinalityType
<1> QED BY <1>1, <1>2, <1>3 DEF CountIsLive

(* ... or does neither. *)
LEMMA CountSame ==
  ASSUME TypeOK, CountIsLive, UNCHANGED s_fiber_count,
         NEW o \in Objects, m_state[o] # "NONE", NEW s \in State,
         m_state' = [m_state EXCEPT ![o] = s] \/ m_state' = m_state
  PROVE  CountIsLive' /\ s_fiber_count' \in Nat
<1>1. Live' = Live
  BY DEF Live, TypeOK, State, Finished
<1> QED BY <1>1, LiveFinite DEF CountIsLive

(* The initial state satisfies the invariant. *)
LEMMA InitInv == ASSUME Init PROVE IInv
<1> USE FiberAssumption
<1>1. TypeOK /\ NoAbort
  BY DEF Init, TypeOK, NoAbort, Objects, State, Where, Reasons
<1>2. CountIsLive
  <2>1. Live = {} BY DEF Init, Live
  <2> QED BY <2>1, FS_EmptySet DEF Init, CountIsLive
<1>3. Apart
  BY DEF Init, Apart
<1>4. \A t \in Threads : ThreadInv(t)
  BY DEF Init, ThreadInv, Objects
<1>5. \A f \in Fibers : FiberInv(f)
  BY DEF Init, FiberInv, InUse, OnCpu, Objects, Finished
<1> QED BY <1>1, <1>2, <1>3, <1>4, <1>5 DEF IInv

(* What constructing a worker fiber changes. *)
LEMMA NewFiberEffect ==
  ASSUME IInv, Contract = Clauses, NEW t \in Threads,
         NEW f \in Fibers, NewFiber(t, f)
  PROVE  /\ m_state[f] = "NONE" /\ ~OnCpu(f) /\ ~InUse(f)
         /\ m_state' = [m_state EXCEPT ![f] = "INIT"]
         /\ m_ctx' = [m_ctx EXCEPT ![f] = f]
         /\ pc' = [pc EXCEPT ![f] = "entry"]
         /\ held' = [held EXCEPT ![f] = TRUE]
         /\ s_fiber_count' = s_fiber_count + 1
         /\ UNCHANGED <<t_fiber, t_threadFiber, running, aborted>>
<1>0. TypeOK /\ NoAbort /\ CountIsLive /\ Apart /\ ThreadInv(t)
      /\ (f \in Fibers => FiberInv(f))
      /\ Threads \cap Fibers = {} /\ Null \notin Threads /\ Null \notin Fibers
  BY FiberAssumption DEF IInv
<1> QED
  BY <1>0, CtxOwn
     DEF NewFiber, InClient, NoAbort, ThreadInv, FiberInv, TypeOK, OnCpu,
     Objects, Finished, Clauses

(* ... and so it keeps the invariant. *)
LEMMA NewFiberInv ==
  ASSUME IInv, Contract = Clauses, NEW t \in Threads,
         NEW f \in Fibers, NewFiber(t, f)
  PROVE  IInv'
<1>0. TypeOK /\ NoAbort /\ CountIsLive /\ Apart /\ ThreadInv(t)
      /\ (f \in Fibers => FiberInv(f))
      /\ Threads \cap Fibers = {} /\ Null \notin Threads /\ Null \notin Fibers
  BY FiberAssumption DEF IInv
<1>1. /\ m_state[f] = "NONE" /\ ~OnCpu(f) /\ ~InUse(f)
      /\ m_state' = [m_state EXCEPT ![f] = "INIT"]
      /\ m_ctx' = [m_ctx EXCEPT ![f] = f]
      /\ pc' = [pc EXCEPT ![f] = "entry"]
      /\ held' = [held EXCEPT ![f] = TRUE]
      /\ s_fiber_count' = s_fiber_count + 1
      /\ UNCHANGED <<t_fiber, t_threadFiber, running, aborted>>
  BY NewFiberEffect
<1>2. CountIsLive' /\ s_fiber_count' \in Nat
  BY <1>0, <1>1, CountUp DEF Objects, State
<1>3. TypeOK' BY <1>0, <1>1, <1>2 DEF TypeOK, Objects, State, Where, Finished
<1>4. NoAbort' BY <1>0, <1>1 DEF NoAbort
<1>5. Apart'
  BY <1>0, <1>1 DEF Apart, ThreadInv, TypeOK, FiberInv, InUse, Objects
<1>6. ASSUME NEW u \in Threads PROVE ThreadInv(u)'
  <2>1. ThreadInv(u) BY DEF IInv
  <2> QED BY <1>0, <1>1, <2>1
     DEF ThreadInv, TypeOK, FiberInv, InUse, Apart, OnCpu, Objects, Finished
<1>7. ASSUME NEW g \in Fibers PROVE FiberInv(g)'
  <2>1. FiberInv(g) BY DEF IInv
  <2> QED BY <1>0, <1>1, <2>1
     DEF FiberInv, ThreadInv, TypeOK, OnCpu, InUse, Apart, Objects, Finished
<1> QED BY <1>2, <1>3, <1>4, <1>5, <1>6, <1>7 DEF IInv

(* Fiber::reset() changes what it should: the contract puts its assertion out of
   reach and its stack out of use. *)
LEMMA ResetEffect ==
  ASSUME IInv, Contract = Clauses, NEW t \in Threads,
         NEW f \in Fibers, Reset(t, f)
  PROVE  /\ m_state[f] \in Finished \cup {"INIT"} /\ ~InUse(f)
         /\ m_state' = [m_state EXCEPT ![f] = "INIT"]
         /\ m_ctx' = [m_ctx EXCEPT ![f] = f]
         /\ pc' = [pc EXCEPT ![f] = "entry"]
         /\ UNCHANGED <<t_fiber, t_threadFiber, s_fiber_count, running, held,
                        aborted>>
<1>0. TypeOK /\ NoAbort /\ CountIsLive /\ Apart /\ ThreadInv(t)
      /\ (f \in Fibers => FiberInv(f))
      /\ Threads \cap Fibers = {} /\ Null \notin Threads /\ Null \notin Fibers
  BY FiberAssumption DEF IInv
<1> QED
  BY <1>0, CtxOwn
     DEF Reset, InClient, Demand, InUse, NoAbort, ThreadInv, FiberInv, TypeOK,
     OnCpu, Objects, Finished, Clauses

(* ... and so it keeps the invariant. *)
LEMMA ResetInv ==
  ASSUME IInv, Contract = Clauses, NEW t \in Threads,
         NEW f \in Fibers, Reset(t, f)
  PROVE  IInv'
<1>0. TypeOK /\ NoAbort /\ CountIsLive /\ Apart /\ ThreadInv(t)
      /\ (f \in Fibers => FiberInv(f))
      /\ Threads \cap Fibers = {} /\ Null \notin Threads /\ Null \notin Fibers
  BY FiberAssumption DEF IInv
<1>1. /\ m_state[f] \in Finished \cup {"INIT"} /\ ~InUse(f)
      /\ m_state' = [m_state EXCEPT ![f] = "INIT"]
      /\ m_ctx' = [m_ctx EXCEPT ![f] = f]
      /\ pc' = [pc EXCEPT ![f] = "entry"]
      /\ UNCHANGED <<t_fiber, t_threadFiber, s_fiber_count, running, held,
                     aborted>>
  BY ResetEffect
<1>2. CountIsLive' /\ s_fiber_count' \in Nat
  BY <1>0, <1>1, CountSame DEF Objects, State, Finished
<1>3. TypeOK' BY <1>0, <1>1, <1>2 DEF TypeOK, Objects, State, Where, Finished
<1>4. NoAbort' BY <1>0, <1>1 DEF NoAbort
<1>5. Apart'
  BY <1>0, <1>1 DEF Apart, ThreadInv, TypeOK, FiberInv, InUse, Objects
<1>6. ASSUME NEW u \in Threads PROVE ThreadInv(u)'
  <2>1. ThreadInv(u) BY DEF IInv
  <2> QED BY <1>0, <1>1, <2>1
     DEF ThreadInv, TypeOK, FiberInv, InUse, Apart, OnCpu, Objects, Finished
<1>7. ASSUME NEW g \in Fibers PROVE FiberInv(g)'
  <2>1. FiberInv(g) BY DEF IInv
  <2> QED BY <1>0, <1>1, <2>1
     DEF FiberInv, ThreadInv, TypeOK, OnCpu, InUse, Apart, Objects, Finished
<1> QED BY <1>2, <1>3, <1>4, <1>5, <1>6, <1>7 DEF IInv

(* Dropping the last reference destroys the fiber in a state ~Fiber accepts. *)
LEMMA DropEffect ==
  ASSUME IInv, Contract = Clauses, NEW t \in Threads,
         NEW f \in Fibers, Drop(t, f)
  PROVE  /\ m_state[f] # "NONE" /\ ~InUse(f) /\ pc[f] \in {"entry", "never"}
         /\ m_state' = [m_state EXCEPT ![f] = "NONE"]
         /\ m_ctx' = [m_ctx EXCEPT ![f] = Null]
         /\ held' = [held EXCEPT ![f] = FALSE]
         /\ s_fiber_count' = s_fiber_count - 1
         /\ UNCHANGED <<t_fiber, t_threadFiber, running, pc, aborted>>
<1>0. TypeOK /\ NoAbort /\ CountIsLive /\ Apart /\ ThreadInv(t)
      /\ (f \in Fibers => FiberInv(f))
      /\ Threads \cap Fibers = {} /\ Null \notin Threads /\ Null \notin Fibers
  BY FiberAssumption DEF IInv
<1> QED
  BY <1>0, CtxOwn
     DEF Drop, InClient, Demand, InUse, Destroy, SelfRef, NoAbort,
     ThreadInv, FiberInv, TypeOK, OnCpu, Objects, Finished, Clauses

(* ... and so it keeps the invariant. *)
LEMMA DropInv ==
  ASSUME IInv, Contract = Clauses, NEW t \in Threads,
         NEW f \in Fibers, Drop(t, f)
  PROVE  IInv'
<1>0. TypeOK /\ NoAbort /\ CountIsLive /\ Apart /\ ThreadInv(t)
      /\ (f \in Fibers => FiberInv(f))
      /\ Threads \cap Fibers = {} /\ Null \notin Threads /\ Null \notin Fibers
  BY FiberAssumption DEF IInv
<1>1. /\ m_state[f] # "NONE" /\ ~InUse(f)
      /\ m_state' = [m_state EXCEPT ![f] = "NONE"]
      /\ m_ctx' = [m_ctx EXCEPT ![f] = Null]
      /\ held' = [held EXCEPT ![f] = FALSE]
      /\ s_fiber_count' = s_fiber_count - 1
      /\ UNCHANGED <<t_fiber, t_threadFiber, running, pc, aborted>>
  BY DropEffect
<1>2. CountIsLive' /\ s_fiber_count' \in Nat
  BY <1>0, <1>1, CountDown DEF Objects
<1>3. TypeOK' BY <1>0, <1>1, <1>2 DEF TypeOK, Objects, State, Where, Finished
<1>4. NoAbort' BY <1>0, <1>1 DEF NoAbort
<1>5. Apart'
  BY <1>0, <1>1 DEF Apart, ThreadInv, TypeOK, FiberInv, InUse, Objects
<1>6. ASSUME NEW u \in Threads PROVE ThreadInv(u)'
  <2>1. ThreadInv(u) BY DEF IInv
  <2> QED BY <1>0, <1>1, <2>1
     DEF ThreadInv, TypeOK, FiberInv, InUse, Apart, OnCpu, Objects, Finished
<1>7. ASSUME NEW g \in Fibers PROVE FiberInv(g)'
  <2>1. FiberInv(g) BY DEF IInv
  <2> QED BY <1>0, <1>1, <2>1
     DEF FiberInv, ThreadInv, TypeOK, OnCpu, InUse, Apart, Objects, Finished
<1> QED BY <1>2, <1>3, <1>4, <1>5, <1>6, <1>7 DEF IInv

(* swapIn()'s assertion holds when the thread is the only one at the fiber. *)
LEMMA SwapInCheckEffect ==
  ASSUME IInv, Contract = Clauses, NEW t \in Threads,
         NEW f \in Fibers, SwapInCheck(t, f)
  PROVE  /\ running[t] = t /\ t_threadFiber[t] = t /\ pc[t] = "run"
         /\ m_state[f] \in {"INIT", "HOLD", "READY"}
         /\ m_ctx[f] = f /\ ~InUse(f)
         /\ t_fiber' = [t_fiber EXCEPT ![t] = f]
         /\ pc' = [pc EXCEPT ![t] = "swapin"]
         /\ UNCHANGED <<m_state, m_ctx, t_threadFiber, s_fiber_count, running,
                        held, aborted>>
<1>0. TypeOK /\ NoAbort /\ CountIsLive /\ Apart /\ ThreadInv(t)
      /\ (f \in Fibers => FiberInv(f))
      /\ Threads \cap Fibers = {} /\ Null \notin Threads /\ Null \notin Fibers
  BY FiberAssumption DEF IInv
<1>a. /\ running[t] = t /\ t_threadFiber[t] = t /\ pc[t] = "run"
      /\ m_state[f] \notin Finished /\ ~InUse(f) /\ held[f]
  BY <1>0 DEF SwapInCheck, Demand, Clauses, InClient
<1>b. ~OnCpu(f)
  BY <1>a DEF InUse, OnCpu
<1>c. m_state[f] \in {"INIT", "HOLD", "READY"} /\ m_ctx[f] = f
  BY <1>0, <1>a, <1>b DEF FiberInv, TypeOK, Objects, State, Finished
<1> QED
  BY <1>0, <1>a, <1>c DEF SwapInCheck

(* ... and so it keeps the invariant. *)
LEMMA SwapInCheckInv ==
  ASSUME IInv, Contract = Clauses, NEW t \in Threads,
         NEW f \in Fibers, SwapInCheck(t, f)
  PROVE  IInv'
<1>0. TypeOK /\ NoAbort /\ CountIsLive /\ Apart /\ ThreadInv(t)
      /\ (f \in Fibers => FiberInv(f))
      /\ Threads \cap Fibers = {} /\ Null \notin Threads /\ Null \notin Fibers
  BY FiberAssumption DEF IInv
<1>1. /\ running[t] = t /\ t_threadFiber[t] = t /\ pc[t] = "run"
      /\ m_state[f] \in {"INIT", "HOLD", "READY"} /\ m_ctx[f] = f /\ ~InUse(f)
      /\ t_fiber' = [t_fiber EXCEPT ![t] = f]
      /\ pc' = [pc EXCEPT ![t] = "swapin"]
      /\ UNCHANGED <<m_state, m_ctx, t_threadFiber, s_fiber_count, running,
                     held, aborted>>
  BY SwapInCheckEffect
<1>2. CountIsLive' /\ s_fiber_count' \in Nat
  BY <1>0, <1>1, CountSame DEF Objects, State, Finished
<1>3. TypeOK' BY <1>0, <1>1, <1>2 DEF TypeOK, Objects, State, Where, Finished
<1>4. NoAbort' BY <1>0, <1>1 DEF NoAbort
<1>5. Apart'
  BY <1>0, <1>1 DEF Apart, ThreadInv, TypeOK, FiberInv, InUse, Objects
<1>6. ASSUME NEW u \in Threads PROVE ThreadInv(u)'
  <2>1. ThreadInv(u) BY DEF IInv
  <2> QED BY <1>0, <1>1, <2>1
     DEF ThreadInv, TypeOK, FiberInv, InUse, Apart, OnCpu, Objects, Finished
<1>7. ASSUME NEW g \in Fibers PROVE FiberInv(g)'
  <2>1. FiberInv(g) BY DEF IInv
  <2> QED BY <1>0, <1>1, <2>1
     DEF FiberInv, ThreadInv, TypeOK, OnCpu, InUse, Apart, Objects, Finished
<1> QED BY <1>2, <1>3, <1>4, <1>5, <1>6, <1>7 DEF IInv

(* The switch into a worker finds the context that was checked. *)
LEMMA SwapInSwitchEffect ==
  ASSUME IInv, Contract = Clauses, NEW t \in Threads,
         SwapInSwitch(t)
  PROVE  LET f == t_fiber[t] IN
         /\ f \in Fibers /\ running[t] = t /\ pc[t] = "swapin"
         /\ m_state[f] \in {"INIT", "HOLD", "READY"} /\ m_ctx[f] = f
         /\ m_state' = [m_state EXCEPT ![f] = "EXEC"]
         /\ m_ctx' = [m_ctx EXCEPT ![t] = t, ![f] = Null]
         /\ pc' = [pc EXCEPT ![t] = "run"]
         /\ running' = [running EXCEPT ![t] = f]
         /\ UNCHANGED <<t_fiber, t_threadFiber, s_fiber_count, held, aborted>>
<1> DEFINE f == t_fiber[t]
<1>0. TypeOK /\ NoAbort /\ CountIsLive /\ Apart /\ ThreadInv(t)
      /\ (f \in Fibers => FiberInv(f))
      /\ Threads \cap Fibers = {} /\ Null \notin Threads /\ Null \notin Fibers
  BY FiberAssumption DEF IInv
<1>a. running[t] = t /\ pc[t] = "swapin"
  BY <1>0, Executing DEF SwapInSwitch
<1>b. /\ f \in Fibers /\ t_threadFiber[t] = t
      /\ m_state[f] \in {"INIT", "HOLD", "READY"} /\ m_ctx[f] = f
  BY <1>0, <1>a DEF ThreadInv
<1>c. pc[f] # "never" /\ f # t
  BY <1>0, <1>b DEF FiberInv
<1>d. Switch(t, t, f)
  BY <1>0, <1>a, <1>b DEF SwapInSwitch
<1>e. /\ running' = [running EXCEPT ![t] = f]
      /\ m_ctx' = [m_ctx EXCEPT ![t] = t, ![f] = Null]
      /\ UNCHANGED aborted
  BY <1>a, <1>b, <1>c, <1>d, SwitchEffect DEF Objects
<1> QED BY <1>a, <1>b, <1>e DEF SwapInSwitch

(* ... and so it keeps the invariant. *)
LEMMA SwapInSwitchInv ==
  ASSUME IInv, Contract = Clauses, NEW t \in Threads,
         SwapInSwitch(t)
  PROVE  IInv'
<1> DEFINE f == t_fiber[t]
<1>0. TypeOK /\ NoAbort /\ CountIsLive /\ Apart /\ ThreadInv(t)
      /\ (f \in Fibers => FiberInv(f))
      /\ Threads \cap Fibers = {} /\ Null \notin Threads /\ Null \notin Fibers
  BY FiberAssumption DEF IInv
<1>1. /\ f \in Fibers /\ running[t] = t /\ pc[t] = "swapin"
      /\ m_state[f] \in {"INIT", "HOLD", "READY"} /\ m_ctx[f] = f
      /\ m_state' = [m_state EXCEPT ![f] = "EXEC"]
      /\ m_ctx' = [m_ctx EXCEPT ![t] = t, ![f] = Null]
      /\ pc' = [pc EXCEPT ![t] = "run"]
      /\ running' = [running EXCEPT ![t] = f]
      /\ UNCHANGED <<t_fiber, t_threadFiber, s_fiber_count, held, aborted>>
  BY SwapInSwitchEffect
<1>2. CountIsLive' /\ s_fiber_count' \in Nat
  BY <1>0, <1>1, CountSame DEF Objects, State, Finished
<1>3. TypeOK' BY <1>0, <1>1, <1>2 DEF TypeOK, Objects, State, Where, Finished
<1>4. NoAbort' BY <1>0, <1>1 DEF NoAbort
<1>5. Apart'
  BY <1>0, <1>1 DEF Apart, ThreadInv, TypeOK, FiberInv, InUse, Objects
<1>6. ASSUME NEW u \in Threads PROVE ThreadInv(u)'
  <2>1. ThreadInv(u) BY DEF IInv
  <2> QED BY <1>0, <1>1, <2>1
     DEF ThreadInv, TypeOK, FiberInv, InUse, Apart, OnCpu, Objects, Finished
<1>7. ASSUME NEW g \in Fibers PROVE FiberInv(g)'
  <2>1. FiberInv(g) BY DEF IInv
  <2> QED BY <1>0, <1>1, <2>1
     DEF FiberInv, ThreadInv, TypeOK, OnCpu, InUse, Apart, Objects, Finished
<1> QED BY <1>2, <1>3, <1>4, <1>5, <1>6, <1>7 DEF IInv

(* YieldToReady() and YieldToHold() publish a state other than EXEC. *)
LEMMA YieldStateEffect ==
  ASSUME IInv, Contract = Clauses, NEW t \in Threads,
         NEW to \in {"READY", "HOLD"}, YieldState(t, to)
  PROVE  LET f == running[t] IN
         /\ f \in Fibers /\ m_state[f] = "EXEC" /\ pc[f] = "run"
         /\ m_state' = [m_state EXCEPT ![f] = to]
         /\ pc' = [pc EXCEPT ![f] = "yield"]
         /\ UNCHANGED <<m_ctx, t_fiber, t_threadFiber, s_fiber_count, running,
                        held, aborted>>
<1> DEFINE f == running[t]
<1>0. TypeOK /\ NoAbort /\ CountIsLive /\ Apart /\ ThreadInv(t)
      /\ (f \in Fibers => FiberInv(f))
      /\ Threads \cap Fibers = {} /\ Null \notin Threads /\ Null \notin Fibers
  BY FiberAssumption DEF IInv
<1>a. running[t] # t
  BY <1>0 DEF YieldState, Demand, Clauses, ThreadInv
<1>b. /\ f \in Fibers /\ t_fiber[t] = f /\ f # Null /\ pc[f] = "run"
      /\ m_state[f] = "EXEC"
  BY <1>0, <1>a, Executing DEF YieldState, InClient
<1> QED
  BY <1>0, <1>b DEF YieldState, EnsureMain, Cur

(* ... and so it keeps the invariant. *)
LEMMA YieldStateInv ==
  ASSUME IInv, Contract = Clauses, NEW t \in Threads,
         NEW to \in {"READY", "HOLD"}, YieldState(t, to)
  PROVE  IInv'
<1> DEFINE f == running[t]
<1>0. TypeOK /\ NoAbort /\ CountIsLive /\ Apart /\ ThreadInv(t)
      /\ (f \in Fibers => FiberInv(f))
      /\ Threads \cap Fibers = {} /\ Null \notin Threads /\ Null \notin Fibers
  BY FiberAssumption DEF IInv
<1>1. /\ f \in Fibers /\ m_state[f] = "EXEC" /\ pc[f] = "run"
      /\ m_state' = [m_state EXCEPT ![f] = to]
      /\ pc' = [pc EXCEPT ![f] = "yield"]
      /\ UNCHANGED <<m_ctx, t_fiber, t_threadFiber, s_fiber_count, running,
                     held, aborted>>
  BY YieldStateEffect
<1>2. CountIsLive' /\ s_fiber_count' \in Nat
  BY <1>0, <1>1, CountSame DEF Objects, State, Finished
<1>3. TypeOK' BY <1>0, <1>1, <1>2 DEF TypeOK, Objects, State, Where, Finished
<1>4. NoAbort' BY <1>0, <1>1 DEF NoAbort
<1>5. Apart'
  BY <1>0, <1>1 DEF Apart, ThreadInv, TypeOK, FiberInv, InUse, Objects
<1>6. ASSUME NEW u \in Threads PROVE ThreadInv(u)'
  <2>1. ThreadInv(u) BY DEF IInv
  <2> QED BY <1>0, <1>1, <2>1
     DEF ThreadInv, TypeOK, FiberInv, InUse, Apart, OnCpu, Objects, Finished
<1>7. ASSUME NEW g \in Fibers PROVE FiberInv(g)'
  <2>1. FiberInv(g) BY DEF IInv
  <2> QED BY <1>0, <1>1, <2>1
     DEF FiberInv, ThreadInv, TypeOK, OnCpu, InUse, Apart, Objects, Finished
<1> QED BY <1>2, <1>3, <1>4, <1>5, <1>6, <1>7 DEF IInv

(* swapOut() finds the main fiber's context. *)
LEMMA YieldSwitchEffect ==
  ASSUME IInv, Contract = Clauses, NEW t \in Threads,
         YieldSwitch(t)
  PROVE  LET f == running[t] IN
         /\ f \in Fibers /\ m_state[f] \in {"HOLD", "READY"} /\ pc[f] = "yield"
         /\ m_ctx' = [m_ctx EXCEPT ![f] = f, ![t] = Null]
         /\ pc' = [pc EXCEPT ![f] = "run"]
         /\ running' = [running EXCEPT ![t] = t]
         /\ t_fiber' = [t_fiber EXCEPT ![t] = t]
         /\ UNCHANGED <<m_state, t_threadFiber, s_fiber_count, held, aborted>>
<1> DEFINE f == running[t]
<1>0. TypeOK /\ NoAbort /\ CountIsLive /\ Apart /\ ThreadInv(t)
      /\ (f \in Fibers => FiberInv(f))
      /\ Threads \cap Fibers = {} /\ Null \notin Threads /\ Null \notin Fibers
  BY FiberAssumption DEF IInv
<1>a. running[t] # t
  BY <1>0 DEF YieldSwitch, ThreadInv
<1>b. /\ f \in Fibers /\ f # t /\ t_fiber[t] = f /\ t_threadFiber[t] = t
      /\ m_ctx[t] = t /\ pc[t] = "run"
      /\ m_state[f] \in {"HOLD", "READY"} /\ pc[f] = "yield"
  BY <1>0, <1>a, Executing DEF YieldSwitch
<1>c. Switch(t, f, t)
  BY <1>b DEF YieldSwitch, SwapOut
<1> QED
  BY <1>0, <1>b, <1>c, SwitchEffect DEF YieldSwitch, SwapOut, Objects

(* ... and so it keeps the invariant. *)
LEMMA YieldSwitchInv ==
  ASSUME IInv, Contract = Clauses, NEW t \in Threads,
         YieldSwitch(t)
  PROVE  IInv'
<1> DEFINE f == running[t]
<1>0. TypeOK /\ NoAbort /\ CountIsLive /\ Apart /\ ThreadInv(t)
      /\ (f \in Fibers => FiberInv(f))
      /\ Threads \cap Fibers = {} /\ Null \notin Threads /\ Null \notin Fibers
  BY FiberAssumption DEF IInv
<1>1. /\ f \in Fibers /\ m_state[f] \in {"HOLD", "READY"} /\ pc[f] = "yield"
      /\ m_ctx' = [m_ctx EXCEPT ![f] = f, ![t] = Null]
      /\ pc' = [pc EXCEPT ![f] = "run"]
      /\ running' = [running EXCEPT ![t] = t]
      /\ t_fiber' = [t_fiber EXCEPT ![t] = t]
      /\ UNCHANGED <<m_state, t_threadFiber, s_fiber_count, held, aborted>>
  BY YieldSwitchEffect
<1>2. CountIsLive' /\ s_fiber_count' \in Nat
  BY <1>0, <1>1, CountSame DEF Objects, State, Finished
<1>3. TypeOK' BY <1>0, <1>1, <1>2 DEF TypeOK, Objects, State, Where, Finished
<1>4. NoAbort' BY <1>0, <1>1 DEF NoAbort
<1>5. Apart' BY <1>0, <1>1, ThreadsApart DEF Apart, TypeOK
<1>6. ASSUME NEW u \in Threads PROVE ThreadInv(u)'
  <2>1. ThreadInv(u) BY DEF IInv
  <2> QED BY <1>0, <1>1, <2>1
     DEF ThreadInv, TypeOK, FiberInv, InUse, Apart, OnCpu, Objects, Finished
<1>7. ASSUME NEW g \in Fibers PROVE FiberInv(g)'
  <2>1. FiberInv(g) BY DEF IInv
  <2>2. OnCpu(g)' <=> OnCpu(g) /\ g # f
    BY <1>0, <1>1, ThreadsApart DEF OnCpu, TypeOK
  <2>3. InUse(g)' => InUse(g)
    BY <1>0, <1>1 DEF InUse, TypeOK
  <2> QED BY <1>0, <1>1, <2>1, <2>2, <2>3
     DEF FiberInv, TypeOK, Objects, Finished
<1> QED BY <1>2, <1>3, <1>4, <1>5, <1>6, <1>7 DEF IInv

(* MainFunc() starts. *)
LEMMA MainFuncEntryEffect ==
  ASSUME IInv, Contract = Clauses, NEW t \in Threads,
         MainFuncEntry(t)
  PROVE  LET f == running[t] IN
         /\ f \in Fibers /\ m_state[f] = "EXEC"
         /\ pc' = [pc EXCEPT ![f] = "run"]
         /\ UNCHANGED <<m_state, m_ctx, t_fiber, t_threadFiber, s_fiber_count,
                        running, held, aborted>>
<1> DEFINE f == running[t]
<1>0. TypeOK /\ NoAbort /\ CountIsLive /\ Apart /\ ThreadInv(t)
      /\ (f \in Fibers => FiberInv(f))
      /\ Threads \cap Fibers = {} /\ Null \notin Threads /\ Null \notin Fibers
  BY FiberAssumption DEF IInv
<1>a. running[t] # t
  BY <1>0 DEF MainFuncEntry, ThreadInv
<1> QED
  BY <1>0, <1>a, Executing, CtxOwn DEF MainFuncEntry

(* ... and so it keeps the invariant. *)
LEMMA MainFuncEntryInv ==
  ASSUME IInv, Contract = Clauses, NEW t \in Threads,
         MainFuncEntry(t)
  PROVE  IInv'
<1> DEFINE f == running[t]
<1>0. TypeOK /\ NoAbort /\ CountIsLive /\ Apart /\ ThreadInv(t)
      /\ (f \in Fibers => FiberInv(f))
      /\ Threads \cap Fibers = {} /\ Null \notin Threads /\ Null \notin Fibers
  BY FiberAssumption DEF IInv
<1>1. /\ f \in Fibers /\ m_state[f] = "EXEC"
      /\ pc' = [pc EXCEPT ![f] = "run"]
      /\ UNCHANGED <<m_state, m_ctx, t_fiber, t_threadFiber, s_fiber_count,
                     running, held, aborted>>
  BY MainFuncEntryEffect
<1>2. CountIsLive' /\ s_fiber_count' \in Nat
  BY <1>0, <1>1, CountSame DEF Objects, State, Finished
<1>3. TypeOK' BY <1>0, <1>1, <1>2 DEF TypeOK, Objects, State, Where, Finished
<1>4. NoAbort' BY <1>0, <1>1 DEF NoAbort
<1>5. Apart'
  BY <1>0, <1>1 DEF Apart, ThreadInv, TypeOK, FiberInv, InUse, Objects
<1>6. ASSUME NEW u \in Threads PROVE ThreadInv(u)'
  <2>1. ThreadInv(u) BY DEF IInv
  <2> QED BY <1>0, <1>1, <2>1
     DEF ThreadInv, TypeOK, FiberInv, InUse, Apart, OnCpu, Objects, Finished
<1>7. ASSUME NEW g \in Fibers PROVE FiberInv(g)'
  <2>1. FiberInv(g) BY DEF IInv
  <2> QED BY <1>0, <1>1, <2>1
     DEF FiberInv, ThreadInv, TypeOK, OnCpu, InUse, Apart, Objects, Finished
<1> QED BY <1>2, <1>3, <1>4, <1>5, <1>6, <1>7 DEF IInv

(* The callback returns or throws. *)
LEMMA CallbackEndsEffect ==
  ASSUME IInv, Contract = Clauses, NEW t \in Threads,
         NEW how \in Finished, CallbackEnds(t, how)
  PROVE  LET f == running[t] IN
         /\ f \in Fibers /\ m_state[f] = "EXEC"
         /\ m_state' = [m_state EXCEPT ![f] = how]
         /\ pc' = [pc EXCEPT ![f] = "finish"]
         /\ UNCHANGED <<m_ctx, t_fiber, t_threadFiber, s_fiber_count, running,
                        held, aborted>>
<1> DEFINE f == running[t]
<1>0. TypeOK /\ NoAbort /\ CountIsLive /\ Apart /\ ThreadInv(t)
      /\ (f \in Fibers => FiberInv(f))
      /\ Threads \cap Fibers = {} /\ Null \notin Threads /\ Null \notin Fibers
  BY FiberAssumption DEF IInv
<1>a. running[t] # t
  BY <1>0 DEF CallbackEnds, ThreadInv
<1> QED
  BY <1>0, <1>a, Executing, CtxOwn DEF CallbackEnds, InClient

(* ... and so it keeps the invariant. *)
LEMMA CallbackEndsInv ==
  ASSUME IInv, Contract = Clauses, NEW t \in Threads,
         NEW how \in Finished, CallbackEnds(t, how)
  PROVE  IInv'
<1> DEFINE f == running[t]
<1>0. TypeOK /\ NoAbort /\ CountIsLive /\ Apart /\ ThreadInv(t)
      /\ (f \in Fibers => FiberInv(f))
      /\ Threads \cap Fibers = {} /\ Null \notin Threads /\ Null \notin Fibers
  BY FiberAssumption DEF IInv
<1>1. /\ f \in Fibers /\ m_state[f] = "EXEC"
      /\ m_state' = [m_state EXCEPT ![f] = how]
      /\ pc' = [pc EXCEPT ![f] = "finish"]
      /\ UNCHANGED <<m_ctx, t_fiber, t_threadFiber, s_fiber_count, running,
                     held, aborted>>
  BY CallbackEndsEffect
<1>2. CountIsLive' /\ s_fiber_count' \in Nat
  BY <1>0, <1>1, CountSame DEF Objects, State, Finished
<1>3. TypeOK' BY <1>0, <1>1, <1>2 DEF TypeOK, Objects, State, Where, Finished
<1>4. NoAbort' BY <1>0, <1>1 DEF NoAbort
<1>5. Apart'
  BY <1>0, <1>1 DEF Apart, ThreadInv, TypeOK, FiberInv, InUse, Objects
<1>6. ASSUME NEW u \in Threads PROVE ThreadInv(u)'
  <2>1. ThreadInv(u) BY DEF IInv
  <2> QED BY <1>0, <1>1, <2>1
     DEF ThreadInv, TypeOK, FiberInv, InUse, Apart, OnCpu, Objects, Finished
<1>7. ASSUME NEW g \in Fibers PROVE FiberInv(g)'
  <2>1. FiberInv(g) BY DEF IInv
  <2> QED BY <1>0, <1>1, <2>1
     DEF FiberInv, ThreadInv, TypeOK, OnCpu, InUse, Apart, Objects, Finished
<1> QED BY <1>2, <1>3, <1>4, <1>5, <1>6, <1>7 DEF IInv

(* cur.reset() never destroys the fiber whose stack it runs on: someone
   outside still holds it. *)
LEMMA CurResetEffect ==
  ASSUME IInv, Contract = Clauses, NEW t \in Threads,
         CurReset(t)
  PROVE  LET f == running[t] IN
         /\ f \in Fibers /\ m_state[f] \in Finished /\ pc[f] = "finish"
         /\ pc' = [pc EXCEPT ![f] = "final"]
         /\ UNCHANGED <<m_state, m_ctx, t_fiber, t_threadFiber, s_fiber_count,
                        running, held, aborted>>
<1> DEFINE f == running[t]
<1>0. TypeOK /\ NoAbort /\ CountIsLive /\ Apart /\ ThreadInv(t)
      /\ (f \in Fibers => FiberInv(f))
      /\ Threads \cap Fibers = {} /\ Null \notin Threads /\ Null \notin Fibers
  BY FiberAssumption DEF IInv
<1>a. running[t] # t
  BY <1>0 DEF CurReset, ThreadInv
<1> QED
  BY <1>0, <1>a, Executing, CtxOwn DEF CurReset

(* ... and so it keeps the invariant. *)
LEMMA CurResetInv ==
  ASSUME IInv, Contract = Clauses, NEW t \in Threads,
         CurReset(t)
  PROVE  IInv'
<1> DEFINE f == running[t]
<1>0. TypeOK /\ NoAbort /\ CountIsLive /\ Apart /\ ThreadInv(t)
      /\ (f \in Fibers => FiberInv(f))
      /\ Threads \cap Fibers = {} /\ Null \notin Threads /\ Null \notin Fibers
  BY FiberAssumption DEF IInv
<1>1. /\ f \in Fibers /\ m_state[f] \in Finished /\ pc[f] = "finish"
      /\ pc' = [pc EXCEPT ![f] = "final"]
      /\ UNCHANGED <<m_state, m_ctx, t_fiber, t_threadFiber, s_fiber_count,
                     running, held, aborted>>
  BY CurResetEffect
<1>2. CountIsLive' /\ s_fiber_count' \in Nat
  BY <1>0, <1>1, CountSame DEF Objects, State, Finished
<1>3. TypeOK' BY <1>0, <1>1, <1>2 DEF TypeOK, Objects, State, Where, Finished
<1>4. NoAbort' BY <1>0, <1>1 DEF NoAbort
<1>5. Apart'
  BY <1>0, <1>1 DEF Apart, ThreadInv, TypeOK, FiberInv, InUse, Objects
<1>6. ASSUME NEW u \in Threads PROVE ThreadInv(u)'
  <2>1. ThreadInv(u) BY DEF IInv
  <2> QED BY <1>0, <1>1, <2>1
     DEF ThreadInv, TypeOK, FiberInv, InUse, Apart, OnCpu, Objects, Finished
<1>7. ASSUME NEW g \in Fibers PROVE FiberInv(g)'
  <2>1. FiberInv(g) BY DEF IInv
  <2> QED BY <1>0, <1>1, <2>1
     DEF FiberInv, ThreadInv, TypeOK, OnCpu, InUse, Apart, Objects, Finished
<1> QED BY <1>2, <1>3, <1>4, <1>5, <1>6, <1>7 DEF IInv

(* The last swapOut() goes back to the main fiber. *)
LEMMA FinalSwapOutEffect ==
  ASSUME IInv, Contract = Clauses, NEW t \in Threads,
         FinalSwapOut(t)
  PROVE  LET f == running[t] IN
         /\ f \in Fibers /\ m_state[f] \in Finished /\ pc[f] = "final"
         /\ m_ctx' = [m_ctx EXCEPT ![f] = f, ![t] = Null]
         /\ pc' = [pc EXCEPT ![f] = "never"]
         /\ running' = [running EXCEPT ![t] = t]
         /\ t_fiber' = [t_fiber EXCEPT ![t] = t]
         /\ UNCHANGED <<m_state, t_threadFiber, s_fiber_count, held, aborted>>
<1> DEFINE f == running[t]
<1>0. TypeOK /\ NoAbort /\ CountIsLive /\ Apart /\ ThreadInv(t)
      /\ (f \in Fibers => FiberInv(f))
      /\ Threads \cap Fibers = {} /\ Null \notin Threads /\ Null \notin Fibers
  BY FiberAssumption DEF IInv
<1>a. running[t] # t
  BY <1>0 DEF FinalSwapOut, ThreadInv
<1>b. /\ f \in Fibers /\ f # t /\ t_fiber[t] = f /\ t_threadFiber[t] = t
      /\ m_ctx[t] = t /\ pc[t] = "run"
      /\ m_state[f] \in Finished /\ pc[f] = "final"
  BY <1>0, <1>a, Executing DEF FinalSwapOut
<1>c. Switch(t, f, t)
  BY <1>b DEF FinalSwapOut, SwapOut, Finished
<1>e. /\ running' = [running EXCEPT ![t] = t]
      /\ m_ctx' = [m_ctx EXCEPT ![f] = f, ![t] = Null]
      /\ UNCHANGED aborted
  BY <1>b, <1>c, SwitchEffect DEF Objects
<1> QED BY <1>b, <1>e DEF FinalSwapOut, SwapOut, Finished

(* ... and so it keeps the invariant. *)
LEMMA FinalSwapOutInv ==
  ASSUME IInv, Contract = Clauses, NEW t \in Threads,
         FinalSwapOut(t)
  PROVE  IInv'
<1> DEFINE f == running[t]
<1>0. TypeOK /\ NoAbort /\ CountIsLive /\ Apart /\ ThreadInv(t)
      /\ (f \in Fibers => FiberInv(f))
      /\ Threads \cap Fibers = {} /\ Null \notin Threads /\ Null \notin Fibers
  BY FiberAssumption DEF IInv
<1>1. /\ f \in Fibers /\ m_state[f] \in Finished /\ pc[f] = "final"
      /\ m_ctx' = [m_ctx EXCEPT ![f] = f, ![t] = Null]
      /\ pc' = [pc EXCEPT ![f] = "never"]
      /\ running' = [running EXCEPT ![t] = t]
      /\ t_fiber' = [t_fiber EXCEPT ![t] = t]
      /\ UNCHANGED <<m_state, t_threadFiber, s_fiber_count, held, aborted>>
  BY FinalSwapOutEffect
<1>2. CountIsLive' /\ s_fiber_count' \in Nat
  BY <1>0, <1>1, CountSame DEF Objects, State, Finished
<1>3. TypeOK' BY <1>0, <1>1, <1>2 DEF TypeOK, Objects, State, Where, Finished
<1>4. NoAbort' BY <1>0, <1>1 DEF NoAbort
<1>5. Apart' BY <1>0, <1>1, ThreadsApart DEF Apart, TypeOK
<1>6. ASSUME NEW u \in Threads PROVE ThreadInv(u)'
  <2>1. ThreadInv(u) BY DEF IInv
  <2> QED BY <1>0, <1>1, <2>1
     DEF ThreadInv, TypeOK, FiberInv, InUse, Apart, OnCpu, Objects, Finished
<1>7. ASSUME NEW g \in Fibers PROVE FiberInv(g)'
  <2>1. FiberInv(g) BY DEF IInv
  <2>2. OnCpu(g)' <=> OnCpu(g) /\ g # f
    BY <1>0, <1>1, ThreadsApart DEF OnCpu, TypeOK
  <2>3. InUse(g)' => InUse(g)
    BY <1>0, <1>1 DEF InUse, TypeOK
  <2> QED BY <1>0, <1>1, <2>1, <2>2, <2>3
     DEF FiberInv, TypeOK, Objects, Finished
<1> QED BY <1>2, <1>3, <1>4, <1>5, <1>6, <1>7 DEF IInv


(* Fiber::GetThis() keeps the invariant: the main fiber it may construct is
   the thread's own. *)
LEMMA GetThisInv ==
  ASSUME IInv, NEW t \in Threads, GetThis(t)
  PROVE  IInv'
<1>0. TypeOK /\ NoAbort /\ CountIsLive /\ Apart /\ ThreadInv(t)
      /\ Threads \cap Fibers = {} /\ Null \notin Threads /\ Null \notin Fibers
  BY FiberAssumption DEF IInv
<1>1. CASE t_fiber[t] # Null
  <2>1. UNCHANGED vars
    BY <1>1 DEF GetThis, EnsureMain, vars
  <2> QED BY <2>1 DEF vars, IInv, TypeOK, NoAbort, CountIsLive, Live, Apart,
                      ThreadInv, FiberInv, OnCpu, InUse
<1>2. CASE t_fiber[t] = Null
  <2>1. running[t] = t /\ pc[t] = "run" /\ m_state[t] = "NONE"
    BY <1>0, <1>2, Executing DEF GetThis, InClient, ThreadInv
  <2>2. /\ m_state' = [m_state EXCEPT ![t] = "EXEC"]
        /\ t_fiber' = [t_fiber EXCEPT ![t] = t]
        /\ t_threadFiber' = [t_threadFiber EXCEPT ![t] = t]
        /\ s_fiber_count' = s_fiber_count + 1
        /\ UNCHANGED <<m_ctx, running, pc, held, aborted>>
    BY <1>2 DEF GetThis, EnsureMain
  <2>3. CountIsLive' /\ s_fiber_count' \in Nat
    BY <1>0, <2>1, <2>2, CountUp DEF Objects, State
  <2>4. TypeOK' BY <1>0, <2>2, <2>3 DEF TypeOK, Objects, State
  <2>5. NoAbort' BY <1>0, <2>2 DEF NoAbort
  <2>6. Apart' BY <1>0, <2>2, ThreadsApart DEF Apart, TypeOK
  <2>7. ASSUME NEW u \in Threads PROVE ThreadInv(u)'
    <3>1. ThreadInv(u) BY DEF IInv
    <3> QED BY <1>0, <2>1, <2>2, <3>1 DEF ThreadInv, TypeOK, Objects
  <2>8. ASSUME NEW g \in Fibers PROVE FiberInv(g)'
    <3>1. FiberInv(g) BY DEF IInv
    <3>2. (OnCpu(g)' <=> OnCpu(g)) /\ (InUse(g)' <=> InUse(g))
      BY <1>0, <1>2, <2>2 DEF OnCpu, InUse, TypeOK
    <3> QED BY <1>0, <2>2, <3>1, <3>2 DEF FiberInv, TypeOK, Objects
  <2> QED BY <2>3, <2>4, <2>5, <2>6, <2>7, <2>8 DEF IInv
<1> QED BY <1>1, <1>2

(* The thread ends and takes its main fiber with it: ~Fiber finds it in EXEC
   and current. *)
LEMMA ThreadExitInv ==
  ASSUME IInv, NEW t \in Threads, ThreadExit(t)
  PROVE  IInv'
<1>0. TypeOK /\ NoAbort /\ CountIsLive /\ Apart /\ ThreadInv(t)
      /\ Threads \cap Fibers = {} /\ Null \notin Threads /\ Null \notin Fibers
  BY FiberAssumption DEF IInv
<1>1. /\ running[t] = t /\ pc[t] = "run" /\ t_fiber[t] = t_threadFiber[t]
      /\ pc' = [pc EXCEPT ![t] = "exited"]
      /\ UNCHANGED <<running, held>>
  BY <1>0 DEF ThreadExit, InClient, ThreadInv
<1>2. CASE t_threadFiber[t] = Null
  <2>1. UNCHANGED <<m_state, m_ctx, t_fiber, t_threadFiber, s_fiber_count,
                    aborted>>
    BY <1>2 DEF ThreadExit
  <2>2. TypeOK' BY <1>0, <1>1, <2>1 DEF TypeOK, Where
  <2>3. NoAbort' /\ CountIsLive' /\ Apart'
    BY <1>0, <2>1 DEF NoAbort, CountIsLive, Live, Apart
  <2>4. ASSUME NEW u \in Threads PROVE ThreadInv(u)'
    <3>1. ThreadInv(u) BY DEF IInv
    <3> QED BY <1>0, <1>1, <2>1, <3>1 DEF ThreadInv, TypeOK, Objects
  <2>5. ASSUME NEW g \in Fibers PROVE FiberInv(g)'
    <3>1. FiberInv(g) BY DEF IInv
    <3>2. (OnCpu(g)' <=> OnCpu(g)) /\ (InUse(g)' <=> InUse(g))
      BY <1>1, <2>1 DEF OnCpu, InUse
    <3> QED BY <1>0, <1>1, <2>1, <3>1, <3>2 DEF FiberInv, TypeOK, Objects
  <2> QED BY <2>2, <2>3, <2>4, <2>5 DEF IInv
<1>3. CASE t_threadFiber[t] # Null
  <2>0. t_threadFiber[t] = t /\ m_state[t] = "EXEC"
    BY <1>0, <1>3 DEF ThreadInv
  <2>1. /\ m_state' = [m_state EXCEPT ![t] = "NONE"]
        /\ m_ctx' = [m_ctx EXCEPT ![t] = Null]
        /\ t_threadFiber' = [t_threadFiber EXCEPT ![t] = Null]
        /\ t_fiber' = [t_fiber EXCEPT ![t] = Null]
        /\ s_fiber_count' = s_fiber_count - 1
        /\ UNCHANGED aborted
    BY <1>0, <1>1, <1>3, <2>0 DEF ThreadExit, TypeOK
  <2>2. CountIsLive' /\ s_fiber_count' \in Nat
    BY <1>0, <2>0, <2>1, CountDown DEF Objects
  <2>3. TypeOK' BY <1>0, <1>1, <2>1, <2>2 DEF TypeOK, Where, Objects, State
  <2>4. NoAbort' BY <1>0, <2>1 DEF NoAbort
  <2>5. Apart' BY <1>0, <2>1 DEF Apart, TypeOK
  <2>6. ASSUME NEW u \in Threads PROVE ThreadInv(u)'
    <3>1. ThreadInv(u) BY DEF IInv
    <3> QED BY <1>0, <1>1, <2>1, <3>1 DEF ThreadInv, TypeOK, Objects
  <2>7. ASSUME NEW g \in Fibers PROVE FiberInv(g)'
    <3>1. FiberInv(g) BY DEF IInv
    <3>2. (OnCpu(g)' <=> OnCpu(g)) /\ (InUse(g)' <=> InUse(g))
      BY <1>0, <1>1, <2>0, <2>1 DEF OnCpu, InUse, TypeOK
    <3> QED BY <1>0, <1>1, <2>1, <3>1, <3>2 DEF FiberInv, TypeOK, Objects
  <2> QED BY <2>2, <2>3, <2>4, <2>5, <2>6, <2>7 DEF IInv
<1> QED BY <1>2, <1>3

----------------------------------------------------------------------------
(* Every step keeps the invariant. *)
LEMMA NextInv ==
  ASSUME IInv, Contract = Clauses, [Next]_vars
  PROVE  IInv'
<1>1. CASE UNCHANGED vars
  BY <1>1 DEF vars, IInv, TypeOK, NoAbort, CountIsLive, Live, Apart,
              ThreadInv, FiberInv, OnCpu, InUse
<1>2. CASE Next
  <2>1. PICK t \in Threads :
          CallerStep(t) \/ CallbackLeaves(t) \/ LibraryStep(t)
    BY <1>2 DEF Next
  <2>2. CASE CallerStep(t)
    BY <2>2, GetThisInv, NewFiberInv, ResetInv, DropInv, SwapInCheckInv,
       ThreadExitInv DEF CallerStep
  <2>3. CASE CallbackLeaves(t)
    BY <2>3, YieldStateInv, CallbackEndsInv DEF CallbackLeaves
  <2>4. CASE LibraryStep(t)
    BY <2>4, SwapInSwitchInv, YieldSwitchInv, MainFuncEntryInv, CurResetInv,
       FinalSwapOutInv DEF LibraryStep
  <2> QED BY <2>1, <2>2, <2>3, <2>4
<1> QED BY <1>1, <1>2

(* IInv is an invariant of every caller that respects the contract. *)
LEMMA Invariant == ASSUME Contract = Clauses PROVE Spec => []IInv
<1>1. Init => IInv
  BY InitInv
<1>2. IInv /\ [Next]_vars => IInv'
  BY NextInv
<1> QED BY <1>1, <1>2, PTL DEF Spec

(* The state of the runtime is well typed; in particular s_fiber_count, an
   unsigned counter, never goes below zero (~Fiber, fiber.cc). *)
THEOREM TypeCorrect == ASSUME Contract = Clauses PROVE Spec => []TypeOK
<1>1. IInv => TypeOK
  BY DEF IInv
<1> QED BY <1>1, Invariant, PTL

(* Callers that respect the contract never meet an assertion of fiber.cc, a
   freed fiber or a stale context, with any number of threads and fibers. *)
THEOREM ContractSuffices == ASSUME Contract = Clauses PROVE Spec => []NoAbort
<1>1. IInv => NoAbort
  BY DEF IInv
<1> QED BY <1>1, Invariant, PTL

(* TotalFibers() counts the live fibers. *)
THEOREM CountExact == ASSUME Contract = Clauses PROVE Spec => []CountIsLive
<1>1. IInv => CountIsLive
  BY DEF IInv
<1> QED BY <1>1, Invariant, PTL

(* No continuation is lost or shared: swapIn and swapOut keep each fiber's
   execution in one place and the way back to the main fiber saved. *)
THEOREM ContinuationsKept ==
  ASSUME Contract = Clauses PROVE Spec => []ContinuationKept
<1>1. ASSUME IInv PROVE ContinuationKept
  <2>1. ASSUME NEW f \in Fibers, m_state[f] # "NONE"
        PROVE  (m_ctx[f] = f) <=> \A t \in Threads : running[t] # f
    <3>1. FiberInv(f) /\ f # Null BY FiberAssumption, <1>1 DEF IInv
    <3>2. m_state[f] \in {"INIT", "HOLD", "EXEC", "READY", "TERM", "EXCEPT"}
      BY <1>1, <2>1 DEF IInv, TypeOK, Objects, State, Finished
    <3> QED BY <3>1, <3>2 DEF FiberInv, OnCpu, Finished
  <2>2. \A t, u \in Threads : running[t] = running[u] => t = u
    BY <1>1, ThreadsApart
  <2>3. \A t \in Threads : running[t] # t => m_ctx[t] = t
    BY <1>1 DEF IInv, ThreadInv
  <2> QED BY <2>1, <2>2, <2>3 DEF ContinuationKept
<1> QED BY <1>1, Invariant, PTL

(* Fiber::GetThis() and GetFiberID() name the fiber that executes. *)
THEOREM CurrentIsExact ==
  ASSUME Contract = Clauses PROVE Spec => []CurrentIsRunning
<1>1. ASSUME IInv PROVE CurrentIsRunning
  <2>1. ASSUME NEW t \in Threads, pc[running[t]] # "swapin"
        PROVE  t_fiber[t] = running[t] \/ (t_fiber[t] = Null /\ running[t] = t)
    <3>1. ThreadInv(t) BY <1>1 DEF IInv
    <3> QED BY <2>1, <3>1 DEF ThreadInv
  <2> QED BY <2>1 DEF CurrentIsRunning
<1> QED BY <1>1, Invariant, PTL

(* A fiber outlives its last outside reference only while a thread is at it:
   its stack is not leaked. *)
THEOREM NothingLeaks == ASSUME Contract = Clauses PROVE Spec => []NoLeak
<1>1. IInv => NoLeak
  BY DEF IInv, FiberInv, NoLeak
<1> QED BY <1>1, Invariant, PTL

----------------------------------------------------------------------------
(* The runtime implements Coroutine: only the switches and the calls that  *)
(* make, renew or destroy a fiber change what Coroutine sees; every other  *)
(* step keeps each fiber's phase.                                          *)

Phases == [f \in Fibers |-> PhaseOf(f)]
On == [t \in Threads |-> IF running[t] = t THEN Null ELSE running[t]]

(* Steps that neither switch nor create nor destroy a worker are stutters of
   Coroutine: only code that executes changes where it stands. *)
LEMMA StutterStep ==
  ASSUME UNCHANGED running, NEW f \in Fibers,
         m_state[f] # "NONE" <=> m_state'[f] # "NONE",
         pc'[f] = pc[f] \/ OnCpu(f)
  PROVE  PhaseOf(f)' = PhaseOf(f)
BY DEF PhaseOf, OnCpu

(* One fiber's phase changes. *)
LEMMA PhaseStep ==
  ASSUME NEW f \in Fibers, NEW to, PhaseOf(f)' = to,
         \A g \in Fibers \ {f} : PhaseOf(g)' = PhaseOf(g)
  PROVE  Phases' = [Phases EXCEPT ![f] = to]
BY DEF Phases

(* The constructor, reset and the destructor of a worker. *)
LEMMA LifeSteps ==
  ASSUME IInv, Contract = Clauses, NEW t \in Threads, NEW f \in Fibers
  PROVE  /\ NewFiber(t, f) => C!Make(f)
         /\ Reset(t, f) => C!Make(f)
         /\ Drop(t, f) => C!Discard(f)
<1>0. TypeOK /\ FiberInv(f)
  BY DEF IInv
<1>1. ASSUME NewFiber(t, f) PROVE C!Make(f)
  <2>1. /\ m_state[f] = "NONE" /\ ~OnCpu(f) /\ UNCHANGED running
        /\ m_state' = [m_state EXCEPT ![f] = "INIT"]
        /\ pc' = [pc EXCEPT ![f] = "entry"]
    BY <1>1, NewFiberEffect
  <2>2. PhaseOf(f) = "none" /\ PhaseOf(f)' = "fresh"
    BY <1>0, <2>1 DEF PhaseOf, OnCpu, TypeOK, Objects
  <2>3. \A g \in Fibers \ {f} : PhaseOf(g)' = PhaseOf(g)
    BY <1>0, <2>1 DEF PhaseOf, TypeOK, Objects
  <2> QED BY <2>1, <2>2, <2>3, PhaseStep DEF C!Make, Phases
<1>2. ASSUME Reset(t, f) PROVE C!Make(f)
  <2>1. /\ m_state[f] \in Finished \cup {"INIT"} /\ ~InUse(f)
        /\ UNCHANGED running
        /\ m_state' = [m_state EXCEPT ![f] = "INIT"]
        /\ pc' = [pc EXCEPT ![f] = "entry"]
    BY <1>2, ResetEffect
  <2>2. ~OnCpu(f) /\ pc[f] \in {"entry", "never"}
    BY <1>0, <2>1 DEF FiberInv, InUse, OnCpu, Finished
  <2>3. PhaseOf(f) \in {"fresh", "done"} /\ PhaseOf(f)' = "fresh"
    BY <1>0, <2>1, <2>2 DEF PhaseOf, OnCpu, TypeOK, Objects, Finished
  <2>4. \A g \in Fibers \ {f} : PhaseOf(g)' = PhaseOf(g)
    BY <1>0, <2>1 DEF PhaseOf, TypeOK, Objects
  <2> QED BY <2>1, <2>3, <2>4, PhaseStep DEF C!Make, Phases
<1>3. ASSUME Drop(t, f) PROVE C!Discard(f)
  <2>1. /\ m_state[f] # "NONE" /\ ~InUse(f) /\ pc[f] \in {"entry", "never"}
        /\ m_state' = [m_state EXCEPT ![f] = "NONE"]
        /\ UNCHANGED <<running, pc>>
    BY <1>3, DropEffect
  <2>2. PhaseOf(f) \in {"fresh", "done"} /\ PhaseOf(f)' = "none"
    BY <1>0, <2>1 DEF PhaseOf, InUse, TypeOK, Objects
  <2>3. \A g \in Fibers \ {f} : PhaseOf(g)' = PhaseOf(g)
    BY <1>0, <2>1 DEF PhaseOf, TypeOK, Objects
  <2> QED BY <2>1, <2>2, <2>3, PhaseStep DEF C!Discard, Phases
<1> QED BY <1>1, <1>2, <1>3

(* swapIn's switch resumes the fiber on the thread. *)
LEMMA ResumeStep ==
  ASSUME IInv, Contract = Clauses, NEW t \in Threads, SwapInSwitch(t)
  PROVE  \E f \in Fibers : C!Resume(t, f)
<1>0. TypeOK /\ Threads \cap Fibers = {}
  BY FiberAssumption DEF IInv
<1>f. PICK f \in Fibers : f = t_fiber[t]
  BY SwapInSwitchEffect
<1>1. /\ running[t] = t /\ pc[t] = "swapin"
      /\ m_state[f] \in {"INIT", "HOLD", "READY"} /\ m_ctx[f] = f
      /\ m_state' = [m_state EXCEPT ![f] = "EXEC"]
      /\ pc' = [pc EXCEPT ![t] = "run"]
      /\ running' = [running EXCEPT ![t] = f]
  BY <1>f, SwapInSwitchEffect
<1>2. ~OnCpu(f) /\ pc[f] \in {"entry", "run"} /\ f # t
  <2>1. FiberInv(f) /\ f # Null BY FiberAssumption DEF IInv
  <2> QED BY <1>0, <1>1, <2>1 DEF FiberInv
<1>3. PhaseOf(f) \in {"fresh", "suspended"}
  BY <1>1, <1>2 DEF PhaseOf, OnCpu
<1>4. PhaseOf(f)' = "running"
  <2>1. m_state'[f] = "EXEC" /\ running'[t] = f
    BY <1>0, <1>1 DEF TypeOK, Objects
  <2> QED BY <2>1 DEF PhaseOf
<1>5. ASSUME NEW g \in Fibers \ {f} PROVE PhaseOf(g)' = PhaseOf(g)
  <2>1. m_state'[g] = m_state[g] /\ pc'[g] = pc[g]
    BY <1>0, <1>1 DEF TypeOK, Objects
  <2>2. (\E u \in Threads : running'[u] = g)
          <=> \E u \in Threads : running[u] = g
    BY <1>0, <1>1 DEF TypeOK
  <2> QED BY <2>1, <2>2 DEF PhaseOf
<1>6. Phases' = [Phases EXCEPT ![f] = "running"]
  BY <1>4, <1>5, PhaseStep
<1>7. On[t] = Null /\ On' = [On EXCEPT ![t] = f]
  BY <1>0, <1>1, <1>2 DEF On, TypeOK
<1> QED BY <1>3, <1>6, <1>7 DEF C!Resume, Phases, On

(* A switch back to the main fiber leaves the fiber suspended or done. *)
LEMMA LeaveStep ==
  ASSUME IInv, Contract = Clauses, NEW t \in Threads,
         YieldSwitch(t) \/ FinalSwapOut(t)
  PROVE  \E f \in Fibers, to \in {"suspended", "done"} : C!Leave(t, f, to)
<1>0. TypeOK /\ Threads \cap Fibers = {} /\ Null \notin Threads
  BY FiberAssumption DEF IInv
<1>f. PICK f \in Fibers : f = running[t]
  BY YieldSwitchEffect, FinalSwapOutEffect
<1>1. PICK to \in {"suspended", "done"} :
        /\ m_state[f] # "NONE"
        /\ pc' = [pc EXCEPT ![f] = IF to = "done" THEN "never" ELSE "run"]
        /\ running' = [running EXCEPT ![t] = t] /\ UNCHANGED m_state
  <2>1. CASE YieldSwitch(t)
    <3>1. /\ m_state[f] # "NONE" /\ pc' = [pc EXCEPT ![f] = "run"]
          /\ running' = [running EXCEPT ![t] = t] /\ UNCHANGED m_state
      BY <1>f, <2>1, YieldSwitchEffect
    <3> QED BY <3>1
  <2>2. CASE FinalSwapOut(t)
    <3>1. /\ m_state[f] # "NONE" /\ pc' = [pc EXCEPT ![f] = "never"]
          /\ running' = [running EXCEPT ![t] = t] /\ UNCHANGED m_state
      BY <1>f, <2>2, FinalSwapOutEffect DEF Finished
    <3> QED BY <3>1
  <2> QED BY <2>1, <2>2
<1>2. f # t BY <1>0
<1>3. PhaseOf(f) = "running"
  BY <1>f, <1>1 DEF PhaseOf
<1>4. PhaseOf(f)' = to
  <2>1. m_state'[f] # "NONE"
        /\ pc'[f] = IF to = "done" THEN "never" ELSE "run"
    BY <1>0, <1>1 DEF TypeOK, Objects
  <2>2. \A u \in Threads : running'[u] # f
    BY <1>0, <1>f, <1>1, <1>2, ThreadsApart DEF TypeOK
  <2> QED BY <2>1, <2>2 DEF PhaseOf
<1>5. ASSUME NEW g \in Fibers \ {f} PROVE PhaseOf(g)' = PhaseOf(g)
  <2>1. m_state'[g] = m_state[g] /\ pc'[g] = pc[g]
    BY <1>0, <1>1 DEF TypeOK, Objects
  <2>2. (\E u \in Threads : running'[u] = g)
          <=> \E u \in Threads : running[u] = g
    BY <1>0, <1>f, <1>1 DEF TypeOK
  <2> QED BY <2>1, <2>2 DEF PhaseOf
<1>6. Phases' = [Phases EXCEPT ![f] = to]
  BY <1>4, <1>5, PhaseStep
<1>7. On[t] = f /\ On' = [On EXCEPT ![t] = Null]
  BY <1>0, <1>f, <1>1, <1>2 DEF On, TypeOK
<1> QED BY <1>3, <1>6, <1>7 DEF C!Leave, Phases, On

(* Every other step leaves all phases and threads where they are. *)
LEMMA OtherSteps ==
  ASSUME IInv, Contract = Clauses, NEW t \in Threads,
         \/ GetThis(t)
         \/ \E f \in Fibers : SwapInCheck(t, f)
         \/ ThreadExit(t)
         \/ CallbackLeaves(t)
         \/ MainFuncEntry(t)
         \/ CurReset(t)
  PROVE  UNCHANGED <<Phases, On>>
<1>0. TypeOK /\ Threads \cap Fibers = {}
  BY FiberAssumption DEF IInv
<1> DEFINE Kept == /\ UNCHANGED running
                   /\ \A g \in Fibers :
                        /\ m_state[g] # "NONE" <=> m_state'[g] # "NONE"
                        /\ pc'[g] = pc[g] \/ OnCpu(g)
<1>1. Kept
  <2>1. CASE GetThis(t)
    BY <1>0, <2>1 DEF GetThis, TypeOK, Objects
  <2>2. CASE \E f \in Fibers : SwapInCheck(t, f)
    BY <1>0, <2>2, SwapInCheckEffect DEF TypeOK, Objects
  <2>3. CASE ThreadExit(t)
    <3>1. /\ UNCHANGED running /\ pc' = [pc EXCEPT ![t] = "exited"]
          /\ \/ UNCHANGED m_state
             \/ m_state' = [m_state EXCEPT ![t] = "NONE"]
      BY <2>3 DEF ThreadExit
    <3> QED BY <1>0, <3>1 DEF TypeOK, Objects
  <2>4. ASSUME NEW to \in {"READY", "HOLD"}, YieldState(t, to)
        PROVE  Kept
    BY <1>0, <2>4, YieldStateEffect DEF TypeOK, Objects, OnCpu
  <2>5. ASSUME NEW how \in Finished, CallbackEnds(t, how)
        PROVE  Kept
    BY <1>0, <2>5, CallbackEndsEffect DEF TypeOK, Objects, OnCpu, Finished
  <2>6. CASE MainFuncEntry(t)
    BY <1>0, <2>6, MainFuncEntryEffect DEF TypeOK, Objects, OnCpu
  <2>7. CASE CurReset(t)
    BY <1>0, <2>7, CurResetEffect DEF TypeOK, Objects, OnCpu
  <2> QED BY <2>1, <2>2, <2>3, <2>4, <2>5, <2>6, <2>7 DEF CallbackLeaves
<1>2. \A g \in Fibers : PhaseOf(g)' = PhaseOf(g)
  BY <1>1, StutterStep
<1> QED BY <1>1, <1>2 DEF Phases, On

(* A step of the runtime is a step of Coroutine or a stutter. *)
LEMMA NextStep ==
  ASSUME IInv, Contract = Clauses, [Next]_vars
  PROVE  [C!Next]_(C!cvars)
<1>1. CASE UNCHANGED vars
  BY <1>1 DEF vars, C!cvars, PhaseOf
<1>2. CASE Next
  <2>1. PICK t \in Threads :
          CallerStep(t) \/ CallbackLeaves(t) \/ LibraryStep(t)
    BY <1>2 DEF Next
  <2>2. CASE \E f \in Fibers : NewFiber(t, f) \/ Reset(t, f) \/ Drop(t, f)
    BY <2>2, LifeSteps DEF C!Next
  <2>3. CASE SwapInSwitch(t)
    BY <2>3, ResumeStep DEF C!Next
  <2>4. CASE YieldSwitch(t) \/ FinalSwapOut(t)
    BY <2>4, LeaveStep DEF C!Next
  <2>5. CASE \/ GetThis(t)
             \/ \E f \in Fibers : SwapInCheck(t, f)
             \/ ThreadExit(t)
             \/ CallbackLeaves(t)
             \/ MainFuncEntry(t)
             \/ CurReset(t)
    BY <2>5, OtherSteps DEF C!cvars, Phases, On
  <2> QED BY <2>1, <2>2, <2>3, <2>4, <2>5 DEF CallerStep, LibraryStep
<1> QED BY <1>1, <1>2

(* swapIn, YieldToReady, YieldToHold, MainFunc, reset and the life of a Fiber
   together implement Coroutine. *)
THEOREM FiberImplementsCoroutine ==
  ASSUME Contract = Clauses PROVE Spec => ImplementsCoroutine
<1>1. Init => C!Init
  BY DEF Init, C!Init, PhaseOf, Objects
<1>2. IInv /\ [Next]_vars => [C!Next]_(C!cvars)
  BY NextStep
<1> QED BY <1>1, <1>2, Invariant, PTL DEF Spec, C!Spec, ImplementsCoroutine

=============================================================================
