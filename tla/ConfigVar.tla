----------------------------- MODULE ConfigVar ------------------------------
(***************************************************************************)
(* ConfigVar<T> of sylar/config.h: a value and its change listeners under  *)
(* one read-write lock, and the key counter s_fun_id, a function-local     *)
(* static that all variables of one type T share and no lock of theirs     *)
(* protects.                                                               *)
(*                                                                         *)
(* Vars are the variables of one type.  setValue compares and notifies     *)
(* under the read lock, lets it go, and assigns under the write lock.  A   *)
(* listener keeps a copy of the value (its view), starting from the value  *)
(* it was registered at, as LogIniter's listener does for the loggers.     *)
(* The lock is glibc's default, which prefers readers.                     *)
(***************************************************************************)
EXTENDS Integers, FiniteSets

CONSTANTS
  Threads,
  Vars,
  Values,
  Default,     \* the default_value of every variable
  Listeners,
  Null,
  Contract,    \* what callers and listeners respect
  MaxOps       \* bound: calls in one run, and keys given out

Clauses ==
  { "serial_set",   \* one setValue at a time per variable
    "quiet_add",    \* no addListener during a setValue of the variable
    "serial_add",   \* one addListener at a time per type T
    "no_reentry",   \* a listener calls no mutator of its own variable
    "no_throw" }    \* a listener does not throw

ASSUME ConfigVarAssumption ==
  /\ Default \in Values
  /\ Null \notin Threads \cup Vars \cup Values \cup Listeners
  /\ Contract \subseteq Clauses
  /\ MaxOps \in Nat

Keys == 1..MaxOps

VARIABLES
  m_val,      \* the value of each variable
  m_cbs,      \* its listeners by key, Null where the map has no entry
  s_fun_id,   \* the last key given out
  readers,    \* threads that hold the variable's read lock
  writer,     \* the thread that holds its write lock, or Null
  pc,         \* where each thread stands
  arg,        \* its call: the variable, the value or listener
  cursor,     \* setValue: the last key called; addListener: the key computed
  view,       \* what each listener was last told
  reg,        \* the variable a listener is registered with, or Null
  handle,     \* the key its addListener returned
  ops         \* calls made

vars == <<m_val, m_cbs, s_fun_id, readers, writer, pc, arg, cursor, view, reg,
          handle, ops>>

SetPC == {"set", "notify", "assign", "reentered"}
AddPC == {"add", "add_load", "add_store", "add_insert", "add_return"}
NoCall == [var |-> Null, what |-> Null]

TypeOK ==
  /\ m_val \in [Vars -> Values]
  /\ m_cbs \in [Vars -> [Keys -> Listeners \cup {Null}]]
  /\ s_fun_id \in Keys \cup {0}
  /\ readers \in [Vars -> SUBSET Threads]
  /\ writer \in [Vars -> Threads \cup {Null}]
  /\ pc \in [Threads -> {"idle"} \cup SetPC \cup AddPC]
  /\ arg \in [Threads -> [var : Vars \cup {Null},
                          what : Values \cup Listeners \cup {Null}]]
  /\ cursor \in [Threads -> Keys \cup {0}]
  /\ view \in [Listeners -> Values]
  /\ reg \in [Listeners -> Vars \cup {Null}]
  /\ handle \in [Listeners -> Keys \cup {0}]
  /\ ops \in 0..MaxOps

(* What the constructors set besides the value. *)
InitRest ==
  /\ m_cbs = [x \in Vars |-> [k \in Keys |-> Null]]
  /\ s_fun_id = 0
  /\ readers = [x \in Vars |-> {}]
  /\ writer = [x \in Vars |-> Null]
  /\ pc = [t \in Threads |-> "idle"]
  /\ arg = [t \in Threads |-> NoCall]
  /\ cursor = [t \in Threads |-> 0]
  /\ view = [l \in Listeners |-> Default]
  /\ reg = [l \in Listeners |-> Null]
  /\ handle = [l \in Listeners |-> 0]
  /\ ops = 0

(* Fault: the constructor's list forgets m_val(default_value). *)
InitNoDefault == m_val = [x \in Vars |-> Null] /\ InitRest

Init == m_val = [x \in Vars |-> Default] /\ InitRest

----------------------------------------------------------------------------
Demand(clause, P) == clause \in Contract => P

Setting(t, x) == pc[t] \in SetPC /\ arg[t].var = x
Adding(t) == pc[t] \in AddPC
CanRead(x) == writer[x] = Null
CanWrite(x) == writer[x] = Null /\ readers[x] = {}

Call(t, at, x, what) ==
  /\ pc[t] = "idle" /\ ops < MaxOps
  /\ pc' = [pc EXCEPT ![t] = at]
  /\ arg' = [arg EXCEPT ![t] = [var |-> x, what |-> what]]
  /\ cursor' = [cursor EXCEPT ![t] = 0]
  /\ ops' = ops + 1

Return(t) ==
  /\ pc' = [pc EXCEPT ![t] = "idle"]
  /\ arg' = [arg EXCEPT ![t] = NoCall]
  /\ cursor' = [cursor EXCEPT ![t] = 0]
  /\ UNCHANGED ops

(* setValue(v), called by client code or by fromString. *)
SetValue(t, x, v) ==
  /\ Demand("serial_set", \A u \in Threads : ~Setting(u, x))
  /\ Demand("quiet_add", \A u \in Threads : Adding(u) => arg[u].var # x)
  /\ Call(t, "set", x, v)
  /\ UNCHANGED <<m_val, m_cbs, s_fun_id, readers, writer, view, reg, handle>>

(* The read lock is taken, and an unchanged value is nothing to do. *)
SetCompare(t) ==
  LET x == arg[t].var IN
  /\ pc[t] = "set" /\ CanRead(x)
  /\ IF arg[t].what = m_val[x]
     THEN Return(t) /\ UNCHANGED readers
     ELSE /\ pc' = [pc EXCEPT ![t] = "notify"]
          /\ readers' = [readers EXCEPT ![x] = @ \cup {t}]
          /\ UNCHANGED <<arg, cursor, ops>>
  /\ UNCHANGED <<m_val, m_cbs, s_fun_id, writer, view, reg, handle>>

(* The iterator over m_cbs goes from key to key. *)
Rest(t) == {k \in Keys : k > cursor[t] /\ m_cbs[arg[t].var][k] # Null}
NextKey(t) == CHOOSE k \in Rest(t) : \A j \in Rest(t) : k <= j

(* One listener is called: it takes the new value; or it throws, which ends
   setValue before the assignment; or it calls a mutator of the variable and
   waits for a write lock that its own thread's read lock keeps away. *)
SetNotify(t, outcome) ==
  LET x == arg[t].var
      l == m_cbs[x][NextKey(t)]
  IN
  /\ pc[t] = "notify" /\ Rest(t) # {}
  /\ Demand("no_throw", outcome # "throws")
  /\ Demand("no_reentry", outcome # "reenters")
  /\ CASE outcome = "returns" ->
            /\ view' = [view EXCEPT ![l] = arg[t].what]
            /\ cursor' = [cursor EXCEPT ![t] = NextKey(t)]
            /\ UNCHANGED <<readers, pc, arg, ops>>
       [] outcome = "throws" ->
            /\ readers' = [readers EXCEPT ![x] = @ \ {t}]
            /\ Return(t) /\ UNCHANGED view
       [] outcome = "reenters" ->
            /\ pc' = [pc EXCEPT ![t] = "reentered"]
            /\ UNCHANGED <<readers, arg, cursor, ops, view>>
  /\ UNCHANGED <<m_val, m_cbs, s_fun_id, writer, reg, handle>>

(* All listeners were told: the read lock is released. *)
SetNotified(t) ==
  LET x == arg[t].var IN
  /\ pc[t] = "notify" /\ Rest(t) = {}
  /\ readers' = [readers EXCEPT ![x] = @ \ {t}]
  /\ pc' = [pc EXCEPT ![t] = "assign"]
  /\ UNCHANGED <<m_val, m_cbs, s_fun_id, writer, arg, cursor, view, reg,
                 handle, ops>>

(* Fault: the assignment is forgotten. *)
SetAssignNothing(t) ==
  /\ pc[t] = "assign" /\ CanWrite(arg[t].var)
  /\ Return(t)
  /\ UNCHANGED <<m_val, m_cbs, s_fun_id, readers, writer, view, reg, handle>>

(* The write lock is taken, the value assigned, the lock released. *)
SetAssign(t) ==
  /\ pc[t] = "assign" /\ CanWrite(arg[t].var)
  /\ m_val' = [m_val EXCEPT ![arg[t].var] = arg[t].what]
  /\ Return(t)
  /\ UNCHANGED <<m_cbs, s_fun_id, readers, writer, view, reg, handle>>

(* addListener(cb). *)
AddListener(t, x, l) ==
  /\ reg[l] = Null /\ \A u \in Threads : Adding(u) => arg[u].what # l
  /\ Demand("serial_add", \A u \in Threads : ~Adding(u))
  /\ Demand("quiet_add", \A u \in Threads : ~Setting(u, x))
  /\ Call(t, "add", x, l)
  /\ UNCHANGED <<m_val, m_cbs, s_fun_id, readers, writer, view, reg, handle>>

AddLock(t) ==
  LET x == arg[t].var IN
  /\ pc[t] = "add" /\ CanWrite(x)
  /\ writer' = [writer EXCEPT ![x] = t]
  /\ pc' = [pc EXCEPT ![t] = "add_load"]
  /\ UNCHANGED <<m_val, m_cbs, s_fun_id, readers, arg, cursor, view, reg,
                 handle, ops>>

(* ++s_fun_id is a load and a store ... *)
AddLoad(t) ==
  /\ pc[t] = "add_load"
  /\ cursor' = [cursor EXCEPT ![t] = s_fun_id + 1]
  /\ pc' = [pc EXCEPT ![t] = "add_store"]
  /\ UNCHANGED <<m_val, m_cbs, s_fun_id, readers, writer, arg, view, reg,
                 handle, ops>>

(* Fault: the counter is not stored back. *)
AddStoreNothing(t) ==
  /\ pc[t] = "add_store"
  /\ pc' = [pc EXCEPT ![t] = "add_insert"]
  /\ UNCHANGED <<m_val, m_cbs, s_fun_id, readers, writer, arg, cursor, view,
                 reg, handle, ops>>

AddStore(t) ==
  /\ pc[t] = "add_store"
  /\ s_fun_id' = cursor[t]
  /\ pc' = [pc EXCEPT ![t] = "add_insert"]
  /\ UNCHANGED <<m_val, m_cbs, readers, writer, arg, cursor, view, reg,
                 handle, ops>>

(* ... and each later use reads s_fun_id again, or a register. *)
FunId(t) == {cursor[t], s_fun_id}

AddInsert(t, k) ==
  LET x == arg[t].var
      l == arg[t].what
  IN
  /\ pc[t] = "add_insert" /\ k \in FunId(t)
  /\ m_cbs' = [m_cbs EXCEPT ![x][k] = l]
  /\ view' = [view EXCEPT ![l] = m_val[x]]
  /\ pc' = [pc EXCEPT ![t] = "add_return"]
  /\ UNCHANGED <<m_val, s_fun_id, readers, writer, arg, cursor, reg, handle,
                 ops>>

(* Fault: the write lock stays locked. *)
AddReturnLocked(t, k) ==
  /\ pc[t] = "add_return" /\ k \in FunId(t)
  /\ reg' = [reg EXCEPT ![arg[t].what] = arg[t].var]
  /\ handle' = [handle EXCEPT ![arg[t].what] = k]
  /\ Return(t)
  /\ UNCHANGED <<m_val, m_cbs, s_fun_id, readers, writer, view>>

AddReturn(t, k) ==
  /\ pc[t] = "add_return" /\ k \in FunId(t)
  /\ reg' = [reg EXCEPT ![arg[t].what] = arg[t].var]
  /\ handle' = [handle EXCEPT ![arg[t].what] = k]
  /\ writer' = [writer EXCEPT ![arg[t].var] = Null]
  /\ Return(t)
  /\ UNCHANGED <<m_val, m_cbs, s_fun_id, readers, view>>

(* delListener(key) with the key that addListener returned. *)
DelListener(t, l) ==
  /\ pc[t] = "idle" /\ ops < MaxOps
  /\ reg[l] # Null /\ CanWrite(reg[l])
  /\ m_cbs' = IF handle[l] \in Keys
              THEN [m_cbs EXCEPT ![reg[l]][handle[l]] = Null] ELSE m_cbs
  /\ reg' = [reg EXCEPT ![l] = Null]
  /\ ops' = ops + 1
  /\ UNCHANGED <<m_val, s_fun_id, readers, writer, pc, arg, cursor, view,
                 handle>>

(* clearListener(). *)
ClearListener(t, x) ==
  /\ pc[t] = "idle" /\ ops < MaxOps
  /\ CanWrite(x)
  /\ m_cbs' = [m_cbs EXCEPT ![x] = [k \in Keys |-> Null]]
  /\ reg' = [l \in Listeners |-> IF reg[l] = x THEN Null ELSE reg[l]]
  /\ ops' = ops + 1
  /\ UNCHANGED <<m_val, s_fun_id, readers, writer, pc, arg, cursor, view,
                 handle>>

----------------------------------------------------------------------------
Outcomes == {"returns", "throws", "reenters"}

Begin(t) ==
  \/ \E x \in Vars, v \in Values : SetValue(t, x, v)
  \/ \E x \in Vars, l \in Listeners : AddListener(t, x, l)
  \/ \E l \in Listeners : DelListener(t, l)
  \/ \E x \in Vars : ClearListener(t, x)

Continue(t) ==
  \/ SetCompare(t)
  \/ \E outcome \in Outcomes : SetNotify(t, outcome)
  \/ SetNotified(t)
  \/ SetAssign(t)
  \/ AddLock(t)
  \/ AddLoad(t)
  \/ AddStore(t)
  \/ \E k \in Keys : AddInsert(t, k)
  \/ \E k \in Keys : AddReturn(t, k)

Next == \E t \in Threads : Begin(t) \/ Continue(t)

Spec == Init /\ [][Next]_vars

(* A thread inside a call is scheduled.  The lock is not fair: a writer can
   starve while readers keep coming, and only MaxOps ends that here. *)
FairSpec == Spec /\ \A t \in Threads : WF_vars(Continue(t))

----------------------------------------------------------------------------
(* Properties.                                                             *)

(* Between two setValue calls every listener has the variable's value: none
   was told a value that was not assigned, and none missed one. *)
ViewsAgree ==
  \A x \in Vars : (\A t \in Threads : ~Setting(t, x)) =>
    \A k \in Keys : m_cbs[x][k] # Null => view[m_cbs[x][k]] = m_val[x]

(* The map changes only by its owner's calls: the key addListener returned
   finds that listener and no other, and a listener that was removed is not
   called again. *)
KeyOwned ==
  /\ \A l \in Listeners : reg[l] # Null =>
       handle[l] \in Keys /\ m_cbs[reg[l]][handle[l]] = l
  /\ \A x \in Vars, k \in Keys : m_cbs[x][k] # Null =>
       \/ reg[m_cbs[x][k]] = x /\ handle[m_cbs[x][k]] = k
       \/ \E t \in Threads : pc[t] = "add_return" /\ arg[t].what = m_cbs[x][k]

(* Every call returns: no thread waits for a lock forever. *)
CallsReturn == \A t \in Threads : pc[t] # "idle" ~> pc[t] = "idle"
=============================================================================
