------------------------------- MODULE Config -------------------------------
(***************************************************************************)
(* The registry of sylar/config.h and sylar/config.cc: Config::Lookup,     *)
(* LookupBase, Visit and LoadFromYaml over one map from names to           *)
(* variables, under one read-write lock.                                   *)
(*                                                                         *)
(* Clients keep the handles Lookup gives them (static ConfigVar::ptr       *)
(* globals) for good; the registry and the loader only know names.  A      *)
(* variable is an object with a type and a value; ConfigVar models what    *)
(* its setValue does inside.  A document is the sequence of names and      *)
(* texts that ListAllMember makes of a YAML tree (see ConfigTree), with    *)
(* the root under the empty name first; a name can occur twice, as the key *)
(* `a.b' and as `b' inside `a'.                                            *)
(***************************************************************************)
EXTENDS Integers, Sequences, FiniteSetsExt

CONSTANTS
  Threads,
  Objs,        \* bound: variables ever created
  Names,       \* the names that variables are registered under
  OtherNames,  \* names of documents that nobody registers, "" among them
  Types,
  TypeOf,      \* TypeOf[n]: the type callers agree to look n up with
  Inputs,      \* texts of a document
  Values,      \* Values[ty]: the values of type ty that occur
  Parse(_, _), \* Parse(ty, s): LexicalCast<string, ty>(s), Null if it throws
  Text(_, _),  \* Text(ty, v): LexicalCast<ty, string>(v)
  Fragile,     \* containers among them that YAML does not give back
  Default,     \* Default[ty]: the default_value passed with type ty
  Docs,        \* documents: sequences of <<name, text>>
  Null,
  Contract,    \* what callers respect
  MaxCalls     \* bound: LoadFromYaml, Visit and setValue calls in one run

Clauses ==
  { "one_type",      \* every Lookup of a name uses the same type
    "serial_load",   \* nothing else writes values during a LoadFromYaml
    "visit_reads",   \* a Visit callback registers nothing
    "no_throw",      \* no listener throws
    "plain_text" }   \* no call and no document makes a fragile value

ASSUME ConfigAssumption ==
  /\ Names \cap OtherNames = {}
  /\ TypeOf \in [Names -> Types]
  /\ \A ty \in Types :
       /\ Null \notin Values[ty] /\ Default[ty] \in Values[ty]
       /\ \A s \in Inputs : Parse(ty, s) \in Values[ty] \cup {Null}
  /\ Docs \subseteq Seq((Names \cup OtherNames) \X Inputs)
  /\ Null \notin Threads \cup Objs \cup Names \cup Types
  /\ Contract \subseteq Clauses
  /\ MaxCalls \in Nat

VARIABLES
  m_datas,   \* the registered variable of each name, or Null
  type,      \* the type of each variable, Null before it is created
  name,      \* and its m_name
  m_val,     \* and its value
  readers,   \* threads that hold the registry's read lock
  pc,        \* where each thread stands
  doc,       \* LoadFromYaml: its argument
  todo,      \* LoadFromYaml: the positions of the entries left
  var,       \* LoadFromYaml: what LookupBase found
  before,    \* LoadFromYaml: the names registered when it began
  seen,      \* Visit: the variables its callback was given
  last,      \* the load that ended last, while no other write began
  calls      \* calls made

vars == <<m_datas, type, name, m_val, readers, pc, doc, todo, var, before,
          seen, last, calls>>

Created == {o \in Objs : type[o] # Null}
Registered == {n \in Names : m_datas[n] # Null}
AllValues == UNION {Values[ty] : ty \in Types}
NoLoad == [doc |-> <<>>, before |-> {}]

TypeOK ==
  /\ m_datas \in [Names -> Created \cup {Null}]
  /\ type \in [Objs -> Types \cup {Null}]
  /\ name \in [Objs -> Names \cup {Null}]
  /\ m_val \in [Objs -> AllValues \cup {Null}]
  /\ \A o \in Created : name[o] \in Names /\ m_val[o] \in Values[type[o]]
  /\ readers \subseteq Threads
  /\ pc \in [Threads -> {"idle", "find", "apply", "visit", "stuck"}]
  /\ doc \in [Threads -> Docs \cup {<<>>}]
  /\ todo \in [Threads -> SUBSET Nat]
  /\ var \in [Threads -> Created \cup {Null}]
  /\ before \in [Threads -> SUBSET Names]
  /\ seen \in [Threads -> SUBSET Created]
  /\ calls \in 0..MaxCalls

Init ==
  /\ m_datas = [n \in Names |-> Null]
  /\ type = [o \in Objs |-> Null]
  /\ name = [o \in Objs |-> Null]
  /\ m_val = [o \in Objs |-> Null]
  /\ readers = {}
  /\ pc = [t \in Threads |-> "idle"]
  /\ doc = [t \in Threads |-> <<>>]
  /\ todo = [t \in Threads |-> {}]
  /\ var = [t \in Threads |-> Null]
  /\ before = [t \in Threads |-> {}]
  /\ seen = [t \in Threads |-> {}]
  /\ last = NoLoad
  /\ calls = 0

----------------------------------------------------------------------------
Demand(clause, P) == clause \in Contract => P

Loading(t) == pc[t] \in {"find", "apply"}

Call(t) == pc[t] = "idle" /\ calls < MaxCalls /\ calls' = calls + 1

(* Fault: an existing entry is replaced even when its type is right. *)
NeverFound(n, ty) == FALSE

(* The entry exists and dynamic_pointer_cast succeeds. *)
Found(n, ty) == n \in Registered /\ type[m_datas[n]] = ty

(* Lookup(name, default_value) where it creates: no entry, or one of another
   type, which is logged and then replaced.  Where the entry is found, and
   where the name is illegal and Lookup throws, nothing changes. *)
Lookup(t, n, ty, o) ==
  /\ pc[t] = "idle" /\ readers = {}
  /\ Demand("one_type", ty = TypeOf[n])
  /\ ~Found(n, ty) /\ o \notin Created
  /\ type' = [type EXCEPT ![o] = ty]
  /\ name' = [name EXCEPT ![o] = n]
  /\ m_val' = [m_val EXCEPT ![o] = Default[ty]]
  /\ m_datas' = [m_datas EXCEPT ![n] = o]
  /\ UNCHANGED <<readers, pc, doc, todo, var, before, seen, last, calls>>

(* setValue: a listener that throws keeps the assignment from happening. *)
Assign(o, v) ==
  \E throws \in BOOLEAN :
    /\ Demand("no_throw", ~throws)
    /\ m_val' = IF throws THEN m_val ELSE [m_val EXCEPT ![o] = v]

(* A client sets a variable through its handle. *)
SetValue(t, o, v) ==
  /\ Call(t) /\ v \in Values[type[o]]
  /\ Demand("plain_text", v \notin Fragile)
  /\ Demand("serial_load", \A u \in Threads : ~Loading(u))
  /\ Assign(o, v)
  /\ last' = NoLoad
  /\ UNCHANGED <<m_datas, type, name, readers, pc, doc, todo, var, before,
                 seen>>

(* No text of the document makes a fragile value of its variable, as a map
   would that is loaded into a list of strings. *)
PlainDoc(d) ==
  \A i \in DOMAIN d :
    d[i][1] \in Names => Parse(TypeOf[d[i][1]], d[i][2]) \notin Fragile

(* LoadFromYaml(root): the empty name is skipped, and LookupBase will not find
   the others that nobody registers. *)
LoadFromYaml(t, d) ==
  /\ Call(t)
  /\ Demand("plain_text", PlainDoc(d))
  /\ Demand("serial_load", \A u \in Threads : ~Loading(u))
  /\ pc' = [pc EXCEPT ![t] = "find"]
  /\ doc' = [doc EXCEPT ![t] = d]
  /\ todo' = [todo EXCEPT ![t] = {i \in DOMAIN d : d[i][1] \in Names}]
  /\ before' = [before EXCEPT ![t] = Registered]
  /\ last' = NoLoad
  /\ UNCHANGED <<m_datas, type, name, m_val, readers, var, seen>>

(* The loop goes through what is left in the order of the document. *)
Entry(t) == doc[t][Min(todo[t])]

(* Fault: LoadFromYaml stops at the first key nobody registered. *)
LoadFindBreaks(t) ==
  /\ pc[t] = "find" /\ todo[t] # {}
  /\ LET o == m_datas[Entry(t)[1]] IN
     IF o # Null
     THEN /\ var' = [var EXCEPT ![t] = o]
          /\ pc' = [pc EXCEPT ![t] = "apply"]
          /\ UNCHANGED todo
     ELSE todo' = [todo EXCEPT ![t] = {}] /\ UNCHANGED <<var, pc>>
  /\ UNCHANGED <<m_datas, type, name, m_val, readers, doc, before, seen, last,
                 calls>>

(* LookupBase(key): a key nobody registered is skipped. *)
LoadFind(t) ==
  /\ pc[t] = "find" /\ todo[t] # {}
  /\ LET o == m_datas[Entry(t)[1]] IN
     IF o # Null
     THEN /\ var' = [var EXCEPT ![t] = o]
          /\ pc' = [pc EXCEPT ![t] = "apply"]
          /\ UNCHANGED todo
     ELSE todo' = [todo EXCEPT ![t] = @ \ {Min(todo[t])}] /\ UNCHANGED <<var, pc>>
  /\ UNCHANGED <<m_datas, type, name, m_val, readers, doc, before, seen, last,
                 calls>>

(* Fault: a text that does not convert is stored all the same. *)
FromStringUnchecked(o, s) == m_val' = [m_val EXCEPT ![o] = Parse(type[o], s)]

(* fromString(text) of the variable: setValue of what the text converts to.
   What the conversion or a listener throws is logged and dropped. *)
FromString(o, s) ==
  LET v == Parse(type[o], s) IN
  IF v = Null THEN UNCHANGED m_val ELSE Assign(o, v)

LoadApply(t) ==
  /\ pc[t] = "apply"
  /\ FromString(var[t], Entry(t)[2])
  /\ todo' = [todo EXCEPT ![t] = @ \ {Min(todo[t])}]
  /\ var' = [var EXCEPT ![t] = Null]
  /\ pc' = [pc EXCEPT ![t] = "find"]
  /\ UNCHANGED <<m_datas, type, name, readers, doc, before, seen, last, calls>>

LoadEnd(t) ==
  /\ pc[t] = "find" /\ todo[t] = {}
  /\ last' = [doc |-> doc[t], before |-> before[t]]
  /\ pc' = [pc EXCEPT ![t] = "idle"]
  /\ doc' = [doc EXCEPT ![t] = <<>>]
  /\ before' = [before EXCEPT ![t] = {}]
  /\ UNCHANGED <<m_datas, type, name, m_val, readers, todo, var, seen, calls>>

(* Visit(cb): the read lock is held from the first callback to the last. *)
Visit(t) ==
  /\ Call(t)
  /\ pc' = [pc EXCEPT ![t] = "visit"]
  /\ readers' = readers \cup {t}
  /\ UNCHANGED <<m_datas, type, name, m_val, doc, todo, var, before, seen,
                 last>>

(* One call of cb.  A callback that registers a variable waits for the write
   lock, which its own thread's read lock keeps away. *)
VisitNext(t, n, registers) ==
  /\ pc[t] = "visit" /\ n \in Registered /\ m_datas[n] \notin seen[t]
  /\ Demand("visit_reads", ~registers)
  /\ seen' = [seen EXCEPT ![t] = @ \cup {m_datas[n]}]
  /\ pc' = IF registers THEN [pc EXCEPT ![t] = "stuck"] ELSE pc
  /\ UNCHANGED <<m_datas, type, name, m_val, readers, doc, todo, var, before,
                 last, calls>>

(* Fault: Visit keeps its read lock. *)
VisitEndLocked(t) ==
  /\ pc[t] = "visit" /\ \A n \in Registered : m_datas[n] \in seen[t]
  /\ pc' = [pc EXCEPT ![t] = "idle"]
  /\ seen' = [seen EXCEPT ![t] = {}]
  /\ UNCHANGED <<m_datas, type, name, m_val, readers, doc, todo, var, before,
                 last, calls>>

VisitEnd(t) ==
  /\ pc[t] = "visit" /\ \A n \in Registered : m_datas[n] \in seen[t]
  /\ pc' = [pc EXCEPT ![t] = "idle"]
  /\ readers' = readers \ {t}
  /\ seen' = [seen EXCEPT ![t] = {}]
  /\ UNCHANGED <<m_datas, type, name, m_val, doc, todo, var, before, last,
                 calls>>

----------------------------------------------------------------------------
Begin(t) ==
  \/ \E n \in Names, ty \in Types, o \in Objs : Lookup(t, n, ty, o)
  \/ \E o \in Created : \E v \in Values[type[o]] : SetValue(t, o, v)
  \/ \E d \in Docs : LoadFromYaml(t, d)
  \/ Visit(t)

Continue(t) ==
  \/ LoadFind(t)
  \/ LoadApply(t)
  \/ LoadEnd(t)
  \/ \E n \in Names, registers \in BOOLEAN : VisitNext(t, n, registers)
  \/ VisitEnd(t)

Next == \E t \in Threads : Begin(t) \/ Continue(t)

Spec == Init /\ [][Next]_vars

(* A thread inside a call is scheduled. *)
FairSpec == Spec /\ \A t \in Threads : WF_vars(Continue(t))

----------------------------------------------------------------------------
(* Properties.                                                             *)

(* Every handle a client holds is the one the registry knows under its name:
   a later Lookup returns it, and LoadFromYaml reaches it. *)
HandleIsRegistered == \A o \in Created : m_datas[name[o]] = o

(* What a document says of a name: the last of its texts that converts. *)
Says(d, n, ty, v) ==
  \E i \in DOMAIN d :
    /\ d[i][1] = n /\ v = Parse(ty, d[i][2]) /\ v # Null
    /\ \A j \in DOMAIN d : j > i /\ d[j][1] = n => Parse(ty, d[j][2]) = Null

(* A LoadFromYaml that ended has given every variable registered before it
   the value its document says, whatever else the document holds: unknown and
   nested names, texts that do not convert. *)
LoadTakesEffect ==
  \A n \in last.before :
    LET o == m_datas[n] IN
    \A v \in Values[type[o]] : Says(last.doc, n, type[o], v) => m_val[o] = v

(* What toString() shows of a variable, as a Visit of tests/test_config.cc
   prints it, is read by fromString() as the value the variable has. *)
TextReloads ==
  \A o \in Created : Parse(type[o], Text(type[o], m_val[o])) = m_val[o]

(* Every call returns, and the registry's lock comes free for a Lookup that
   waits to register. *)
CallsReturn ==
  /\ \A t \in Threads : pc[t] # "idle" ~> pc[t] = "idle"
  /\ readers # {} ~> readers = {}
=============================================================================
