-------------------------- MODULE ConfigVarProofs ---------------------------
(***************************************************************************)
(* Under its contract ConfigVar keeps its listeners' views and its key map *)
(* for any number of variables, threads, listeners and calls.  Neither     *)
(* property is inductive: setValue tells the listeners first and assigns   *)
(* later, with no lock in between, so the views need to know how far its   *)
(* loop has come; and that a key is its owner's needs the counter, which   *)
(* no lock protects, to be ahead of every key in every map.                *)
(***************************************************************************)
EXTENDS ConfigVar, WellFoundedInduction, TLAPS

Locked == {"add_load", "add_store", "add_insert", "add_return"}

(* What a thread inside setValue or addListener may rely on. *)
StageInv(t) ==
  /\ pc[t] \in SetPC => /\ pc[t] # "reentered"
                        /\ arg[t].var \in Vars /\ arg[t].what \in Values
  /\ pc[t] = "set" => cursor[t] = 0
  /\ pc[t] = "notify" => t \in readers[arg[t].var]
  /\ pc[t] \in AddPC => /\ arg[t].var \in Vars /\ arg[t].what \in Listeners
                        /\ reg[arg[t].what] = Null
  /\ pc[t] \in {"add", "add_load", "add_store"} => s_fun_id < ops
  /\ pc[t] \in Locked => writer[arg[t].var] = t
  /\ pc[t] = "add_store" => cursor[t] = s_fun_id + 1
  /\ pc[t] \in {"add_insert", "add_return"} =>
       cursor[t] = s_fun_id /\ s_fun_id \in Keys
  /\ pc[t] = "add_insert" => \A x \in Vars : m_cbs[x][s_fun_id] = Null
  /\ pc[t] = "add_return" => m_cbs[arg[t].var][s_fun_id] = arg[t].what

(* The calls the contract keeps apart. *)
Serial ==
  \A t, u \in Threads : t # u =>
    /\ ~(pc[t] \in AddPC /\ pc[u] \in AddPC)
    /\ pc[t] \in SetPC /\ pc[u] \in SetPC \cup AddPC => arg[t].var # arg[u].var

(* An entry of the map was given its key by the counter, and is known to its
   owner, or will be when addListener returns. *)
EntryInv(x, k) ==
  m_cbs[x][k] # Null =>
    /\ k <= s_fun_id
    /\ \/ reg[m_cbs[x][k]] = x /\ handle[m_cbs[x][k]] = k
       \/ \E t \in Threads : /\ pc[t] = "add_return" /\ cursor[t] = k
                             /\ arg[t] = [var |-> x, what |-> m_cbs[x][k]]

(* The view of a listener during a setValue: the loop has told it the new
   value, or will; and outside of one. *)
ViewInv(x, k) ==
  m_cbs[x][k] # Null =>
    /\ \/ view[m_cbs[x][k]] = m_val[x]
       \/ \E t \in Threads : pc[t] \in {"notify", "assign"} /\ arg[t].var = x
    /\ \A t \in Threads :
         /\ arg[t].var = x
         /\ pc[t] = "assign" \/ (pc[t] = "notify" /\ k <= cursor[t])
         => view[m_cbs[x][k]] = arg[t].what

(* A registered listener is where its key says. *)
RegInv(l) ==
  reg[l] # Null => handle[l] \in Keys /\ m_cbs[reg[l]][handle[l]] = l

IInv ==
  /\ TypeOK
  /\ s_fun_id <= ops
  /\ Serial
  /\ \A t \in Threads : StageInv(t)
  /\ \A l \in Listeners : RegInv(l)
  /\ \A x \in Vars, k \in Keys : EntryInv(x, k) /\ ViewInv(x, k)

----------------------------------------------------------------------------
(* A set of keys has a least one, so the listeners' loop has a next key. *)
LEMMA LeastKey ==
  ASSUME NEW S \in SUBSET Nat, S # {}
  PROVE  \E k \in S : \A j \in S : k <= j
<1> DEFINE R == {ss \in Nat \X Nat : ss[1] < ss[2]}
<1>1. IsWellFoundedOn(R, Nat)
  BY NatLessThanWellFounded DEF OpToRel
<1>2. PICK k \in S : \A j \in S : ~(<<j, k>> \in R)
  BY <1>1, WFMin, Zenon
<1>3. \A j \in S : j < k => <<j, k>> \in R
  OBVIOUS
<1>4. k \in Nat /\ \A j \in S : j \in Nat
  OBVIOUS
<1> HIDE DEF R
<1>5. \A j \in S : ~(j < k)
  BY <1>2, <1>3, Zenon
<1>6. \A j \in S : k <= j
  BY <1>4, <1>5
<1> QED BY <1>6

(* A step of thread t leaves the other threads where they are. *)
Others(t) ==
  \A u \in Threads : u # t =>
    pc'[u] = pc[u] /\ arg'[u] = arg[u] /\ cursor'[u] = cursor[u]

LEMMA SerialFrame ==
  ASSUME Serial, NEW t \in Threads, Others(t),
         \/ pc'[t] \notin SetPC \cup AddPC
         \/ /\ arg'[t] = arg[t]
            /\ \/ pc[t] \in SetPC /\ pc'[t] \in SetPC
               \/ pc[t] \in AddPC /\ pc'[t] \in AddPC
  PROVE  Serial'
<1>1. SUFFICES ASSUME NEW u \in Threads, NEW v \in Threads, u # v
      PROVE  /\ ~(pc'[u] \in AddPC /\ pc'[v] \in AddPC)
             /\ pc'[u] \in SetPC /\ pc'[v] \in SetPC \cup AddPC =>
                  arg'[u].var # arg'[v].var
  BY DEF Serial
<1>2. SetPC \cap AddPC = {}
  BY DEF SetPC, AddPC
<1>3. /\ \/ pc'[u] \notin SetPC \cup AddPC
         \/ /\ arg'[u] = arg[u]
            /\ \/ pc[u] \in SetPC /\ pc'[u] \in SetPC
               \/ pc[u] \in AddPC /\ pc'[u] \in AddPC
      /\ \/ pc'[v] \notin SetPC \cup AddPC
         \/ /\ arg'[v] = arg[v]
            /\ \/ pc[v] \in SetPC /\ pc'[v] \in SetPC
               \/ pc[v] \in AddPC /\ pc'[v] \in AddPC
  BY DEF Others
<1> QED BY <1>1, <1>2, <1>3 DEF Serial

LEMMA StageFrame ==
  ASSUME NEW t \in Threads, Others(t), NEW u \in Threads, u # t, StageInv(u),
         UNCHANGED <<m_cbs, reg, s_fun_id>>,
         s_fun_id < ops => s_fun_id < ops',
         \A x \in Vars : u \in readers[x] => u \in readers'[x],
         \A x \in Vars : writer[x] = u => writer'[x] = u
  PROVE  StageInv(u)'
<1>1. pc'[u] = pc[u] /\ arg'[u] = arg[u] /\ cursor'[u] = cursor[u]
  BY DEF Others
<1> QED BY <1>1 DEF StageInv, SetPC, AddPC, Locked

LEMMA EntryFrame ==
  ASSUME NEW t \in Threads, Others(t), NEW x \in Vars, NEW k \in Keys,
         EntryInv(x, k), pc[t] # "add_return",
         UNCHANGED <<m_cbs, reg, handle, s_fun_id>>
  PROVE  EntryInv(x, k)'
BY DEF EntryInv, Others

LEMMA ViewFrame ==
  ASSUME NEW t \in Threads, Others(t), NEW x \in Vars, NEW k \in Keys,
         ViewInv(x, k), UNCHANGED <<m_cbs, view, m_val>>,
         pc[t] \notin {"notify", "assign"}, pc'[t] \notin {"notify", "assign"}
  PROVE  ViewInv(x, k)'
BY DEF ViewInv, Others

(* No listener is in the maps twice. *)
LEMMA EntryUnique ==
  ASSUME IInv, NEW x \in Vars, NEW k \in Keys, NEW y \in Vars, NEW j \in Keys,
         m_cbs[x][k] # Null, m_cbs[x][k] = m_cbs[y][j]
  PROVE  x = y /\ k = j
<1> DEFINE l == m_cbs[x][k]
<1>1. EntryInv(x, k) /\ EntryInv(y, j)
  BY DEF IInv
<1>2. \A t \in Threads : pc[t] = "add_return" => reg[arg[t].what] = Null
  BY DEF IInv, StageInv, AddPC
<1>3. \A t, u \in Threads : pc[t] = "add_return" /\ pc[u] = "add_return" => t = u
  BY DEF IInv, Serial, AddPC
<1>4. x # Null /\ y # Null
  BY ConfigVarAssumption
<1>5. CASE reg[l] # Null
  BY <1>1, <1>2, <1>5 DEF EntryInv
<1>6. CASE reg[l] = Null
  <2>1. PICK t \in Threads : /\ pc[t] = "add_return" /\ cursor[t] = k
                             /\ arg[t] = [var |-> x, what |-> l]
    BY <1>1, <1>4, <1>6 DEF EntryInv
  <2>2. PICK u \in Threads : /\ pc[u] = "add_return" /\ cursor[u] = j
                             /\ arg[u] = [var |-> y, what |-> l]
    BY <1>1, <1>4, <1>6 DEF EntryInv
  <2> QED BY <1>3, <2>1, <2>2
<1> QED BY <1>5, <1>6

----------------------------------------------------------------------------
LEMMA InitInv == ASSUME Init PROVE IInv
<1>1. TypeOK
  BY ConfigVarAssumption DEF Init, InitRest, TypeOK, NoCall
<1>2. s_fun_id <= ops /\ Serial /\ \A t \in Threads : StageInv(t)
  BY DEF Init, InitRest, Serial, StageInv, SetPC, AddPC, Locked
<1>3. \A l \in Listeners : RegInv(l)
  BY DEF Init, InitRest, RegInv
<1>4. \A x \in Vars, k \in Keys : EntryInv(x, k) /\ ViewInv(x, k)
  BY DEF Init, InitRest, EntryInv, ViewInv
<1> QED BY <1>1, <1>2, <1>3, <1>4 DEF IInv
----------------------------------------------------------------------------
(* A call starts, and ends, in one thread. *)
LEMMA CallMoves ==
  ASSUME IInv, NEW t \in Threads, NEW at \in SetPC \cup AddPC, NEW x \in Vars,
         NEW w \in Values \cup Listeners, Call(t, at, x, w)
  PROVE  /\ pc[t] = "idle" /\ Others(t)
         /\ pc'[t] = at /\ arg'[t].var = x /\ arg'[t].what = w /\ cursor'[t] = 0
         /\ pc' \in [Threads -> {"idle"} \cup SetPC \cup AddPC]
         /\ arg' \in [Threads -> [var : Vars \cup {Null},
                                  what : Values \cup Listeners \cup {Null}]]
         /\ cursor' \in [Threads -> Keys \cup {0}]
         /\ ops' = ops + 1 /\ ops' \in 0..MaxOps
<1>1. /\ pc[t] = "idle" /\ ops < MaxOps /\ ops' = ops + 1
      /\ pc' = [pc EXCEPT ![t] = at]
      /\ arg' = [arg EXCEPT ![t] = [var |-> x, what |-> w]]
      /\ cursor' = [cursor EXCEPT ![t] = 0]
  BY DEF Call
<1>2. ops' \in 0..MaxOps
  BY <1>1, ConfigVarAssumption DEF IInv, TypeOK
<1>3. /\ pc \in [Threads -> {"idle"} \cup SetPC \cup AddPC]
      /\ arg \in [Threads -> [var : Vars \cup {Null},
                              what : Values \cup Listeners \cup {Null}]]
      /\ cursor \in [Threads -> Keys \cup {0}]
  BY DEF IInv, TypeOK
<1> QED BY <1>1, <1>2, <1>3 DEF Others

LEMMA ReturnMoves ==
  ASSUME IInv, NEW t \in Threads, Return(t)
  PROVE  /\ Others(t) /\ pc'[t] = "idle" /\ ops' = ops
         /\ pc' \in [Threads -> {"idle"} \cup SetPC \cup AddPC]
         /\ arg' \in [Threads -> [var : Vars \cup {Null},
                                  what : Values \cup Listeners \cup {Null}]]
         /\ cursor' \in [Threads -> Keys \cup {0}]
<1>1. /\ pc' = [pc EXCEPT ![t] = "idle"] /\ ops' = ops
      /\ arg' = [arg EXCEPT ![t] = NoCall]
      /\ cursor' = [cursor EXCEPT ![t] = 0]
  BY DEF Return
<1>2. /\ pc \in [Threads -> {"idle"} \cup SetPC \cup AddPC]
      /\ arg \in [Threads -> [var : Vars \cup {Null},
                              what : Values \cup Listeners \cup {Null}]]
      /\ cursor \in [Threads -> Keys \cup {0}]
  BY DEF IInv, TypeOK
<1> QED BY <1>1, <1>2 DEF Others, NoCall

LEMMA SetValueInv ==
  ASSUME IInv, Contract = Clauses, NEW t \in Threads, NEW x \in Vars,
         NEW v \in Values, SetValue(t, x, v)
  PROVE  IInv'
<1>1. /\ \A u \in Threads : pc[u] \in SetPC \cup AddPC => arg[u].var # x
      /\ Call(t, "set", x, v)
      /\ UNCHANGED <<m_val, m_cbs, s_fun_id, readers, writer, view, reg, handle>>
  BY DEF SetValue, Demand, Clauses, Setting, Adding
<1>2. /\ pc[t] = "idle" /\ Others(t)
      /\ pc'[t] = "set" /\ arg'[t].var = x /\ arg'[t].what = v /\ cursor'[t] = 0
      /\ ops' = ops + 1
  BY <1>1, CallMoves DEF SetPC
<1>3. TypeOK'
  BY <1>1, CallMoves DEF SetPC, IInv, TypeOK
<1>4. ops \in Nat /\ s_fun_id \in Int
  BY ConfigVarAssumption DEF IInv, TypeOK, Keys
<1>5. s_fun_id' <= ops' /\ (s_fun_id < ops => s_fun_id < ops')
  BY <1>1, <1>2, <1>4 DEF IInv
<1>6. Serial'
  <2>1. "set" \in SetPC /\ "set" \notin AddPC
    BY DEF SetPC, AddPC
  <2> QED BY <1>1, <1>2, <2>1 DEF IInv, Serial, Others
<1>7. ASSUME NEW u \in Threads PROVE StageInv(u)'
  <2>1. CASE u = t
    BY <1>2, <2>1 DEF StageInv, SetPC, AddPC, Locked
  <2>2. CASE u # t
    BY <1>1, <1>2, <1>5, <2>2, StageFrame DEF IInv
  <2> QED BY <2>1, <2>2
<1>8. \A l \in Listeners : RegInv(l)'
  BY <1>1 DEF IInv, RegInv
<1>9. \A y \in Vars, k \in Keys : EntryInv(y, k)' /\ ViewInv(y, k)'
  BY <1>1, <1>2, EntryFrame, ViewFrame DEF IInv
<1> QED BY <1>3, <1>5, <1>6, <1>7, <1>8, <1>9 DEF IInv

LEMMA SetCompareInv ==
  ASSUME IInv, NEW t \in Threads, SetCompare(t)
  PROVE  IInv'
<1> DEFINE x == arg[t].var
<1>1. /\ pc[t] = "set"
      /\ UNCHANGED <<m_val, m_cbs, s_fun_id, writer, view, reg, handle>>
      /\ ops' = ops
  BY DEF SetCompare, Return
<1>2. x \in Vars /\ cursor[t] = 0
  BY <1>1 DEF IInv, StageInv, SetPC
<1>3. \A l \in Listeners : RegInv(l)'
  BY <1>1 DEF IInv, RegInv
<1>4. CASE arg[t].what = m_val[x]
  <2>1. Return(t) /\ UNCHANGED readers
    BY <1>4 DEF SetCompare
  <2>2. Others(t) /\ pc'[t] = "idle"
    BY <2>1, ReturnMoves
  <2>3. TypeOK'
    BY <1>1, <2>1, ReturnMoves DEF IInv, TypeOK
  <2>4. Serial'
    BY <2>2, SerialFrame DEF IInv, SetPC, AddPC
  <2>5. ASSUME NEW u \in Threads PROVE StageInv(u)'
    <3>1. CASE u = t
      BY <2>2, <3>1 DEF StageInv, SetPC, AddPC, Locked
    <3>2. CASE u # t
      BY <1>1, <2>1, <2>2, <3>2, StageFrame DEF IInv
    <3> QED BY <3>1, <3>2
  <2>6. \A y \in Vars, k \in Keys : EntryInv(y, k)' /\ ViewInv(y, k)'
    BY <1>1, <2>2, EntryFrame, ViewFrame DEF IInv
  <2> QED BY <1>1, <1>3, <2>3, <2>4, <2>5, <2>6 DEF IInv
<1>5. CASE arg[t].what # m_val[x]
  <2>1. /\ pc' = [pc EXCEPT ![t] = "notify"]
        /\ readers' = [readers EXCEPT ![x] = @ \cup {t}]
        /\ UNCHANGED <<arg, cursor>>
    BY <1>5 DEF SetCompare
  <2>2. TypeOK' /\ Others(t) /\ pc'[t] = "notify"
    BY <1>1, <1>2, <2>1 DEF IInv, TypeOK, Others, SetPC
  <2>3. t \in readers'[x] /\ \A y \in Vars : readers[y] \subseteq readers'[y]
    BY <1>2, <2>1 DEF IInv, TypeOK
  <2>4. Serial'
    BY <1>1, <2>1, <2>2, SerialFrame DEF IInv, SetPC
  <2>5. ASSUME NEW u \in Threads PROVE StageInv(u)'
    <3>1. CASE u = t
      <4>1. StageInv(t)
        BY DEF IInv
      <4> QED BY <1>1, <2>1, <2>2, <2>3, <3>1, <4>1 DEF StageInv, SetPC, AddPC, Locked
    <3>2. CASE u # t
      BY <1>1, <2>2, <2>3, <3>2, StageFrame DEF IInv
    <3> QED BY <3>1, <3>2
  <2>6. ASSUME NEW y \in Vars, NEW k \in Keys PROVE EntryInv(y, k)' /\ ViewInv(y, k)'
    <3>1. ~(k <= cursor[t])
      BY <1>2 DEF Keys
    <3>2. ViewInv(y, k)
      BY DEF IInv
    <3>3. ViewInv(y, k)'
      BY <1>1, <2>1, <2>2, <3>1, <3>2 DEF ViewInv, Others
    <3> QED BY <1>1, <2>2, <3>3, EntryFrame DEF IInv
  <2> QED BY <1>1, <1>3, <2>2, <2>4, <2>5, <2>6 DEF IInv
<1> QED BY <1>4, <1>5
(* The loop calls the listeners in the order of their keys and skips none. *)
LEMMA NextKeyIsNext ==
  ASSUME IInv, NEW t \in Threads, pc[t] = "notify", Rest(t) # {}
  PROVE  /\ NextKey(t) \in Keys /\ m_cbs[arg[t].var][NextKey(t)] # Null
         /\ \A k \in Keys : m_cbs[arg[t].var][k] # Null /\ k <= NextKey(t) =>
              k <= cursor[t] \/ k = NextKey(t)
<1>1. Rest(t) \in SUBSET Nat /\ Rest(t) \subseteq Keys
  BY DEF Rest, Keys
<1>2. NextKey(t) \in Rest(t) /\ \A j \in Rest(t) : NextKey(t) <= j
  BY <1>1, LeastKey, Zenon DEF NextKey
<1>3. \A k \in Keys : m_cbs[arg[t].var][k] # Null /\ ~(k <= cursor[t]) => k \in Rest(t)
  <2>1. cursor[t] \in Int /\ \A k \in Keys : k \in Int
    BY DEF IInv, TypeOK, Keys
  <2> QED BY <2>1 DEF Rest
<1>4. \A j, k \in Keys : j <= k /\ k <= j => j = k
  BY DEF Keys
<1>5. NextKey(t) \in Keys /\ m_cbs[arg[t].var][NextKey(t)] # Null
  BY <1>2 DEF Rest
<1> QED BY <1>2, <1>3, <1>4, <1>5

LEMMA SetNotifyInv ==
  ASSUME IInv, Contract = Clauses, NEW t \in Threads, NEW outcome \in Outcomes,
         SetNotify(t, outcome)
  PROVE  IInv'
<1> DEFINE x == arg[t].var
           next == NextKey(t)
           l == m_cbs[x][next]
<1>1. outcome = "returns"
  BY DEF SetNotify, Demand, Clauses, Outcomes
<1>2. /\ pc[t] = "notify" /\ Rest(t) # {}
      /\ view' = [view EXCEPT ![l] = arg[t].what]
      /\ cursor' = [cursor EXCEPT ![t] = next]
      /\ UNCHANGED <<m_val, m_cbs, s_fun_id, readers, writer, pc, arg, reg,
                     handle, ops>>
  BY <1>1 DEF SetNotify
<1>3. next \in Keys /\ l # Null
  BY <1>2, NextKeyIsNext
<1>4. \A k \in Keys : m_cbs[x][k] # Null /\ k <= next => k <= cursor[t] \/ k = next
  BY <1>2, NextKeyIsNext
<1> HIDE DEF next
<1>5. x \in Vars /\ arg[t].what \in Values
  BY <1>2 DEF IInv, StageInv, SetPC
<1>6. l \in Listeners
  BY <1>3, <1>5 DEF IInv, TypeOK
<1>7. TypeOK' /\ Others(t) /\ cursor'[t] = next
  BY <1>2, <1>3, <1>5, <1>6 DEF IInv, TypeOK, Others
<1>8. \A m \in Listeners : view'[m] = IF m = l THEN arg[t].what ELSE view[m]
  BY <1>2 DEF IInv, TypeOK
<1>9. Serial'
  BY <1>2 DEF IInv, Serial
<1>10. ASSUME NEW u \in Threads PROVE StageInv(u)'
  <2>1. CASE u = t
    <3>1. StageInv(t)
      BY DEF IInv
    <3> QED BY <1>2, <2>1, <3>1 DEF StageInv, SetPC, AddPC, Locked
  <2>2. CASE u # t
    BY <1>2, <1>7, <2>2, StageFrame DEF IInv
  <2> QED BY <2>1, <2>2
<1>11. ASSUME NEW y \in Vars, NEW k \in Keys, m_cbs[y][k] # Null PROVE ViewInv(y, k)'
  <2> DEFINE m == m_cbs[y][k]
  <2>1. ViewInv(y, k) /\ m \in Listeners
    BY <1>11 DEF IInv, TypeOK
  <2>2. \A u \in Threads : pc[u] \in SetPC /\ arg[u].var = x => u = t
    BY <1>2 DEF IInv, Serial, SetPC
  <2>3. CASE y = x /\ k = next
    BY <1>2, <1>8, <2>1, <2>2, <2>3 DEF ViewInv, SetPC
  <2>4. CASE ~(y = x /\ k = next)
    <3>1. m # l
      BY <1>3, <1>5, <1>11, <2>4, EntryUnique
    <3>2. view'[m] = view[m]
      BY <1>8, <2>1, <3>1
    <3>3. y = x /\ k <= cursor'[t] => k <= cursor[t]
      BY <1>4, <1>7, <1>11, <2>4
    <3>4. \A u \in Threads : u # t => cursor'[u] = cursor[u]
      BY <1>7 DEF Others
    <3>5. \A u \in Threads :
            /\ arg'[u].var = y
            /\ pc'[u] = "assign" \/ (pc'[u] = "notify" /\ k <= cursor'[u])
            => view'[m] = arg'[u].what
      <4>1. SUFFICES ASSUME NEW u \in Threads, arg[u].var = y,
                            pc[u] = "assign" \/ (pc[u] = "notify" /\ k <= cursor'[u])
                     PROVE  view[m] = arg[u].what
        BY <1>2, <3>2
      <4>2. CASE u = t
        BY <1>2, <1>11, <2>1, <3>3, <4>1, <4>2 DEF ViewInv
      <4>3. CASE u # t
        BY <1>11, <2>1, <3>4, <4>1, <4>3 DEF ViewInv
      <4> QED BY <4>2, <4>3
    <3>6. view'[m] = m_val'[y] \/ \E u \in Threads : pc'[u] \in {"notify", "assign"} /\ arg'[u].var = y
      BY <1>2, <1>11, <2>1, <3>2 DEF ViewInv
    <3> QED BY <1>2, <3>5, <3>6 DEF ViewInv
  <2> QED BY <2>3, <2>4
<1>12. ASSUME NEW y \in Vars, NEW k \in Keys PROVE EntryInv(y, k)' /\ ViewInv(y, k)'
  <2>1. m_cbs[y][k] = Null => ViewInv(y, k)'
    BY <1>2 DEF ViewInv
  <2> QED BY <1>2, <1>7, <1>11, <2>1, EntryFrame DEF IInv
<1> QED BY <1>2, <1>7, <1>9, <1>10, <1>12 DEF IInv, RegInv

LEMMA SetNotifiedInv ==
  ASSUME IInv, NEW t \in Threads, SetNotified(t)
  PROVE  IInv'
<1> DEFINE x == arg[t].var
<1>1. /\ pc[t] = "notify" /\ Rest(t) = {}
      /\ readers' = [readers EXCEPT ![x] = @ \ {t}]
      /\ pc' = [pc EXCEPT ![t] = "assign"]
      /\ UNCHANGED <<m_val, m_cbs, s_fun_id, writer, arg, cursor, view, reg,
                     handle, ops>>
  BY DEF SetNotified
<1>2. x \in Vars /\ arg[t].what \in Values
  BY <1>1 DEF IInv, StageInv, SetPC
<1>3. TypeOK' /\ Others(t) /\ pc'[t] = "assign"
  BY <1>1, <1>2 DEF IInv, TypeOK, Others, SetPC
<1>4. \A y \in Vars, u \in Threads : u # t /\ u \in readers[y] => u \in readers'[y]
  BY <1>1, <1>2 DEF IInv, TypeOK
<1>5. Serial'
  BY <1>1, <1>3, SerialFrame DEF IInv, SetPC
<1>6. ASSUME NEW u \in Threads PROVE StageInv(u)'
  <2>1. CASE u = t
    BY <1>1, <1>2, <1>3, <2>1 DEF StageInv, SetPC, AddPC, Locked
  <2>2. CASE u # t
    BY <1>1, <1>3, <1>4, <2>2, StageFrame DEF IInv
  <2> QED BY <2>1, <2>2
<1>7. \A k \in Keys : m_cbs[x][k] # Null => k <= cursor[t]
  <2>1. cursor[t] \in Int /\ \A k \in Keys : k \in Int
    BY DEF IInv, TypeOK, Keys
  <2> QED BY <1>1, <2>1 DEF Rest
<1>8. ASSUME NEW y \in Vars, NEW k \in Keys PROVE EntryInv(y, k)' /\ ViewInv(y, k)'
  <2>1. ViewInv(y, k) /\ EntryInv(y, k)
    BY DEF IInv
  <2>2. ViewInv(y, k)'
    BY <1>1, <1>3, <1>7, <2>1 DEF ViewInv, Others
  <2> QED BY <1>1, <1>3, <2>1, <2>2, EntryFrame
<1> QED BY <1>1, <1>3, <1>5, <1>6, <1>8 DEF IInv, RegInv

LEMMA SetAssignInv ==
  ASSUME IInv, NEW t \in Threads, SetAssign(t)
  PROVE  IInv'
<1> DEFINE x == arg[t].var
<1>1. /\ pc[t] = "assign" /\ Return(t)
      /\ m_val' = [m_val EXCEPT ![x] = arg[t].what]
      /\ UNCHANGED <<m_cbs, s_fun_id, readers, writer, view, reg, handle>>
  BY DEF SetAssign
<1>2. x \in Vars /\ arg[t].what \in Values
  BY <1>1 DEF IInv, StageInv, SetPC
<1>3. Others(t) /\ pc'[t] = "idle" /\ ops' = ops
  BY <1>1, ReturnMoves
<1>4. TypeOK' /\ \A y \in Vars : m_val'[y] = IF y = x THEN arg[t].what ELSE m_val[y]
  BY <1>1, <1>2, ReturnMoves DEF IInv, TypeOK
<1>5. Serial'
  BY <1>3, SerialFrame DEF IInv, SetPC, AddPC
<1>6. ASSUME NEW u \in Threads PROVE StageInv(u)'
  <2>1. CASE u = t
    BY <1>3, <2>1 DEF StageInv, SetPC, AddPC, Locked
  <2>2. CASE u # t
    BY <1>1, <1>3, <2>2, StageFrame DEF IInv
  <2> QED BY <2>1, <2>2
<1>7. \A u \in Threads : pc[u] \in SetPC /\ arg[u].var = x => u = t
  BY <1>1 DEF IInv, Serial, SetPC
<1>8. ASSUME NEW y \in Vars, NEW k \in Keys PROVE EntryInv(y, k)' /\ ViewInv(y, k)'
  <2>1. ViewInv(y, k) /\ EntryInv(y, k)
    BY DEF IInv
  <2>2. CASE y = x
    BY <1>1, <1>3, <1>4, <1>7, <2>1, <2>2, EntryFrame DEF ViewInv, Others, SetPC
  <2>3. CASE y # x
    BY <1>1, <1>3, <1>4, <2>1, <2>3, EntryFrame DEF ViewInv, Others
  <2> QED BY <2>2, <2>3
<1> QED BY <1>1, <1>3, <1>4, <1>5, <1>6, <1>8 DEF IInv, RegInv
LEMMA AddListenerInv ==
  ASSUME IInv, Contract = Clauses, NEW t \in Threads, NEW x \in Vars,
         NEW l \in Listeners, AddListener(t, x, l)
  PROVE  IInv'
<1>1. /\ \A u \in Threads : pc[u] \in SetPC => arg[u].var # x
      /\ \A u \in Threads : pc[u] \notin AddPC
      /\ reg[l] = Null /\ Call(t, "add", x, l)
      /\ UNCHANGED <<m_val, m_cbs, s_fun_id, readers, writer, view, reg, handle>>
  BY DEF AddListener, Demand, Clauses, Setting, Adding
<1>2. /\ pc[t] = "idle" /\ Others(t)
      /\ pc'[t] = "add" /\ arg'[t].var = x /\ arg'[t].what = l
      /\ ops' = ops + 1
  BY <1>1, CallMoves DEF AddPC
<1>3. TypeOK'
  BY <1>1, CallMoves DEF AddPC, IInv, TypeOK
<1>4. ops \in Nat /\ s_fun_id \in Int
  BY ConfigVarAssumption DEF IInv, TypeOK, Keys
<1>5. s_fun_id' <= ops' /\ s_fun_id < ops'
  BY <1>1, <1>2, <1>4 DEF IInv
<1>6. Serial'
  <2>1. "add" \in AddPC /\ "add" \notin SetPC
    BY DEF SetPC, AddPC
  <2> QED BY <1>1, <1>2, <2>1 DEF IInv, Serial, Others
<1>7. ASSUME NEW u \in Threads PROVE StageInv(u)'
  <2>1. CASE u = t
    BY <1>1, <1>2, <1>5, <2>1 DEF StageInv, SetPC, AddPC, Locked
  <2>2. CASE u # t
    BY <1>1, <1>2, <1>5, <2>2, StageFrame DEF IInv
  <2> QED BY <2>1, <2>2
<1>8. \A m \in Listeners : RegInv(m)'
  BY <1>1 DEF IInv, RegInv
<1>9. \A y \in Vars, k \in Keys : EntryInv(y, k)' /\ ViewInv(y, k)'
  BY <1>1, <1>2, EntryFrame, ViewFrame DEF IInv
<1> QED BY <1>3, <1>5, <1>6, <1>7, <1>8, <1>9 DEF IInv

LEMMA AddLockInv ==
  ASSUME IInv, NEW t \in Threads, AddLock(t)
  PROVE  IInv'
<1> DEFINE x == arg[t].var
<1>1. /\ pc[t] = "add" /\ writer[x] = Null
      /\ writer' = [writer EXCEPT ![x] = t]
      /\ pc' = [pc EXCEPT ![t] = "add_load"]
      /\ UNCHANGED <<m_val, m_cbs, s_fun_id, readers, arg, cursor, view, reg,
                     handle, ops>>
  BY DEF AddLock, CanWrite
<1>2. StageInv(t) /\ x \in Vars
  BY <1>1 DEF IInv, StageInv, AddPC
<1>3. TypeOK' /\ Others(t) /\ pc'[t] = "add_load"
  BY <1>1, <1>2 DEF IInv, TypeOK, Others, AddPC
<1>4. writer'[x] = t /\ \A y \in Vars : y # x => writer'[y] = writer[y]
  BY <1>1, <1>2 DEF IInv, TypeOK
<1>5. Serial'
  BY <1>1, <1>3, SerialFrame DEF IInv, AddPC
<1>6. ASSUME NEW u \in Threads PROVE StageInv(u)'
  <2>1. CASE u = t
    BY <1>1, <1>2, <1>3, <1>4, <2>1 DEF StageInv, SetPC, AddPC, Locked
  <2>2. CASE u # t
    <3>1. u # Null
      BY ConfigVarAssumption
    <3> QED BY <1>1, <1>3, <1>4, <2>2, <3>1, StageFrame DEF IInv
  <2> QED BY <2>1, <2>2
<1>7. \A y \in Vars, k \in Keys : EntryInv(y, k)' /\ ViewInv(y, k)'
  BY <1>1, <1>3, EntryFrame, ViewFrame DEF IInv
<1> QED BY <1>1, <1>3, <1>5, <1>6, <1>7 DEF IInv, RegInv

LEMMA AddLoadInv ==
  ASSUME IInv, NEW t \in Threads, AddLoad(t)
  PROVE  IInv'
<1>1. /\ pc[t] = "add_load"
      /\ cursor' = [cursor EXCEPT ![t] = s_fun_id + 1]
      /\ pc' = [pc EXCEPT ![t] = "add_store"]
      /\ UNCHANGED <<m_val, m_cbs, s_fun_id, readers, writer, arg, view, reg,
                     handle, ops>>
  BY DEF AddLoad
<1>2. StageInv(t) /\ s_fun_id < ops
  BY <1>1 DEF IInv, StageInv
<1>3. s_fun_id + 1 \in Keys
  BY <1>2, ConfigVarAssumption DEF IInv, TypeOK, Keys
<1>4. TypeOK' /\ Others(t) /\ pc'[t] = "add_store" /\ cursor'[t] = s_fun_id + 1
  BY <1>1, <1>3 DEF IInv, TypeOK, Others, AddPC
<1>5. Serial'
  BY <1>1, <1>4, SerialFrame DEF IInv, AddPC
<1>6. ASSUME NEW u \in Threads PROVE StageInv(u)'
  <2>1. CASE u = t
    BY <1>1, <1>2, <1>4, <2>1 DEF StageInv, SetPC, AddPC, Locked
  <2>2. CASE u # t
    BY <1>1, <1>4, <2>2, StageFrame DEF IInv
  <2> QED BY <2>1, <2>2
<1>7. \A y \in Vars, k \in Keys : EntryInv(y, k)' /\ ViewInv(y, k)'
  BY <1>1, <1>4, EntryFrame, ViewFrame DEF IInv
<1> QED BY <1>1, <1>4, <1>5, <1>6, <1>7 DEF IInv, RegInv

(* While t is inside addListener no other thread is, and a thread that is not
   only depends on the read locks. *)
LEMMA StageFrameQuiet ==
  ASSUME IInv, NEW t \in Threads, pc[t] \in AddPC, Others(t),
         NEW u \in Threads, u # t, UNCHANGED readers
  PROVE  StageInv(u)'
<1>1. pc[u] \notin AddPC /\ StageInv(u)
  BY DEF IInv, Serial
<1>2. pc'[u] = pc[u] /\ arg'[u] = arg[u] /\ cursor'[u] = cursor[u]
  BY DEF Others
<1> QED BY <1>1, <1>2 DEF StageInv, SetPC, AddPC, Locked

LEMMA AddStoreInv ==
  ASSUME IInv, NEW t \in Threads, AddStore(t)
  PROVE  IInv'
<1>1. /\ pc[t] = "add_store"
      /\ s_fun_id' = cursor[t]
      /\ pc' = [pc EXCEPT ![t] = "add_insert"]
      /\ UNCHANGED <<m_val, m_cbs, readers, writer, arg, cursor, view, reg,
                     handle, ops>>
  BY DEF AddStore
<1>2. StageInv(t) /\ s_fun_id < ops /\ cursor[t] = s_fun_id + 1
  BY <1>1 DEF IInv, StageInv
<1>3. s_fun_id + 1 \in Keys /\ s_fun_id + 1 <= ops
  BY <1>2, ConfigVarAssumption DEF IInv, TypeOK, Keys
<1>4. TypeOK' /\ Others(t) /\ pc'[t] = "add_insert"
  BY <1>1, <1>2, <1>3 DEF IInv, TypeOK, Others, AddPC
<1>5. Serial'
  BY <1>1, <1>4, SerialFrame DEF IInv, AddPC
<1>6. \A x \in Vars, k \in Keys : m_cbs[x][k] # Null => k <= s_fun_id
  BY DEF IInv, EntryInv
<1>7. s_fun_id \in Int /\ Keys \subseteq Int
  BY DEF IInv, TypeOK, Keys
<1>8. \A x \in Vars : m_cbs[x][s_fun_id + 1] = Null
  <2>1. ~(s_fun_id + 1 <= s_fun_id)
    BY <1>7
  <2> QED BY <1>3, <1>6, <2>1
<1>9. ASSUME NEW u \in Threads PROVE StageInv(u)'
  <2>1. CASE u = t
    <3>1. s_fun_id' = s_fun_id + 1
      BY <1>1, <1>2
    <3> QED BY <1>1, <1>2, <1>3, <1>4, <1>8, <2>1, <3>1
            DEF StageInv, SetPC, AddPC, Locked
  <2>2. CASE u # t
    BY <1>1, <1>4, <2>2, StageFrameQuiet DEF AddPC
  <2> QED BY <2>1, <2>2
<1>10. ASSUME NEW y \in Vars, NEW k \in Keys PROVE EntryInv(y, k)' /\ ViewInv(y, k)'
  <2>1. EntryInv(y, k) /\ ViewInv(y, k)
    BY DEF IInv
  <2>2. k <= s_fun_id => k <= s_fun_id'
    BY <1>1, <1>2, <1>7
  <2>3. EntryInv(y, k)'
    BY <1>1, <1>4, <2>1, <2>2 DEF EntryInv, Others
  <2> QED BY <1>1, <1>4, <2>1, <2>3, ViewFrame
<1> QED BY <1>1, <1>2, <1>3, <1>4, <1>5, <1>9, <1>10 DEF IInv, RegInv
LEMMA AddInsertInv ==
  ASSUME IInv, NEW t \in Threads, NEW k \in Keys, AddInsert(t, k)
  PROVE  IInv'
<1> DEFINE x == arg[t].var
           l == arg[t].what
<1>1. /\ pc[t] = "add_insert" /\ k \in FunId(t)
      /\ m_cbs' = [m_cbs EXCEPT ![x][k] = l]
      /\ view' = [view EXCEPT ![l] = m_val[x]]
      /\ pc' = [pc EXCEPT ![t] = "add_return"]
      /\ UNCHANGED <<m_val, s_fun_id, readers, writer, arg, cursor, reg, handle,
                     ops>>
  BY DEF AddInsert
<1>2. StageInv(t) /\ x \in Vars /\ l \in Listeners /\ reg[l] = Null
  BY <1>1 DEF IInv, StageInv, AddPC
<1>3. k = s_fun_id /\ cursor[t] = k /\ \A y \in Vars : m_cbs[y][k] = Null
  BY <1>1, <1>2 DEF FunId, StageInv
<1>4. TypeOK' /\ Others(t) /\ pc'[t] = "add_return"
  BY <1>1, <1>2 DEF IInv, TypeOK, Others, AddPC
<1>5. /\ m_cbs'[x][k] = l
      /\ \A y \in Vars, j \in Keys : ~(y = x /\ j = k) => m_cbs'[y][j] = m_cbs[y][j]
  BY <1>1, <1>2 DEF IInv, TypeOK
<1>6. \A m \in Listeners : view'[m] = IF m = l THEN m_val[x] ELSE view[m]
  BY <1>1, <1>2 DEF IInv, TypeOK
<1>7. Serial'
  BY <1>1, <1>4, SerialFrame DEF IInv, AddPC
<1>8. \A u \in Threads : u # t => pc[u] \notin AddPC /\ (pc[u] \in SetPC => arg[u].var # x)
  BY <1>1 DEF IInv, Serial, AddPC
<1>9. x # Null /\ l # Null /\ Null \notin Listeners /\ Null \notin Vars
  BY <1>2, ConfigVarAssumption
<1>10. ASSUME NEW y \in Vars, NEW j \in Keys PROVE m_cbs[y][j] # l
  <2>1. EntryInv(y, j)
    BY DEF IInv
  <2> QED BY <1>1, <1>2, <1>8, <1>9, <2>1 DEF EntryInv, AddPC
<1>11. ASSUME NEW u \in Threads PROVE StageInv(u)'
  <2>1. CASE u = t
    BY <1>1, <1>2, <1>3, <1>4, <1>5, <2>1 DEF StageInv, SetPC, AddPC, Locked
  <2>2. CASE u # t
    BY <1>1, <1>4, <2>2, StageFrameQuiet DEF AddPC
  <2> QED BY <2>1, <2>2
<1>12. ASSUME NEW m \in Listeners, reg[m] # Null PROVE RegInv(m)'
  <2>1. handle[m] \in Keys /\ m_cbs[reg[m]][handle[m]] = m /\ reg[m] \in Vars
    BY <1>12 DEF IInv, RegInv, TypeOK
  <2>2. ~(reg[m] = x /\ handle[m] = k)
    BY <1>3, <1>9, <2>1
  <2> QED BY <1>1, <1>5, <2>1, <2>2 DEF RegInv
<1>13. \A m \in Listeners : RegInv(m)'
  BY <1>1, <1>12 DEF RegInv
<1>14. ASSUME NEW y \in Vars, NEW j \in Keys PROVE EntryInv(y, j)' /\ ViewInv(y, j)'
  <2>1. CASE y = x /\ j = k
    <3>1. arg[t] = [var |-> x, what |-> l]
      BY DEF IInv, TypeOK
    <3>2. k <= s_fun_id
      BY <1>3 DEF Keys
    <3>3. EntryInv(y, j)'
      BY <1>1, <1>3, <1>4, <1>5, <2>1, <3>1, <3>2 DEF EntryInv
    <3>4. ViewInv(y, j)'
      BY <1>1, <1>2, <1>4, <1>5, <1>6, <1>8, <2>1 DEF ViewInv, Others, SetPC
    <3> QED BY <3>3, <3>4
  <2>2. CASE ~(y = x /\ j = k)
    <3>1. EntryInv(y, j) /\ ViewInv(y, j) /\ m_cbs'[y][j] = m_cbs[y][j]
      BY <1>5, <2>2 DEF IInv
    <3>2. m_cbs[y][j] # Null => m_cbs[y][j] \in Listeners /\ m_cbs[y][j] # l
      BY <1>10 DEF IInv, TypeOK
    <3>3. m_cbs[y][j] # Null => view'[m_cbs[y][j]] = view[m_cbs[y][j]]
      BY <1>6, <3>2
    <3>4. EntryInv(y, j)'
      BY <1>1, <1>4, <3>1 DEF EntryInv, Others
    <3>5. ViewInv(y, j)'
      BY <1>1, <1>4, <3>1, <3>3 DEF ViewInv, Others
    <3> QED BY <3>4, <3>5
  <2> QED BY <2>1, <2>2
<1> QED BY <1>1, <1>4, <1>7, <1>11, <1>13, <1>14 DEF IInv

LEMMA AddReturnInv ==
  ASSUME IInv, NEW t \in Threads, NEW k \in Keys, AddReturn(t, k)
  PROVE  IInv'
<1> DEFINE x == arg[t].var
           l == arg[t].what
<1>1. /\ pc[t] = "add_return" /\ k \in FunId(t) /\ Return(t)
      /\ reg' = [reg EXCEPT ![l] = x]
      /\ handle' = [handle EXCEPT ![l] = k]
      /\ writer' = [writer EXCEPT ![x] = Null]
      /\ UNCHANGED <<m_val, m_cbs, s_fun_id, readers, view>>
  BY DEF AddReturn
<1>2. StageInv(t) /\ x \in Vars /\ l \in Listeners /\ reg[l] = Null
  BY <1>1 DEF IInv, StageInv, AddPC
<1>3. k = s_fun_id /\ cursor[t] = k /\ m_cbs[x][k] = l
  BY <1>1, <1>2 DEF FunId, StageInv
<1>4. Others(t) /\ pc'[t] = "idle" /\ ops' = ops
  BY <1>1, ReturnMoves
<1>5. TypeOK'
  BY <1>1, <1>2, ReturnMoves DEF IInv, TypeOK
<1>6. /\ reg'[l] = x /\ handle'[l] = k
      /\ \A m \in Listeners : m # l => reg'[m] = reg[m] /\ handle'[m] = handle[m]
  BY <1>1, <1>2 DEF IInv, TypeOK
<1>7. Serial'
  BY <1>4, SerialFrame DEF IInv, SetPC, AddPC
<1>8. ASSUME NEW u \in Threads PROVE StageInv(u)'
  <2>1. CASE u = t
    BY <1>4, <2>1 DEF StageInv, SetPC, AddPC, Locked
  <2>2. CASE u # t
    BY <1>1, <1>4, <2>2, StageFrameQuiet DEF AddPC
  <2> QED BY <2>1, <2>2
<1>9. ASSUME NEW m \in Listeners PROVE RegInv(m)'
  BY <1>1, <1>3, <1>6 DEF IInv, RegInv
<1>10. l # Null
  BY <1>2, ConfigVarAssumption
<1>11. ASSUME NEW y \in Vars, NEW j \in Keys PROVE EntryInv(y, j)' /\ ViewInv(y, j)'
  <2>1. EntryInv(y, j) /\ ViewInv(y, j)
    BY DEF IInv
  <2>2. CASE m_cbs[y][j] = l
    <3>1. y = x /\ j = k
      BY <1>2, <1>3, <1>10, <2>2, EntryUnique
    <3> QED BY <1>1, <1>4, <1>6, <2>1, <2>2, <3>1, ViewFrame DEF EntryInv
  <2>3. CASE m_cbs[y][j] # l
    <3>1. m_cbs[y][j] # Null => m_cbs[y][j] \in Listeners
      BY DEF IInv, TypeOK
    <3>2. EntryInv(y, j)'
      BY <1>1, <1>4, <1>6, <2>1, <2>3, <3>1 DEF EntryInv, Others
    <3> QED BY <1>1, <1>4, <2>1, <3>2, ViewFrame
  <2> QED BY <2>2, <2>3
<1> QED BY <1>1, <1>4, <1>5, <1>7, <1>8, <1>9, <1>11 DEF IInv

(* Removing entries of an unlocked variable's map, and forgetting their
   owners, disturbs nobody else. *)
LEMMA RemoveFrame ==
  ASSUME IInv, NEW x \in Vars, CanWrite(x), TypeOK',
         ops' = ops + 1,
         \A y \in Vars, j \in Keys :
           \/ m_cbs'[y][j] = m_cbs[y][j]
           \/ y = x /\ m_cbs'[y][j] = Null,
         \A m \in Listeners :
           \/ reg'[m] = Null
           \/ reg'[m] = reg[m] /\ \A j \in Keys :
                m_cbs[reg[m]][j] = m => m_cbs'[reg[m]][j] = m,
         \A y \in Vars, j \in Keys :
           m_cbs'[y][j] # Null => reg'[m_cbs[y][j]] = reg[m_cbs[y][j]],
         UNCHANGED <<m_val, s_fun_id, readers, writer, pc, arg, cursor, view,
                     handle>>
  PROVE  IInv'
<1>1. ops \in Nat /\ s_fun_id \in Int
  BY ConfigVarAssumption DEF IInv, TypeOK, Keys
<1>2. s_fun_id' <= ops' /\ (s_fun_id < ops => s_fun_id' < ops')
  BY <1>1 DEF IInv
<1>3. ASSUME NEW u \in Threads PROVE StageInv(u)'
  <2>1. StageInv(u) /\ u # Null
    BY ConfigVarAssumption DEF IInv
  <2>2. pc[u] \in AddPC => reg'[arg[u].what] = Null
    BY <2>1 DEF StageInv
  <2>3. pc[u] = "add_insert" => \A y \in Vars : m_cbs'[y][s_fun_id] = Null
    BY <2>1 DEF StageInv
  <2>4. pc[u] = "add_return" => m_cbs'[arg[u].var][s_fun_id] = arg[u].what
    BY <2>1 DEF StageInv, CanWrite, Locked, AddPC
  <2> QED BY <1>2, <2>1, <2>2, <2>3, <2>4 DEF StageInv, SetPC, AddPC, Locked
<1>4. ASSUME NEW m \in Listeners PROVE RegInv(m)'
  BY DEF IInv, RegInv
<1>5. ASSUME NEW y \in Vars, NEW j \in Keys PROVE EntryInv(y, j)' /\ ViewInv(y, j)'
  <2>1. EntryInv(y, j) /\ ViewInv(y, j)
    BY DEF IInv
  <2>2. m_cbs'[y][j] # Null => /\ m_cbs'[y][j] = m_cbs[y][j]
                              /\ reg'[m_cbs[y][j]] = reg[m_cbs[y][j]]
    OBVIOUS
  <2> QED BY <2>1, <2>2 DEF EntryInv, ViewInv
<1>6. Serial'
  BY DEF IInv, Serial
<1> QED BY <1>2, <1>3, <1>4, <1>5, <1>6 DEF IInv

LEMMA DelListenerInv ==
  ASSUME IInv, NEW t \in Threads, NEW l \in Listeners, DelListener(t, l)
  PROVE  IInv'
<1> DEFINE x == reg[l]
           h == handle[l]
<1>1. /\ ops < MaxOps /\ ops' = ops + 1
      /\ reg[l] # Null /\ CanWrite(x)
      /\ reg' = [reg EXCEPT ![l] = Null]
      /\ UNCHANGED <<m_val, s_fun_id, readers, writer, pc, arg, cursor, view,
                     handle>>
  BY DEF DelListener
<1>2. x \in Vars /\ h \in Keys /\ m_cbs[x][h] = l /\ l # Null
  BY <1>1, ConfigVarAssumption DEF IInv, TypeOK, RegInv
<1>3. m_cbs' = [m_cbs EXCEPT ![x][h] = Null]
  BY <1>2 DEF DelListener
<1>4. ops' \in 0..MaxOps
  BY <1>1, ConfigVarAssumption DEF IInv, TypeOK
<1>5. TypeOK'
  BY <1>1, <1>2, <1>3, <1>4 DEF IInv, TypeOK
<1>6. /\ m_cbs'[x][h] = Null
      /\ \A y \in Vars, j \in Keys : ~(y = x /\ j = h) => m_cbs'[y][j] = m_cbs[y][j]
  BY <1>2, <1>3 DEF IInv, TypeOK
<1>7. reg'[l] = Null /\ \A m \in Listeners : m # l => reg'[m] = reg[m]
  BY <1>1 DEF IInv, TypeOK
<1>8. ASSUME NEW m \in Listeners
      PROVE  \/ reg'[m] = Null
             \/ reg'[m] = reg[m] /\ \A j \in Keys :
                  m_cbs[reg[m]][j] = m => m_cbs'[reg[m]][j] = m
  <2>1. reg[m] \in Vars \cup {Null}
    BY DEF IInv, TypeOK
  <2> QED BY <1>2, <1>6, <1>7, <2>1
<1>9. ASSUME NEW y \in Vars, NEW j \in Keys, m_cbs'[y][j] # Null
      PROVE  reg'[m_cbs[y][j]] = reg[m_cbs[y][j]]
  <2>1. m_cbs[y][j] # Null /\ ~(y = x /\ j = h)
    BY <1>6, <1>9
  <2>2. m_cbs[y][j] \in Listeners
    BY <2>1 DEF IInv, TypeOK
  <2>3. m_cbs[y][j] # l
    BY <1>2, <2>1, EntryUnique
  <2> QED BY <1>7, <2>2, <2>3
<1> QED BY <1>1, <1>2, <1>5, <1>6, <1>8, <1>9, RemoveFrame

LEMMA ClearListenerInv ==
  ASSUME IInv, NEW t \in Threads, NEW x \in Vars, ClearListener(t, x)
  PROVE  IInv'
<1>1. /\ ops < MaxOps /\ ops' = ops + 1 /\ CanWrite(x)
      /\ m_cbs' = [m_cbs EXCEPT ![x] = [k \in Keys |-> Null]]
      /\ reg' = [l \in Listeners |-> IF reg[l] = x THEN Null ELSE reg[l]]
      /\ UNCHANGED <<m_val, s_fun_id, readers, writer, pc, arg, cursor, view,
                     handle>>
  BY DEF ClearListener
<1>2. ops' \in 0..MaxOps
  BY <1>1, ConfigVarAssumption DEF IInv, TypeOK
<1>3. TypeOK'
  BY <1>1, <1>2 DEF IInv, TypeOK
<1>4. /\ \A j \in Keys : m_cbs'[x][j] = Null
      /\ \A y \in Vars : y # x => m_cbs'[y] = m_cbs[y]
  BY <1>1 DEF IInv, TypeOK
<1>5. \A m \in Listeners : reg'[m] = IF reg[m] = x THEN Null ELSE reg[m]
  BY <1>1
<1>6. ASSUME NEW m \in Listeners
      PROVE  \/ reg'[m] = Null
             \/ reg'[m] = reg[m] /\ \A j \in Keys :
                  m_cbs[reg[m]][j] = m => m_cbs'[reg[m]][j] = m
  <2>1. reg[m] \in Vars \cup {Null}
    BY DEF IInv, TypeOK
  <2> QED BY <1>4, <1>5, <2>1
<1>7. ASSUME NEW y \in Vars, NEW j \in Keys, m_cbs'[y][j] # Null
      PROVE  reg'[m_cbs[y][j]] = reg[m_cbs[y][j]]
  <2>1. m_cbs[y][j] # Null /\ y # x
    BY <1>4, <1>7
  <2>2. m_cbs[y][j] \in Listeners /\ EntryInv(y, j)
    BY <2>1 DEF IInv, TypeOK
  <2>3. reg[m_cbs[y][j]] # x
    <3>1. x # Null
      BY ConfigVarAssumption
    <3>2. \A u \in Threads : pc[u] = "add_return" => reg[arg[u].what] = Null
      BY DEF IInv, StageInv, AddPC
    <3> QED BY <2>1, <2>2, <3>1, <3>2 DEF EntryInv
  <2> QED BY <1>5, <2>2, <2>3
<1> QED BY <1>1, <1>3, <1>4, <1>6, <1>7, RemoveFrame

----------------------------------------------------------------------------
LEMMA NextInv == ASSUME IInv, Contract = Clauses, [Next]_vars PROVE IInv'
<1>1. ASSUME NEW t \in Threads, Begin(t) PROVE IInv'
  BY <1>1, SetValueInv, AddListenerInv, DelListenerInv, ClearListenerInv
     DEF Begin
<1>2. ASSUME NEW t \in Threads, Continue(t) PROVE IInv'
  BY <1>2, SetCompareInv, SetNotifyInv, SetNotifiedInv, SetAssignInv,
     AddLockInv, AddLoadInv, AddStoreInv, AddInsertInv, AddReturnInv
     DEF Continue
<1>3. CASE UNCHANGED vars
  BY <1>3 DEF vars, IInv, TypeOK, Serial, StageInv, RegInv, EntryInv, ViewInv
<1> QED BY <1>1, <1>2, <1>3 DEF Next

(* The inductive invariant holds throughout. *)
THEOREM Invariant == ASSUME Contract = Clauses PROVE Spec => []IInv
BY InitInv, NextInv, PTL DEF Spec

(* The state of ConfigVar keeps its types: no key past the bound is given
   out, and a call never works on a missing variable or listener. *)
THEOREM TypeCorrect == ASSUME Contract = Clauses PROVE Spec => []TypeOK
<1>1. IInv => TypeOK
  BY DEF IInv
<1> QED BY <1>1, Invariant, PTL

(* Outside setValue, which tells the listeners before it assigns and holds no
   lock between the two, every listener's view is the variable's value. *)
THEOREM ViewsFollow == ASSUME Contract = Clauses PROVE Spec => []ViewsAgree
<1>1. IInv => ViewsAgree
  BY DEF IInv, ViewInv, ViewsAgree, Setting, SetPC
<1> QED BY <1>1, Invariant, PTL

(* The key addListener returns stays the key of that listener and of no other,
   although s_fun_id is shared by all variables of the type. *)
THEOREM KeysFindOwners == ASSUME Contract = Clauses PROVE Spec => []KeyOwned
<1>1. IInv => KeyOwned
  <2>1. SUFFICES ASSUME IInv PROVE KeyOwned
    OBVIOUS
  <2>2. \A l \in Listeners : RegInv(l)
    BY <2>1 DEF IInv
  <2>3. \A x \in Vars, k \in Keys : EntryInv(x, k)
    BY <2>1 DEF IInv
  <2>4. ASSUME NEW x \in Vars, NEW k \in Keys, m_cbs[x][k] # Null
        PROVE  \/ reg[m_cbs[x][k]] = x /\ handle[m_cbs[x][k]] = k
               \/ \E t \in Threads : /\ pc[t] = "add_return"
                                      /\ arg[t].what = m_cbs[x][k]
    <3>1. EntryInv(x, k)
      BY <2>3
    <3>2. ASSUME NEW t \in Threads, arg[t] = [var |-> x, what |-> m_cbs[x][k]]
          PROVE  arg[t].what = m_cbs[x][k]
      BY <3>2
    <3> QED BY <2>4, <3>1, <3>2 DEF EntryInv
  <2> QED BY <2>2, <2>4 DEF KeyOwned, RegInv
<1> QED BY <1>1, Invariant, PTL
=============================================================================
