---------------------------- MODULE ThreadProofs ----------------------------
(***************************************************************************)
(* Under its contract Thread is safe for any number of objects and         *)
(* clients.  None of its properties is inductive: that run() finds its     *)
(* object alive needs the constructor to be still inside, which is what    *)
(* the semaphore's count says; that a handle is not stale needs to know    *)
(* who is between pthread_join and the assignment that clears it.          *)
(***************************************************************************)
EXTENDS Thread, TLAPS

Started == {"callback", "returned"}

(* The stage of an object fixes the stage of its OS thread, of the handshake
   and of the handle. *)
ObjInv(o) ==
  /\ obj[o] = "none" =>
       os[o] = "none" /\ child[o] = "none" /\ ~m_thread[o] /\ m_semaphore[o] = 0
  /\ obj[o] = "ctor" =>
       /\ os[o] = "joinable" /\ m_thread[o] /\ child[o] # "none"
       /\ m_semaphore[o] = IF child[o] \in Started THEN 1 ELSE 0
  /\ obj[o] = "live" =>
       /\ child[o] \in Started /\ m_semaphore[o] = 0
       /\ \/ os[o] = "joinable" /\ m_thread[o]
          \/ os[o] = "joined" /\ child[o] = "returned"
       /\ os[o] = "joined" /\ m_thread[o] =>
            \E c \in Callers : call[c] = "joined" /\ on[c] = o
  /\ obj[o] = "dead" =>
       \/ os[o] = "none" /\ child[o] = "none"
       \/ os[o] = "detached" /\ child[o] \in Started /\ m_thread[o]
       \/ os[o] = "joined" /\ child[o] = "returned" /\ ~m_thread[o]
  /\ child[o] \in Started \cup {"init"} =>
       /\ m_id[o] /\ m_cb[o] = "child"
       /\ obj[o] # "dead" => t_thread_name[o] = m_name[o]

(* A call finds its object in the stage it needs. *)
CallInv(c) ==
  /\ call[c] = "none" <=> on[c] = "none"
  /\ call[c] = "ctor" => obj[on[c]] = "ctor"
  /\ call[c] \in {"name", "join", "joined"} => obj[on[c]] = "live"
  /\ call[c] = "join" => os[on[c]] = "joinable"
  /\ call[c] = "joined" => os[on[c]] = "joined"
  /\ c \in Objs /\ call[c] # "none" => child[c] = "callback"

(* One thread constructs an object, and one joins it. *)
OneCaller ==
  \A c, d \in Callers : on[c] = on[d] /\ c # d =>
    /\ call[c] = "ctor" => call[d] # "ctor"
    /\ call[c] \in {"join", "joined"} => call[d] \notin {"join", "joined"}

IInv ==
  /\ TypeOK
  /\ NothingBad
  /\ OneCaller
  /\ \A o \in Objs : ObjInv(o)
  /\ \A c \in Callers : CallInv(c)

----------------------------------------------------------------------------

LEMMA InitInv == ASSUME Init PROVE IInv
<1>1. TypeOK
  BY DEF Init, TypeOK, ThreadNames
<1> QED BY <1>1 DEF Init, IInv, NothingBad, OneCaller, ObjInv, CallInv, Started

(* Nobody is in a call on an object that does not exist yet. *)
LEMMA NobodyOnNone ==
  ASSUME IInv, NEW o \in Objs, obj[o] \in {"none", "dead"}
  PROVE  \A c \in Callers : on[c] # o
<1>1. SUFFICES ASSUME NEW c \in Callers, on[c] = o PROVE FALSE
  OBVIOUS
<1>2. call[c] \in {"ctor", "name", "join", "joined"}
  BY <1>1, ThreadAssumption DEF IInv, TypeOK, CallInv
<1> QED BY <1>1, <1>2 DEF IInv, CallInv

(* An object that a step leaves alone keeps its invariant: what is joined but
   not cleared must still have somebody about to clear it. *)
LEMMA ObjFrame ==
  ASSUME NEW p \in Objs, ObjInv(p),
         obj'[p] = obj[p], m_thread'[p] = m_thread[p], m_id'[p] = m_id[p],
         m_cb'[p] = m_cb[p], m_name'[p] = m_name[p],
         m_semaphore'[p] = m_semaphore[p], child'[p] = child[p],
         t_thread_name'[p] = t_thread_name[p], os'[p] = os[p],
         \A c \in Callers : call[c] = "joined" /\ on[c] = p =>
                              call'[c] = "joined" /\ on'[c] = p
  PROVE  ObjInv(p)'
BY DEF ObjInv

(* So does a call that a step leaves alone, on an object it leaves alone. *)
LEMMA CallFrame ==
  ASSUME NEW d \in Callers, CallInv(d), call'[d] = call[d], on'[d] = on[d],
         call[d] # "none" => obj'[on[d]] = obj[on[d]] /\ os'[on[d]] = os[on[d]],
         d \in Objs /\ call[d] # "none" => child'[d] = child[d]
  PROVE  CallInv(d)'
BY DEF CallInv

(* A call is on some object. *)
LEMMA CallIsOn ==
  ASSUME IInv, NEW d \in Callers, call[d] # "none"
  PROVE  on[d] \in Objs
<1>1. on[d] \in Objs \cup {"none"} /\ CallInv(d)
  BY DEF IInv, TypeOK
<1> QED BY <1>1 DEF CallInv

(* OneCaller survives a step in which one thread leaves its call. *)
LEMMA EndFrame ==
  ASSUME OneCaller, NEW c \in Callers, \A d \in Callers : CallInv(d),
         call'[c] = "none",
         \A d \in Callers : d # c => call'[d] = call[d] /\ on'[d] = on[d]
  PROVE  OneCaller'
BY DEF OneCaller, CallInv

LEMMA ConstructInv ==
  ASSUME IInv, NEW c \in Callers, NEW o \in Objs, NEW name \in Names \cup {""},
         NEW fails \in BOOLEAN, Construct(c, o, name, fails)
  PROVE  IInv'
<1>1. /\ InClient(c) /\ obj[o] = "none" /\ call[c] = "none" /\ on[c] = "none"
      /\ c \in Objs => child[c] = "callback"
  BY DEF Construct, InClient, IInv, CallInv
<1>2. /\ ObjInv(o) /\ c # o /\ o # "none" /\ child[o] = "none"
      /\ m_semaphore[o] = 0
  BY <1>1, ThreadAssumption DEF IInv, ObjInv
<1>3. \A d \in Callers : on[d] # o
  BY <1>1, NobodyOnNone
<1>4. IF name = "" THEN "UNKNOW" \in ThreadNames ELSE name \in ThreadNames
  BY DEF ThreadNames
<1>5. CASE fails
  <2>1. /\ m_name' = [m_name EXCEPT ![o] = IF name = "" THEN "UNKNOW" ELSE name]
        /\ obj' = [obj EXCEPT ![o] = "dead"]
        /\ UNCHANGED <<m_thread, child, os, call, on, m_id, m_cb, m_semaphore,
                       t_thread_name, bad>>
    BY <1>5 DEF Construct
  <2>2. TypeOK'
    BY <1>4, <2>1 DEF IInv, TypeOK
  <2>3. ASSUME NEW p \in Objs PROVE ObjInv(p)'
    <3>1. CASE p = o
      BY <1>1, <1>2, <2>1, <3>1 DEF IInv, TypeOK, ObjInv, Started
    <3>2. CASE p # o
      BY <2>1, <3>2 DEF IInv, TypeOK, ObjInv
    <3> QED BY <3>1, <3>2
  <2>4. ASSUME NEW d \in Callers PROVE CallInv(d)'
    BY <1>3, <2>1 DEF IInv, TypeOK, CallInv
  <2> QED BY <2>1, <2>2, <2>3, <2>4 DEF IInv, NothingBad, OneCaller
<1>6. CASE ~fails
  <2>1. /\ m_name' = [m_name EXCEPT ![o] = IF name = "" THEN "UNKNOW" ELSE name]
        /\ obj' = [obj EXCEPT ![o] = "ctor"]
        /\ m_thread' = [m_thread EXCEPT ![o] = TRUE]
        /\ child' = [child EXCEPT ![o] = "entry"]
        /\ os' = [os EXCEPT ![o] = "joinable"]
        /\ call' = [call EXCEPT ![c] = "ctor"]
        /\ on' = [on EXCEPT ![c] = o]
        /\ UNCHANGED <<m_id, m_cb, m_semaphore, t_thread_name, bad>>
    BY <1>6 DEF Construct, Begin
  <2>2. TypeOK'
    BY <1>4, <2>1 DEF IInv, TypeOK
  <2>3. ASSUME NEW p \in Objs PROVE ObjInv(p)'
    <3>1. CASE p = o
      <4>1. /\ obj'[o] = "ctor" /\ m_thread'[o] = TRUE /\ child'[o] = "entry"
            /\ os'[o] = "joinable" /\ m_semaphore'[o] = 0
        BY <1>2, <2>1 DEF IInv, TypeOK
      <4> QED BY <3>1, <4>1 DEF ObjInv, Started
    <3>2. CASE p # o
      <4>1. /\ obj'[p] = obj[p] /\ m_thread'[p] = m_thread[p]
            /\ m_name'[p] = m_name[p] /\ child'[p] = child[p] /\ os'[p] = os[p]
        BY <2>1, <3>2 DEF IInv, TypeOK
      <4>2. \A d \in Callers : d # c => call'[d] = call[d] /\ on'[d] = on[d]
        BY <2>1 DEF IInv, TypeOK
      <4> QED BY <1>1, <2>1, <4>1, <4>2, ObjFrame DEF IInv
    <3> QED BY <3>1, <3>2
  <2>4. ASSUME NEW d \in Callers PROVE CallInv(d)'
    <3>1. CASE d = c
      <4>1. call'[c] = "ctor" /\ on'[c] = o /\ obj'[o] = "ctor"
        BY <2>1 DEF IInv, TypeOK
      <4>2. c \in Objs => child'[c] = "callback"
        BY <1>1, <1>2, <2>1 DEF IInv, TypeOK
      <4> QED BY <1>2, <3>1, <4>1, <4>2 DEF CallInv
    <3>2. CASE d # c
      <4>1. call'[d] = call[d] /\ on'[d] = on[d] /\ on[d] # o /\ CallInv(d)
        BY <1>3, <2>1, <3>2 DEF IInv, TypeOK
      <4>2. call[d] # "none" => on[d] \in Objs /\ on[d] # o
        <5>1. on[d] \in Objs \cup {"none"}
          BY DEF IInv, TypeOK
        <5> QED BY <4>1, <5>1 DEF CallInv
      <4>3. d \in Objs /\ call[d] # "none" => d # o
        BY <1>2, <4>1 DEF CallInv
      <4>4. \A p \in Objs : p # o => obj'[p] = obj[p] /\ os'[p] = os[p] /\ child'[p] = child[p]
        BY <2>1 DEF IInv, TypeOK
      <4> QED BY <4>1, <4>2, <4>3, <4>4, CallFrame
    <3> QED BY <3>1, <3>2
  <2>5. OneCaller'
    BY <1>3, <2>1 DEF IInv, TypeOK, OneCaller
  <2> QED BY <2>1, <2>2, <2>3, <2>4, <2>5 DEF IInv, NothingBad
<1> QED BY <1>5, <1>6

LEMMA ConstructorLeavesInv ==
  ASSUME IInv, Contract = Clauses, NEW c \in Callers,
         NEW interrupted \in BOOLEAN, ConstructorLeaves(c, interrupted)
  PROVE  IInv'
<1> DEFINE o == on[c]
<1>1. /\ call[c] = "ctor" /\ ~interrupted /\ m_semaphore[o] > 0
      /\ obj' = [obj EXCEPT ![o] = "live"]
      /\ call' = [call EXCEPT ![c] = "none"]
      /\ on' = [on EXCEPT ![c] = "none"]
      /\ UNCHANGED <<m_thread, m_id, m_cb, m_name, child, t_thread_name, os, bad>>
  BY DEF ConstructorLeaves, Demand, Clauses, End, Begin
<1>2. o \in Objs /\ ObjInv(o) /\ CallInv(c) /\ OneCaller
  BY <1>1, CallIsOn DEF IInv
<1>3. obj[o] = "ctor"
  BY <1>1, <1>2 DEF CallInv
<1>4. m_semaphore[o] = 1 /\ child[o] \in Started /\ os[o] = "joinable" /\ m_thread[o]
  BY <1>1, <1>2, <1>3 DEF ObjInv
<1>5. m_semaphore' = [m_semaphore EXCEPT ![o] = 0]
  BY <1>1, <1>4 DEF ConstructorLeaves
<1>6. /\ TypeOK'
      /\ m_semaphore'[o] = 0 /\ obj'[o] = "live"
      /\ call'[c] = "none" /\ on'[c] = "none"
  BY <1>1, <1>2, <1>5 DEF IInv, TypeOK
<1>7. \A d \in Callers : d # c => call'[d] = call[d] /\ on'[d] = on[d]
  BY <1>1 DEF IInv, TypeOK
<1>8. \A p \in Objs : p # o =>
        obj'[p] = obj[p] /\ m_semaphore'[p] = m_semaphore[p]
  BY <1>1, <1>2, <1>5 DEF IInv, TypeOK
<1>9. ASSUME NEW p \in Objs PROVE ObjInv(p)'
  <2>1. CASE p = o
    BY <1>1, <1>2, <1>3, <1>4, <1>6, <2>1 DEF ObjInv, Started
  <2>2. CASE p # o
    BY <1>1, <1>7, <1>8, <2>2, ObjFrame DEF IInv
  <2> QED BY <2>1, <2>2
<1>10. ASSUME NEW d \in Callers PROVE CallInv(d)'
  <2>1. CASE d = c
    BY <1>6, <2>1 DEF CallInv
  <2>2. CASE d # c
    <3>1. CallInv(d) /\ on[d] # o
      <4>1. CallInv(d)
        BY DEF IInv
      <4>2. ASSUME on[d] = o PROVE FALSE
        <5>1. call[d] \in {"ctor", "name", "join", "joined"}
          <6>1. call[d] \in {"none", "ctor", "name", "join", "joined"}
            BY DEF IInv, TypeOK
          <6> QED BY <1>2, <4>1, <4>2, <6>1, ThreadAssumption DEF CallInv
        <5> QED BY <1>1, <1>2, <1>3, <2>2, <4>1, <4>2, <5>1 DEF CallInv, OneCaller
      <4> QED BY <4>1, <4>2
    <3> QED BY <1>1, <1>7, <1>8, <2>2, <3>1, CallIsOn, CallFrame
  <2> QED BY <2>1, <2>2
<1>11. OneCaller'
  BY <1>2, <1>6, <1>7, EndFrame DEF IInv
<1> QED BY <1>1, <1>6, <1>9, <1>10, <1>11 DEF IInv, NothingBad

LEMMA RunInitInv ==
  ASSUME IInv, NEW o \in Objs, RunInit(o)
  PROVE  IInv'
<1>1. child[o] = "entry" /\ ObjInv(o)
  BY DEF RunInit, IInv
<1>2. obj[o] = "ctor" /\ os[o] = "joinable" /\ m_thread[o] /\ m_semaphore[o] = 0
  <2>1. obj[o] \in {"none", "ctor", "live", "dead"}
    BY DEF IInv, TypeOK
  <2> QED BY <1>1, <2>1 DEF ObjInv, Started
<1>3. /\ child' = [child EXCEPT ![o] = "init"]
      /\ t_thread_name' = [t_thread_name EXCEPT ![o] = m_name[o]]
      /\ m_id' = [m_id EXCEPT ![o] = TRUE]
      /\ m_cb' = [m_cb EXCEPT ![o] = "child"]
      /\ UNCHANGED <<obj, m_thread, m_name, m_semaphore, os, call, on, bad>>
  BY <1>2 DEF RunInit
<1>4. TypeOK'
  BY <1>3 DEF IInv, TypeOK, Callers
<1>5. /\ child'[o] = "init" /\ t_thread_name'[o] = m_name[o] /\ m_id'[o] = TRUE
      /\ m_cb'[o] = "child"
  BY <1>3 DEF IInv, TypeOK, Callers
<1>6. \A p \in Objs : p # o =>
        /\ child'[p] = child[p] /\ t_thread_name'[p] = t_thread_name[p]
        /\ m_id'[p] = m_id[p] /\ m_cb'[p] = m_cb[p]
  BY <1>3 DEF IInv, TypeOK, Callers
<1>7. ASSUME NEW p \in Objs PROVE ObjInv(p)'
  <2>1. CASE p = o
    BY <1>2, <1>3, <1>5, <2>1 DEF ObjInv, Started
  <2>2. CASE p # o
    BY <1>3, <1>6, <2>2, ObjFrame DEF IInv
  <2> QED BY <2>1, <2>2
<1>8. ASSUME NEW d \in Callers PROVE CallInv(d)'
  <2>1. CallInv(d) /\ (d = o => call[d] = "none")
    BY <1>1 DEF IInv, CallInv
  <2> QED BY <1>3, <1>6, <2>1, CallFrame
<1> QED BY <1>3, <1>4, <1>7, <1>8 DEF IInv, NothingBad, OneCaller

LEMMA RunNotifyInv ==
  ASSUME IInv, NEW o \in Objs, RunNotify(o)
  PROVE  IInv'
<1>1. child[o] = "init" /\ ObjInv(o)
  BY DEF RunNotify, IInv
<1>2. obj[o] = "ctor" /\ os[o] = "joinable" /\ m_thread[o] /\ m_semaphore[o] = 0
  <2>1. obj[o] \in {"none", "ctor", "live", "dead"}
    BY DEF IInv, TypeOK
  <2> QED BY <1>1, <2>1 DEF ObjInv, Started
<1>3. /\ child' = [child EXCEPT ![o] = "callback"]
      /\ m_semaphore' = [m_semaphore EXCEPT ![o] = @ + 1]
      /\ UNCHANGED <<obj, m_thread, m_id, m_cb, m_name, t_thread_name, os,
                     call, on, bad>>
  BY <1>2 DEF RunNotify
<1>4. m_semaphore' = [m_semaphore EXCEPT ![o] = 1]
  BY <1>2, <1>3
<1>5. TypeOK' /\ child'[o] = "callback" /\ m_semaphore'[o] = 1
  BY <1>3, <1>4 DEF IInv, TypeOK
<1>6. \A p \in Objs : p # o =>
        child'[p] = child[p] /\ m_semaphore'[p] = m_semaphore[p]
  BY <1>3 DEF IInv, TypeOK
<1>7. ASSUME NEW p \in Objs PROVE ObjInv(p)'
  <2>1. CASE p = o
    BY <1>1, <1>2, <1>3, <1>5, <2>1 DEF ObjInv, Started
  <2>2. CASE p # o
    BY <1>3, <1>6, <2>2, ObjFrame DEF IInv
  <2> QED BY <2>1, <2>2
<1>8. ASSUME NEW d \in Callers PROVE CallInv(d)'
  <2>1. CallInv(d) /\ (d = o => call[d] = "none")
    BY <1>1 DEF IInv, CallInv
  <2> QED BY <1>3, <1>6, <2>1, CallFrame
<1> QED BY <1>3, <1>5, <1>7, <1>8 DEF IInv, NothingBad, OneCaller

LEMMA CallbackEndsInv ==
  ASSUME IInv, Contract = Clauses, NEW o \in Objs, NEW throws \in BOOLEAN,
         CallbackEnds(o, throws)
  PROVE  IInv'
<1>1. /\ child[o] = "callback" /\ call[o] = "none"
      /\ child' = [child EXCEPT ![o] = "returned"]
      /\ UNCHANGED <<obj, m_thread, m_id, m_cb, m_name, m_semaphore,
                     t_thread_name, os, call, on, bad>>
  BY DEF CallbackEnds, InClient, Demand, Clauses
<1>2. TypeOK' /\ child'[o] = "returned"
  BY <1>1 DEF IInv, TypeOK
<1>3. \A p \in Objs : p # o => child'[p] = child[p]
  BY <1>1 DEF IInv, TypeOK
<1>4. ASSUME NEW p \in Objs PROVE ObjInv(p)'
  <2>1. CASE p = o
    <3>1. ObjInv(o)
      BY DEF IInv
    <3> QED BY <1>1, <1>2, <2>1, <3>1 DEF ObjInv, Started
  <2>2. CASE p # o
    BY <1>1, <1>3, <2>2, ObjFrame DEF IInv
  <2> QED BY <2>1, <2>2
<1>5. ASSUME NEW d \in Callers PROVE CallInv(d)'
  BY <1>1, <1>3, CallFrame DEF IInv
<1> QED BY <1>1, <1>2, <1>4, <1>5 DEF IInv, NothingBad, OneCaller

LEMMA GetNameInv ==
  ASSUME IInv, NEW c \in Callers, NEW o \in Objs, GetName(c, o)
  PROVE  IInv'
<1>1. /\ call[c] = "none" /\ obj[o] = "live"
      /\ c \in Objs => child[c] = "callback"
      /\ call' = [call EXCEPT ![c] = "name"]
      /\ on' = [on EXCEPT ![c] = o]
      /\ UNCHANGED <<obj, m_thread, m_id, m_cb, m_name, m_semaphore, child,
                     t_thread_name, os, bad>>
  BY DEF GetName, InClient, Begin
<1>2. TypeOK' /\ call'[c] = "name" /\ on'[c] = o
  BY <1>1 DEF IInv, TypeOK
<1>3. \A d \in Callers : d # c => call'[d] = call[d] /\ on'[d] = on[d]
  BY <1>1 DEF IInv, TypeOK
<1>4. ASSUME NEW p \in Objs PROVE ObjInv(p)'
  BY <1>1, <1>3, ObjFrame DEF IInv
<1>5. ASSUME NEW d \in Callers PROVE CallInv(d)'
  <2>1. CASE d = c
    BY <1>1, <1>2, <2>1, ThreadAssumption DEF CallInv
  <2>2. CASE d # c
    BY <1>1, <1>3, <2>2, CallFrame DEF IInv
  <2> QED BY <2>1, <2>2
<1>6. OneCaller'
  BY <1>2, <1>3 DEF IInv, OneCaller
<1> QED BY <1>1, <1>2, <1>4, <1>5, <1>6 DEF IInv, NothingBad

LEMMA GotNameInv ==
  ASSUME IInv, NEW c \in Callers, GotName(c)
  PROVE  IInv'
<1>1. /\ call[c] = "name"
      /\ call' = [call EXCEPT ![c] = "none"]
      /\ on' = [on EXCEPT ![c] = "none"]
      /\ UNCHANGED <<obj, m_thread, m_id, m_cb, m_name, m_semaphore, child,
                     t_thread_name, os>>
  BY DEF GotName, End, Begin
<1>2. bad' = bad
  <2>1. obj[on[c]] = "live"
    BY <1>1 DEF IInv, CallInv
  <2> QED BY <2>1 DEF GotName
<1>3. TypeOK' /\ call'[c] = "none" /\ on'[c] = "none"
  BY <1>1, <1>2 DEF IInv, TypeOK
<1>4. \A d \in Callers : d # c => call'[d] = call[d] /\ on'[d] = on[d]
  BY <1>1 DEF IInv, TypeOK
<1>5. ASSUME NEW p \in Objs PROVE ObjInv(p)'
  BY <1>1, <1>4, ObjFrame DEF IInv
<1>6. ASSUME NEW d \in Callers PROVE CallInv(d)'
  <2>1. CASE d = c
    BY <1>3, <2>1 DEF CallInv
  <2>2. CASE d # c
    BY <1>1, <1>4, <2>2, CallFrame DEF IInv
  <2> QED BY <2>1, <2>2
<1>7. OneCaller'
  BY <1>3, <1>4, EndFrame DEF IInv
<1> QED BY <1>2, <1>3, <1>5, <1>6, <1>7 DEF IInv, NothingBad

LEMMA SetNameInv ==
  ASSUME IInv, Contract = Clauses, NEW c \in Callers, NEW name \in Names,
         SetName(c, name)
  PROVE  IInv'
<1>1. /\ c \in Objs => obj[c] # "dead"
      /\ t_thread_name' = [t_thread_name EXCEPT ![c] = name]
      /\ m_name' = [o \in Objs |-> IF o = c /\ obj[o] # "dead" THEN name
                                   ELSE m_name[o]]
      /\ UNCHANGED <<obj, m_thread, m_id, m_cb, m_semaphore, child, os, call,
                     on, bad>>
  BY DEF SetName, Demand, Clauses
<1>2. TypeOK'
  <2>1. name \in ThreadNames
    BY DEF ThreadNames
  <2>2. t_thread_name' \in [Callers -> ThreadNames]
    BY <1>1, <2>1 DEF IInv, TypeOK
  <2>3. m_name' \in [Objs -> ThreadNames]
    BY <1>1, <2>1 DEF IInv, TypeOK
  <2> QED BY <1>1, <2>2, <2>3 DEF IInv, TypeOK
<1>3. \A p \in Objs : /\ p = c => t_thread_name'[p] = name /\ m_name'[p] = name
                      /\ p # c => /\ t_thread_name'[p] = t_thread_name[p]
                                  /\ m_name'[p] = m_name[p]
  BY <1>1 DEF IInv, TypeOK, Callers
<1>4. ASSUME NEW p \in Objs PROVE ObjInv(p)'
  <2>1. ObjInv(p)
    BY DEF IInv
  <2>2. CASE p = c
    <3>1. t_thread_name'[p] = m_name'[p]
      BY <1>3, <2>2
    <3>2. UNCHANGED <<obj, m_thread, m_id, m_cb, m_semaphore, child, os, call, on>>
      BY <1>1
    <3> QED BY <2>1, <3>1, <3>2 DEF ObjInv
  <2>3. CASE p # c
    BY <1>1, <1>3, <2>1, <2>3, ObjFrame
  <2> QED BY <2>2, <2>3
<1>5. ASSUME NEW d \in Callers PROVE CallInv(d)'
  BY <1>1, CallFrame DEF IInv
<1> QED BY <1>1, <1>2, <1>4, <1>5 DEF IInv, NothingBad, OneCaller

(* Joining oneself, or a thread that joins oneself, is waiting in a circle. *)
LEMMA CircleWaits ==
  ASSUME NEW c \in Callers, NEW o \in Objs,
         c = o \/ (call[o] = "join" /\ on[o] = c)
  PROVE  WaitsFor(o, c)
BY DEF WaitsFor

LEMMA JoinInv ==
  ASSUME IInv, Contract = Clauses, NEW c \in Callers, NEW o \in Objs, Join(c, o)
  PROVE  IInv'
<1>1. /\ call[c] = "none" /\ obj[o] = "live" /\ m_thread[o]
      /\ c \in Objs => child[c] = "callback"
      /\ ~WaitsFor(o, c)
      /\ \A d \in Callers : call[d] \in {"join", "joined"} => on[d] # o
      /\ UNCHANGED <<obj, m_thread, m_id, m_cb, m_name, m_semaphore, child,
                     t_thread_name, os>>
  BY DEF Join, InClient, Demand, Clauses
<1>2. os[o] = "joinable"
  <2>1. ObjInv(o)
    BY DEF IInv
  <2> QED BY <1>1, <2>1 DEF ObjInv
<1>3. /\ c # o /\ ~(call[o] = "join" /\ on[o] = c)
      /\ ~\E d \in Callers : call[d] = "join" /\ on[d] = o
  BY <1>1, CircleWaits
<1>4. /\ call' = [call EXCEPT ![c] = "join"] /\ on' = [on EXCEPT ![c] = o]
      /\ bad' = bad
  BY <1>2, <1>3 DEF Join, Begin
<1>5. TypeOK' /\ call'[c] = "join" /\ on'[c] = o
  BY <1>1, <1>4 DEF IInv, TypeOK
<1>6. \A d \in Callers : d # c => call'[d] = call[d] /\ on'[d] = on[d]
  BY <1>4 DEF IInv, TypeOK
<1>7. ASSUME NEW p \in Objs PROVE ObjInv(p)'
  BY <1>1, <1>6, ObjFrame DEF IInv
<1>8. ASSUME NEW d \in Callers PROVE CallInv(d)'
  <2>1. CASE d = c
    BY <1>1, <1>2, <1>5, <2>1, ThreadAssumption DEF CallInv
  <2>2. CASE d # c
    BY <1>1, <1>6, <2>2, CallFrame DEF IInv
  <2> QED BY <2>1, <2>2
<1>9. OneCaller'
  BY <1>1, <1>5, <1>6 DEF IInv, OneCaller
<1> QED BY <1>4, <1>5, <1>7, <1>8, <1>9 DEF IInv, NothingBad

LEMMA JoinedInv ==
  ASSUME IInv, NEW c \in Callers, Joined(c)
  PROVE  IInv'
<1> DEFINE o == on[c]
<1>1. /\ call[c] = "join" /\ child[o] = "returned"
      /\ os' = [os EXCEPT ![o] = "joined"]
      /\ call' = [call EXCEPT ![c] = "joined"]
      /\ UNCHANGED <<obj, m_thread, m_id, m_cb, m_name, m_semaphore, child,
                     t_thread_name, on, bad>>
  BY DEF Joined
<1>2. o \in Objs /\ ObjInv(o) /\ CallInv(c) /\ OneCaller
  BY <1>1, CallIsOn DEF IInv
<1>3. obj[o] = "live"
  BY <1>1, <1>2 DEF CallInv
<1>4. TypeOK' /\ call'[c] = "joined" /\ os'[o] = "joined"
  BY <1>1, <1>2 DEF IInv, TypeOK
<1>5. \A d \in Callers : d # c => call'[d] = call[d]
  BY <1>1 DEF IInv, TypeOK
<1>6. \A p \in Objs : p # o => os'[p] = os[p]
  BY <1>1 DEF IInv, TypeOK
<1>7. ASSUME NEW p \in Objs PROVE ObjInv(p)'
  <2>1. CASE p = o
    <3>1. \E d \in Callers : call'[d] = "joined" /\ on'[d] = o
      BY <1>1, <1>4
    <3> QED BY <1>1, <1>2, <1>3, <1>4, <2>1, <3>1 DEF ObjInv, Started
  <2>2. CASE p # o
    BY <1>1, <1>5, <1>6, <2>2, ObjFrame DEF IInv
  <2> QED BY <2>1, <2>2
<1>8. ASSUME NEW d \in Callers PROVE CallInv(d)'
  <2>1. CASE d = c
    BY <1>1, <1>2, <1>3, <1>4, <2>1 DEF CallInv
  <2>2. CASE d # c /\ on[d] # o
    BY <1>1, <1>5, <1>6, <2>2, CallIsOn, CallFrame DEF IInv
  <2>3. CASE d # c /\ on[d] = o
    <3>1. CallInv(d) /\ call[d] \notin {"join", "joined"}
      BY <1>1, <1>2, <2>3 DEF IInv, OneCaller
    <3> QED BY <1>1, <1>5, <2>3, <3>1 DEF CallInv
  <2> QED BY <2>1, <2>2, <2>3
<1>9. OneCaller'
  BY <1>1, <1>2, <1>4, <1>5 DEF OneCaller
<1> QED BY <1>1, <1>4, <1>7, <1>8, <1>9 DEF IInv, NothingBad

LEMMA JoinReturnsInv ==
  ASSUME IInv, NEW c \in Callers, JoinReturns(c)
  PROVE  IInv'
<1> DEFINE o == on[c]
<1>1. /\ call[c] = "joined"
      /\ call' = [call EXCEPT ![c] = "none"]
      /\ on' = [on EXCEPT ![c] = "none"]
      /\ UNCHANGED <<obj, m_id, m_cb, m_name, m_semaphore, child,
                     t_thread_name, os>>
  BY DEF JoinReturns, End, Begin
<1>2. o \in Objs /\ ObjInv(o) /\ CallInv(c)
  BY <1>1, CallIsOn DEF IInv
<1>3. obj[o] = "live" /\ os[o] = "joined"
  BY <1>1, <1>2 DEF CallInv
<1>4. m_thread' = [m_thread EXCEPT ![o] = FALSE] /\ bad' = bad
  BY <1>3 DEF JoinReturns
<1>5. /\ TypeOK' /\ call'[c] = "none" /\ on'[c] = "none"
      /\ m_thread'[o] = FALSE
  BY <1>1, <1>2, <1>4 DEF IInv, TypeOK
<1>6. \A d \in Callers : d # c => call'[d] = call[d] /\ on'[d] = on[d]
  BY <1>1 DEF IInv, TypeOK
<1>7. \A p \in Objs : p # o => m_thread'[p] = m_thread[p]
  BY <1>4 DEF IInv, TypeOK
<1>8. ASSUME NEW p \in Objs PROVE ObjInv(p)'
  <2>1. CASE p = o
    BY <1>1, <1>2, <1>3, <1>5, <2>1 DEF ObjInv
  <2>2. CASE p # o
    BY <1>1, <1>6, <1>7, <2>2, ObjFrame DEF IInv
  <2> QED BY <2>1, <2>2
<1>9. ASSUME NEW d \in Callers PROVE CallInv(d)'
  <2>1. CASE d = c
    BY <1>5, <2>1 DEF CallInv
  <2>2. CASE d # c
    BY <1>1, <1>6, <2>2, CallFrame DEF IInv
  <2> QED BY <2>1, <2>2
<1>10. OneCaller'
  BY <1>5, <1>6, EndFrame DEF IInv
<1> QED BY <1>4, <1>5, <1>8, <1>9, <1>10 DEF IInv, NothingBad

LEMMA DestroyInv ==
  ASSUME IInv, Contract = Clauses, NEW c \in Callers, NEW o \in Objs,
         Destroy(c, o)
  PROVE  IInv'
<1>1. /\ obj[o] = "live"
      /\ \A d \in Callers : on[d] # o
      /\ obj' = [obj EXCEPT ![o] = "dead"]
      /\ UNCHANGED <<m_thread, m_id, m_cb, m_name, m_semaphore, child,
                     t_thread_name, call, on>>
  BY DEF Destroy, Demand, Clauses
<1>2. ObjInv(o)
  BY DEF IInv
<1>3. /\ child[o] \in Started
      /\ m_thread[o] => os[o] = "joinable"
      /\ ~m_thread[o] => os[o] = "joined" /\ child[o] = "returned"
  BY <1>1, <1>2 DEF ObjInv
<1>4. /\ bad' = bad
      /\ os' = IF m_thread[o] THEN [os EXCEPT ![o] = "detached"] ELSE os
  BY <1>3 DEF Destroy
<1>5. TypeOK' /\ obj'[o] = "dead"
  BY <1>1, <1>4 DEF IInv, TypeOK
<1>6. /\ m_thread[o] => os'[o] = "detached"
      /\ ~m_thread[o] => os'[o] = "joined"
  BY <1>3, <1>4 DEF IInv, TypeOK
<1>7. \A p \in Objs : p # o => obj'[p] = obj[p] /\ os'[p] = os[p]
  BY <1>1, <1>4 DEF IInv, TypeOK
<1>8. ASSUME NEW p \in Objs PROVE ObjInv(p)'
  <2>1. CASE p = o
    BY <1>1, <1>2, <1>3, <1>5, <1>6, <2>1 DEF ObjInv
  <2>2. CASE p # o
    BY <1>1, <1>7, <2>2, ObjFrame DEF IInv
  <2> QED BY <2>1, <2>2
<1>9. ASSUME NEW d \in Callers PROVE CallInv(d)'
  BY <1>1, <1>7, CallIsOn, CallFrame DEF IInv
<1> QED BY <1>1, <1>4, <1>5, <1>8, <1>9 DEF IInv, NothingBad, OneCaller

----------------------------------------------------------------------------
LEMMA NextInv == ASSUME IInv, Contract = Clauses, [Next]_vars PROVE IInv'
<1>1. ASSUME NEW c \in Callers, ClientStep(c) PROVE IInv'
  BY <1>1, ConstructInv, SetNameInv, GetNameInv, JoinInv, DestroyInv
     DEF ClientStep
<1>2. ASSUME NEW c \in Callers, CallStep(c) PROVE IInv'
  BY <1>2, ConstructorLeavesInv, GotNameInv, JoinedInv, JoinReturnsInv
     DEF CallStep
<1>3. ASSUME NEW o \in Objs, RunStep(o) PROVE IInv'
  BY <1>3, RunInitInv, RunNotifyInv DEF RunStep
<1>4. CASE UNCHANGED vars
  BY <1>4 DEF vars, IInv, TypeOK, NothingBad, OneCaller, ObjInv, CallInv
<1> QED BY <1>1, <1>2, <1>3, <1>4, CallbackEndsInv DEF Next

(* The inductive invariant holds throughout. *)
THEOREM Invariant == ASSUME Contract = Clauses PROVE Spec => []IInv
BY InitInv, NextInv, PTL DEF Spec

(* The state of the class and of the OS threads keeps its types, the
   semaphore's count of at most one among them. *)
THEOREM TypeCorrect == ASSUME Contract = Clauses PROVE Spec => []TypeOK
<1>1. IInv => TypeOK
  BY DEF IInv
<1> QED BY <1>1, Invariant, PTL

(* Under the contract run(), getName(), SetName(), join() and ~Thread never
   touch a destroyed object, tear a name, use a stale handle or throw. *)
THEOREM NeverBad == ASSUME Contract = Clauses PROVE Spec => []NothingBad
<1>1. IInv => NothingBad
  BY DEF IInv
<1> QED BY <1>1, Invariant, PTL

(* The comment of thread.cc:41 holds: who has a constructed Thread has one
   whose child has its id, name and callback and needs the object no more. *)
THEOREM ConstructorWaits ==
  ASSUME Contract = Clauses PROVE Spec => []LeavesAfterStart
<1>1. IInv => LeavesAfterStart
  <2>1. SUFFICES ASSUME IInv, NEW o \in Objs, os[o] # "none", obj[o] # "ctor"
                 PROVE  m_id[o] /\ m_cb[o] = "child" /\ child[o] \in Started
    BY DEF LeavesAfterStart, Started
  <2>2. ObjInv(o) /\ obj[o] \in {"none", "ctor", "live", "dead"}
    BY <2>1 DEF IInv, TypeOK
  <2> QED BY <2>1, <2>2 DEF ObjInv, Started
<1> QED BY <1>1, Invariant, PTL

(* A handle that join() cleared means the callback is over and reaped. *)
THEOREM ClearedHandles ==
  ASSUME Contract = Clauses PROVE Spec => []ClearedIsDone
<1>1. IInv => ClearedIsDone
  <2>1. SUFFICES ASSUME IInv, NEW o \in Objs, os[o] # "none", ~m_thread[o]
                 PROVE  child[o] = "returned" /\ os[o] = "joined"
    BY DEF ClearedIsDone
  <2>2. ObjInv(o) /\ obj[o] \in {"none", "ctor", "live", "dead"}
    BY <2>1 DEF IInv, TypeOK
  <2> QED BY <2>1, <2>2 DEF ObjInv, Started
<1> QED BY <1>1, Invariant, PTL

(* ~Thread leaves no OS thread that nobody will reap. *)
THEOREM AllReaped == ASSUME Contract = Clauses PROVE Spec => []NoZombie
<1>1. IInv => NoZombie
  BY DEF IInv, ObjInv, NoZombie
<1> QED BY <1>1, Invariant, PTL

(* What SetName and run() store in t_thread_name is the name getName()
   returns. *)
THEOREM OneName == ASSUME Contract = Clauses PROVE Spec => []NamesAgree
<1>1. IInv => NamesAgree
  BY DEF IInv, ObjInv, NamesAgree, Started
<1> QED BY <1>1, Invariant, PTL
=============================================================================
