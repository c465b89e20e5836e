---------------------------- MODULE ConfigProofs ----------------------------
(***************************************************************************)
(* Under its contract the registry keeps every handle, and a document that *)
(* was loaded has taken effect, for any set of names, types, documents and *)
(* conversions.  LoadTakesEffect speaks of the load that ended last; the   *)
(* invariant speaks of a load under way as well: the part of the document  *)
(* that it has been through has taken effect on the variables that were    *)
(* there when it began.                                                    *)
(***************************************************************************)
EXTENDS ConfigCasts, FiniteSetTheorems, WellFoundedInduction, TLAPS

(* The registry and the variables name each other, one variable per name and
   one type per name. *)
RegistryInv ==
  /\ HandleIsRegistered
  /\ \A n \in Registered :
       m_datas[n] \in Created /\ name[m_datas[n]] = n /\ type[m_datas[n]] = TypeOf[n]

(* The entries of document d that are done, all but left, have made v the
   value of the variable n: v is what the last of them that converts says. *)
Effect(d, left, n, v) ==
  \A i \in DOMAIN d \ left :
    /\ d[i][1] = n /\ Parse(TypeOf[n], d[i][2]) # Null
    /\ \A j \in DOMAIN d \ left :
         j > i /\ d[j][1] = n => Parse(TypeOf[n], d[j][2]) = Null
    => v = Parse(TypeOf[n], d[i][2])

(* A load under way has been through the head of its document. *)
LoadInv(t) ==
  Loading(t) =>
    /\ last = NoLoad
    /\ doc[t] \in Docs /\ todo[t] \subseteq DOMAIN doc[t]
    /\ \A i \in todo[t] : doc[t][i][1] \in Names
    /\ \A i \in todo[t], j \in DOMAIN doc[t] :
         j > i /\ doc[t][j][1] \in Names => j \in todo[t]
    /\ before[t] \subseteq Registered
    /\ pc[t] = "apply" => /\ todo[t] # {} /\ Entry(t)[1] \in Registered
                          /\ var[t] = m_datas[Entry(t)[1]]
    /\ \A n \in before[t] : Effect(doc[t], todo[t], n, m_val[m_datas[n]])

(* One load at a time. *)
Serial == \A t, u \in Threads : Loading(t) /\ Loading(u) => t = u

(* The load that ended last has been through all of its document. *)
LastInv ==
  /\ last.before \subseteq Registered
  /\ last.doc \in Docs \cup {<<>>}
  /\ \A n \in last.before : Effect(last.doc, {}, n, m_val[m_datas[n]])

IInv ==
  /\ TypeOK
  /\ RegistryInv
  /\ Serial
  /\ \A t \in Threads : LoadInv(t)
  /\ LastInv

----------------------------------------------------------------------------
(* A set of positions has a least one. *)
LEMMA LeastPosition ==
  ASSUME NEW S \in SUBSET Nat, S # {}
  PROVE  Min(S) \in S /\ \A j \in S : Min(S) <= j
<1> DEFINE R == {ss \in Nat \X Nat : ss[1] < ss[2]}
<1>1. IsWellFoundedOn(R, Nat)
  BY NatLessThanWellFounded DEF OpToRel
<1>2. PICK k \in S : \A j \in S : ~(<<j, k>> \in R)
  BY <1>1, WFMin, Zenon
<1>3. \A j \in S : j < k => <<j, k>> \in R
  OBVIOUS
<1>4. k \in Nat /\ \A j \in S : j \in Nat
  OBVIOUS
<1> HIDE DEF R
<1>5. \A j \in S : ~(j < k)
  BY <1>2, <1>3, Zenon
<1>6. \A j \in S : k <= j
  BY <1>4, <1>5
<1> QED BY <1>6, Zenon DEF Min

(* A document is a sequence of names and texts. *)
LEMMA DocShape ==
  ASSUME NEW d \in Docs
  PROVE  /\ DOMAIN d \subseteq Nat
         /\ \A i \in DOMAIN d : d[i][1] \in Names \cup OtherNames /\ d[i][2] \in Inputs
<1>1. d \in Seq((Names \cup OtherNames) \X Inputs)
  BY ConfigAssumption
<1> QED BY <1>1

(* What a load has done when it begins, ... *)
LEMMA EffectBegins ==
  ASSUME NEW d \in Docs, NEW n \in Names, NEW v
  PROVE  Effect(d, {i \in DOMAIN d : d[i][1] \in Names}, n, v)
BY DEF Effect

(* ... when it goes past an entry of another name or one that does not
   convert, ... *)
LEMMA EffectSkips ==
  ASSUME NEW d \in Docs, NEW left, NEW n, NEW v, Effect(d, left, n, v),
         NEW e \in left, d[e][1] # n \/ Parse(TypeOf[n], d[e][2]) = Null
  PROVE  Effect(d, left \ {e}, n, v)
<1>1. SUFFICES ASSUME NEW i \in DOMAIN d \ (left \ {e}),
                      d[i][1] = n, Parse(TypeOf[n], d[i][2]) # Null,
                      \A j \in DOMAIN d \ (left \ {e}) :
                        j > i /\ d[j][1] = n => Parse(TypeOf[n], d[j][2]) = Null
               PROVE  v = Parse(TypeOf[n], d[i][2])
  BY DEF Effect
<1>2. i \in DOMAIN d \ left /\ DOMAIN d \ left \subseteq DOMAIN d \ (left \ {e})
  BY <1>1
<1>3. \A j \in DOMAIN d \ left :
        j > i /\ d[j][1] = n => Parse(TypeOf[n], d[j][2]) = Null
  BY <1>1, <1>2
<1> QED BY <1>1, <1>2, <1>3 DEF Effect

(* ... when it applies one, which is later than all that is done, ... *)
LEMMA EffectApplies ==
  ASSUME NEW d \in Docs, NEW left \in SUBSET DOMAIN d, NEW n, NEW e \in left,
         d[e][1] = n, Parse(TypeOf[n], d[e][2]) # Null,
         \A i \in DOMAIN d \ left : d[i][1] = n => e > i
  PROVE  Effect(d, left \ {e}, n, Parse(TypeOf[n], d[e][2]))
<1>1. SUFFICES ASSUME NEW i \in DOMAIN d \ (left \ {e}),
                      d[i][1] = n, Parse(TypeOf[n], d[i][2]) # Null,
                      \A j \in DOMAIN d \ (left \ {e}) :
                        j > i /\ d[j][1] = n => Parse(TypeOf[n], d[j][2]) = Null
               PROVE  i = e
  BY DEF Effect
<1>2. SUFFICES ASSUME i # e PROVE FALSE
  OBVIOUS
<1>3. i \in DOMAIN d \ left /\ e \in DOMAIN d \ (left \ {e})
  BY <1>1, <1>2
<1> QED BY <1>1, <1>3

(* ... and when it ends. *)
LEMMA EffectEnds ==
  ASSUME NEW d, NEW n, NEW v, NEW w, Effect(d, {}, n, v), Says(d, n, TypeOf[n], w)
  PROVE  v = w
BY DEF Effect, Says
----------------------------------------------------------------------------
(* A load is not disturbed by a step that leaves the variables it knows. *)
LEMMA LoadFrame ==
  ASSUME NEW u \in Threads, LoadInv(u),
         pc'[u] = pc[u], doc'[u] = doc[u], todo'[u] = todo[u],
         var'[u] = var[u], before'[u] = before[u],
         Registered \subseteq Registered',
         \A n \in Registered : m_datas'[n] = m_datas[n],
         Loading(u) => /\ last' = last
                       /\ \A n \in Registered : m_val'[m_datas[n]] = m_val[m_datas[n]]
  PROVE  LoadInv(u)'
<1>1. Loading(u)' <=> Loading(u)
  BY DEF Loading
<1>2. Entry(u)' = Entry(u)
  BY DEF Entry
<1>3. ASSUME Loading(u), NEW n \in before[u]
      PROVE  Effect(doc'[u], todo'[u], n, m_val'[m_datas'[n]])
  BY <1>3 DEF LoadInv
<1> QED BY <1>1, <1>2, <1>3 DEF LoadInv

LEMMA LastFrame ==
  ASSUME LastInv, last' = last, Registered \subseteq Registered',
         \A n \in Registered : /\ m_datas'[n] = m_datas[n]
                               /\ m_val'[m_datas[n]] = m_val[m_datas[n]]
  PROVE  LastInv'
BY DEF LastInv

LEMMA LastReset == ASSUME last' = NoLoad PROVE LastInv'
BY DEF LastInv, NoLoad

LEMMA RegistryFrame ==
  ASSUME RegistryInv, UNCHANGED <<m_datas, type, name>>
  PROVE  RegistryInv' /\ Registered' = Registered /\ Created' = Created
BY DEF RegistryInv, HandleIsRegistered, Registered, Created

LEMMA InitInv == ASSUME Init PROVE IInv
<1>1. TypeOK
  BY ConfigAssumption DEF Init, TypeOK, Created
<1>2. RegistryInv
  BY DEF Init, RegistryInv, HandleIsRegistered, Created, Registered
<1>3. Serial /\ \A t \in Threads : LoadInv(t)
  BY DEF Init, Serial, LoadInv, Loading
<1>4. LastInv
  BY DEF Init, LastInv, NoLoad
<1> QED BY <1>1, <1>2, <1>3, <1>4 DEF IInv

(* Callers agree on the types, so that Lookup creates where the name is not
   registered and nowhere else. *)
LEMMA LookupInv ==
  ASSUME IInv, Contract = Clauses, NEW t \in Threads, NEW n \in Names,
         NEW ty \in Types, NEW o \in Objs, Lookup(t, n, ty, o)
  PROVE  IInv'
<1>1. /\ ty = TypeOf[n] /\ ~Found(n, ty) /\ o \notin Created
      /\ type' = [type EXCEPT ![o] = ty]
      /\ name' = [name EXCEPT ![o] = n]
      /\ m_val' = [m_val EXCEPT ![o] = Default[ty]]
      /\ m_datas' = [m_datas EXCEPT ![n] = o]
      /\ UNCHANGED <<readers, pc, doc, todo, var, before, seen, last, calls>>
  BY DEF Lookup, Demand, Clauses
<1>2. n \notin Registered
  BY <1>1 DEF IInv, RegistryInv, Found
<1>3. ty # Null /\ o # Null /\ Default[ty] \in Values[ty] /\ Values[ty] \subseteq AllValues
  BY ConfigAssumption DEF AllValues
<1>4. /\ type'[o] = ty /\ name'[o] = n /\ m_val'[o] = Default[ty] /\ m_datas'[n] = o
      /\ \A p \in Objs : p # o => /\ type'[p] = type[p] /\ name'[p] = name[p]
                                  /\ m_val'[p] = m_val[p]
      /\ \A m \in Names : m # n => m_datas'[m] = m_datas[m]
  BY <1>1 DEF IInv, TypeOK
<1>5. Created' = Created \cup {o} /\ Created \subseteq Objs
  BY <1>3, <1>4 DEF Created
<1>6. Registered' = Registered \cup {n} /\ Registered \subseteq Names
  BY <1>3, <1>4 DEF Registered
<1>7. TypeOK'
  <2>1. m_datas' \in [Names -> Created' \cup {Null}]
    BY <1>1, <1>5 DEF IInv, TypeOK
  <2>2. type' \in [Objs -> Types \cup {Null}] /\ name' \in [Objs -> Names \cup {Null}]
    BY <1>1 DEF IInv, TypeOK
  <2>3. m_val' \in [Objs -> AllValues \cup {Null}]
    BY <1>1, <1>3 DEF IInv, TypeOK
  <2>4. \A p \in Created' : name'[p] \in Names /\ m_val'[p] \in Values[type'[p]]
    <3>1. \A p \in Created : name[p] \in Names /\ m_val[p] \in Values[type[p]]
      BY DEF IInv, TypeOK
    <3> QED BY <1>1, <1>3, <1>4, <1>5, <3>1
  <2>5. var' \in [Threads -> Created' \cup {Null}] /\ seen' \in [Threads -> SUBSET Created']
    BY <1>1, <1>5 DEF IInv, TypeOK
  <2> QED BY <1>1, <2>1, <2>2, <2>3, <2>4, <2>5 DEF IInv, TypeOK
<1>8. \A m \in Registered : /\ m # n /\ m_datas'[m] = m_datas[m]
                            /\ m_datas[m] # o /\ m_datas[m] \in Objs
                            /\ m_val'[m_datas[m]] = m_val[m_datas[m]]
  BY <1>1, <1>2, <1>4, <1>5, <1>6 DEF IInv, RegistryInv
<1>9. RegistryInv'
  <2>1. ASSUME NEW p \in Created' PROVE m_datas'[name'[p]] = p
    <3>1. CASE p = o
      BY <1>4, <3>1
    <3>2. CASE p # o
      <4>1. p \in Created /\ name[p] \in Names /\ m_datas[name[p]] = p /\ p # Null
        BY <1>5, <3>2, ConfigAssumption DEF IInv, TypeOK, RegistryInv, HandleIsRegistered
      <4> QED BY <1>4, <1>5, <1>8, <3>2, <4>1 DEF Registered
    <3> QED BY <3>1, <3>2
  <2>2. ASSUME NEW m \in Registered'
        PROVE  /\ m_datas'[m] \in Created' /\ name'[m_datas'[m]] = m
               /\ type'[m_datas'[m]] = TypeOf[m]
    <3>1. CASE m = n
      BY <1>1, <1>4, <1>5, <3>1
    <3>2. CASE m # n
      <4>1. m \in Registered
        BY <1>6, <3>2
      <4>2. /\ m_datas[m] \in Created /\ name[m_datas[m]] = m
            /\ type[m_datas[m]] = TypeOf[m]
        BY <4>1 DEF IInv, RegistryInv
      <4> QED BY <1>4, <1>5, <1>8, <4>1, <4>2
    <3> QED BY <3>1, <3>2
  <2> QED BY <2>1, <2>2 DEF RegistryInv, HandleIsRegistered
<1>10. ASSUME NEW u \in Threads PROVE LoadInv(u)'
  BY <1>1, <1>6, <1>8, LoadFrame DEF IInv
<1>11. LastInv'
  BY <1>1, <1>6, <1>8, LastFrame DEF IInv
<1>12. Serial'
  BY <1>1 DEF IInv, Serial, Loading
<1> QED BY <1>7, <1>9, <1>10, <1>11, <1>12 DEF IInv

LEMMA SetValueInv ==
  ASSUME IInv, Contract = Clauses, NEW t \in Threads, NEW o \in Created,
         NEW v \in Values[type[o]], SetValue(t, o, v)
  PROVE  IInv'
<1>1. /\ \A u \in Threads : ~Loading(u)
      /\ m_val' = [m_val EXCEPT ![o] = v] /\ last' = NoLoad
      /\ calls < MaxCalls /\ calls' = calls + 1
      /\ UNCHANGED <<m_datas, type, name, readers, pc, doc, todo, var, before, seen>>
  BY DEF SetValue, Assign, Demand, Clauses, Call
<1>2. RegistryInv' /\ Registered' = Registered /\ Created' = Created
  BY <1>1, RegistryFrame DEF IInv
<1>3. o \in Objs /\ type[o] \in Types /\ v \in AllValues
  BY DEF Created, IInv, TypeOK, AllValues
<1>4. \A p \in Objs : m_val'[p] = IF p = o THEN v ELSE m_val[p]
  BY <1>1, <1>3 DEF IInv, TypeOK
<1>5. TypeOK'
  <2>1. calls' \in 0..MaxCalls
    BY <1>1, ConfigAssumption DEF IInv, TypeOK
  <2>2. m_val' \in [Objs -> AllValues \cup {Null}]
    BY <1>1, <1>3 DEF IInv, TypeOK
  <2>3. \A p \in Created : name[p] \in Names /\ m_val'[p] \in Values[type[p]]
    BY <1>4 DEF IInv, TypeOK, Created
  <2> QED BY <1>1, <1>2, <2>1, <2>2, <2>3 DEF IInv, TypeOK
<1>6. \A u \in Threads : ~Loading(u)'
  BY <1>1 DEF Loading
<1>7. Serial' /\ \A u \in Threads : LoadInv(u)'
  BY <1>6 DEF Serial, LoadInv
<1> QED BY <1>1, <1>2, <1>5, <1>7, LastReset DEF IInv

LEMMA LoadFromYamlInv ==
  ASSUME IInv, Contract = Clauses, NEW t \in Threads, NEW d \in Docs,
         LoadFromYaml(t, d)
  PROVE  IInv'
<1> DEFINE left == {i \in DOMAIN d : d[i][1] \in Names}
<1>1. /\ \A u \in Threads : ~Loading(u)
      /\ calls < MaxCalls /\ calls' = calls + 1
      /\ pc' = [pc EXCEPT ![t] = "find"]
      /\ doc' = [doc EXCEPT ![t] = d]
      /\ todo' = [todo EXCEPT ![t] = left]
      /\ before' = [before EXCEPT ![t] = Registered]
      /\ last' = NoLoad
      /\ UNCHANGED <<m_datas, type, name, m_val, readers, var, seen>>
  BY DEF LoadFromYaml, Demand, Clauses, Call
<1>2. RegistryInv' /\ Registered' = Registered /\ Created' = Created
  BY <1>1, RegistryFrame DEF IInv
<1>3. left \in SUBSET Nat /\ left \subseteq DOMAIN d
  BY DocShape
<1>4. \A i \in left : d[i][1] \in Names
  OBVIOUS
<1>5. \A j \in DOMAIN d : d[j][1] \in Names => j \in left
  OBVIOUS
<1>6. \A n \in Names : Effect(d, left, n, m_val[m_datas[n]])
  BY EffectBegins
<1> HIDE DEF left
<1>7. TypeOK'
  <2>1. calls' \in 0..MaxCalls
    BY <1>1, ConfigAssumption DEF IInv, TypeOK
  <2>2. Registered \in SUBSET Names
    BY DEF Registered
  <2> QED BY <1>1, <1>2, <1>3, <2>1, <2>2 DEF IInv, TypeOK
<1>8. /\ pc'[t] = "find" /\ doc'[t] = d /\ todo'[t] = left /\ before'[t] = Registered
      /\ \A u \in Threads : u # t => pc'[u] = pc[u]
  BY <1>1 DEF IInv, TypeOK
<1>9. \A u \in Threads : u # t => ~Loading(u)'
  BY <1>1, <1>8 DEF Loading
<1>10. LoadInv(t)'
  <2>1. \A n \in Registered : Effect(d, left, n, m_val'[m_datas'[n]])
    BY <1>1, <1>6 DEF Registered
  <2> QED BY <1>1, <1>2, <1>3, <1>4, <1>5, <1>8, <2>1 DEF LoadInv
<1>11. \A u \in Threads : LoadInv(u)'
  BY <1>9, <1>10 DEF LoadInv
<1>12. Serial'
  BY <1>9 DEF Serial
<1> QED BY <1>1, <1>2, <1>7, <1>11, <1>12, LastReset DEF IInv
(* The next entry of a load, and what is left after it. *)
LEMMA NextEntry ==
  ASSUME IInv, NEW t \in Threads, Loading(t), todo[t] # {}
  PROVE  /\ Min(todo[t]) \in todo[t] /\ Min(todo[t]) \in DOMAIN doc[t]
         /\ doc[t] \in Docs /\ Entry(t) = doc[t][Min(todo[t])]
         /\ Entry(t)[1] \in Names /\ Entry(t)[2] \in Inputs
         /\ \A i \in DOMAIN doc[t] \ todo[t] :
              doc[t][i][1] \in Names => Min(todo[t]) > i
         /\ \A i \in todo[t] \ {Min(todo[t])}, j \in DOMAIN doc[t] :
              j > i /\ doc[t][j][1] \in Names => j \in todo[t] \ {Min(todo[t])}
<1> DEFINE e == Min(todo[t])
<1>1. LoadInv(t) /\ todo[t] \in SUBSET Nat
  BY DEF IInv, TypeOK
<1>2. e \in todo[t] /\ \A j \in todo[t] : e <= j
  BY <1>1, LeastPosition
<1>3. /\ doc[t] \in Docs /\ todo[t] \subseteq DOMAIN doc[t]
      /\ \A i \in todo[t] : doc[t][i][1] \in Names
      /\ \A i \in todo[t], j \in DOMAIN doc[t] :
           j > i /\ doc[t][j][1] \in Names => j \in todo[t]
  BY <1>1 DEF LoadInv
<1>4. DOMAIN doc[t] \subseteq Nat /\ \A i \in DOMAIN doc[t] : doc[t][i][2] \in Inputs
  BY <1>3, DocShape
<1> HIDE DEF e
<1>5. ASSUME NEW i \in DOMAIN doc[t] \ todo[t], doc[t][i][1] \in Names PROVE e > i
  <2>1. ~(i > e) /\ i # e
    BY <1>2, <1>3, <1>5
  <2> QED BY <1>2, <1>3, <1>4, <2>1
<1>6. ASSUME NEW i \in todo[t] \ {e}, NEW j \in DOMAIN doc[t], j > i,
             doc[t][j][1] \in Names
      PROVE  j \in todo[t] \ {e}
  <2>1. j \in todo[t]
    BY <1>3, <1>6
  <2>2. j # e
    BY <1>2, <1>3, <1>4, <1>6
  <2> QED BY <2>1, <2>2
<1>7. Entry(t) = doc[t][e]
  BY DEF Entry, e
<1> QED BY <1>2, <1>3, <1>4, <1>5, <1>6, <1>7 DEF e

LEMMA LoadFindInv ==
  ASSUME IInv, NEW t \in Threads, LoadFind(t)
  PROVE  IInv'
<1> DEFINE e == Min(todo[t])
           o == m_datas[Entry(t)[1]]
<1>1. /\ pc[t] = "find" /\ todo[t] # {}
      /\ UNCHANGED <<m_datas, type, name, m_val, readers, doc, before, seen, last,
                     calls>>
  BY DEF LoadFind
<1>2. RegistryInv' /\ Registered' = Registered /\ Created' = Created
  BY <1>1, RegistryFrame DEF IInv
<1>3. Loading(t) /\ LoadInv(t)
  BY <1>1 DEF Loading, IInv
<1>4. Entry(t)[1] \in Names
  BY <1>1, <1>3, NextEntry
<1>5. LastInv'
  BY <1>1, <1>2, LastFrame DEF IInv
<1>6. CASE o # Null
  <2>1. /\ var' = [var EXCEPT ![t] = o]
        /\ pc' = [pc EXCEPT ![t] = "apply"] /\ UNCHANGED todo
    BY <1>6 DEF LoadFind
  <2>2. TypeOK'
    <3>1. o \in Created \cup {Null}
      BY <1>4 DEF IInv, TypeOK
    <3> QED BY <1>1, <1>2, <2>1, <3>1 DEF IInv, TypeOK
  <2>3. /\ pc'[t] = "apply" /\ var'[t] = o
        /\ \A u \in Threads : u # t => pc'[u] = pc[u] /\ var'[u] = var[u]
    BY <2>1 DEF IInv, TypeOK
  <2>4. \A u \in Threads : Loading(u)' <=> Loading(u)
    BY <1>1, <2>3 DEF Loading
  <2>5. LoadInv(t)'
    <3>1. Entry(t)' = Entry(t) /\ Entry(t)[1] \in Registered
      BY <1>1, <1>4, <1>6, <2>1 DEF Entry, Registered
    <3> QED BY <1>1, <1>2, <1>3, <2>1, <2>3, <3>1 DEF LoadInv
  <2>6. \A u \in Threads : LoadInv(u)'
    BY <1>1, <1>2, <2>1, <2>3, <2>5, LoadFrame DEF IInv
  <2> QED BY <1>2, <1>5, <2>2, <2>4, <2>6 DEF IInv, Serial
<1>7. CASE o = Null
  <2>1. todo' = [todo EXCEPT ![t] = todo[t] \ {e}] /\ UNCHANGED <<var, pc>>
    BY <1>7 DEF LoadFind
  <2>2. TypeOK'
    BY <1>1, <1>2, <2>1 DEF IInv, TypeOK
  <2>3. /\ todo'[t] = todo[t] \ {e}
        /\ \A u \in Threads : u # t => todo'[u] = todo[u]
    BY <2>1 DEF IInv, TypeOK
  <2>4. \A u \in Threads : Loading(u)' <=> Loading(u)
    BY <2>1 DEF Loading
  <2>5. LoadInv(t)'
    <3>1. /\ e \in todo[t] /\ doc[t] \in Docs /\ Entry(t) = doc[t][e]
          /\ \A i \in todo[t] \ {e}, j \in DOMAIN doc[t] :
               j > i /\ doc[t][j][1] \in Names => j \in todo[t] \ {e}
      BY <1>1, <1>3, NextEntry
    <3> HIDE DEF e
    <3>2. ASSUME NEW n \in before[t]
          PROVE  Effect(doc[t], todo[t] \ {e}, n, m_val[m_datas[n]])
      <4>1. Effect(doc[t], todo[t], n, m_val[m_datas[n]]) /\ n \in Registered
        BY <1>3 DEF LoadInv
      <4>2. doc[t][e][1] # n
        BY <1>7, <3>1, <4>1 DEF Registered
      <4> QED BY <3>1, <4>1, <4>2, EffectSkips
    <3> QED BY <1>1, <1>2, <1>3, <2>1, <2>3, <3>1, <3>2 DEF LoadInv
  <2>6. \A u \in Threads : LoadInv(u)'
    BY <1>1, <1>2, <2>1, <2>3, <2>5, LoadFrame DEF IInv
  <2> QED BY <1>2, <1>5, <2>2, <2>4, <2>6 DEF IInv, Serial
<1> QED BY <1>6, <1>7

LEMMA LoadApplyInv ==
  ASSUME IInv, Contract = Clauses, NEW t \in Threads, LoadApply(t)
  PROVE  IInv'
<1> DEFINE e == Min(todo[t])
           n == Entry(t)[1]
           o == var[t]
           v == Parse(type[o], Entry(t)[2])
<1>1. /\ pc[t] = "apply"
      /\ m_val' = IF v = Null THEN m_val ELSE [m_val EXCEPT ![o] = v]
      /\ todo' = [todo EXCEPT ![t] = todo[t] \ {e}]
      /\ var' = [var EXCEPT ![t] = Null]
      /\ pc' = [pc EXCEPT ![t] = "find"]
      /\ UNCHANGED <<m_datas, type, name, readers, doc, before, seen, last, calls>>
  BY DEF LoadApply, FromString, Assign, Demand, Clauses
<1>2. RegistryInv' /\ Registered' = Registered /\ Created' = Created
  BY <1>1, RegistryFrame DEF IInv
<1>3. Loading(t) /\ LoadInv(t)
  BY <1>1 DEF Loading, IInv
<1>4. todo[t] # {} /\ n \in Registered /\ o = m_datas[n] /\ last = NoLoad
  BY <1>1, <1>3 DEF LoadInv
<1>5. /\ e \in todo[t] /\ doc[t] \in Docs /\ Entry(t) = doc[t][e]
      /\ Entry(t)[2] \in Inputs /\ n \in Names
      /\ \A i \in DOMAIN doc[t] \ todo[t] : doc[t][i][1] \in Names => e > i
      /\ \A i \in todo[t] \ {e}, j \in DOMAIN doc[t] :
           j > i /\ doc[t][j][1] \in Names => j \in todo[t] \ {e}
  BY <1>3, <1>4, NextEntry
<1> HIDE DEF e
<1>6. o \in Created /\ type[o] = TypeOf[n] /\ TypeOf[n] \in Types /\ o \in Objs
  BY <1>4, <1>5, ConfigAssumption DEF IInv, RegistryInv, Created
<1>7. v = Null \/ (v \in Values[type[o]] /\ v \in AllValues)
  BY <1>5, <1>6, ConfigAssumption DEF AllValues
<1> HIDE DEF v
<1>8. \A p \in Objs : m_val'[p] = IF p = o /\ v # Null THEN v ELSE m_val[p]
  BY <1>1, <1>6 DEF IInv, TypeOK
<1>9. TypeOK'
  <2>1. m_val' \in [Objs -> AllValues \cup {Null}]
    BY <1>1, <1>6, <1>7 DEF IInv, TypeOK
  <2>2. \A p \in Created : name[p] \in Names /\ m_val'[p] \in Values[type[p]]
    BY <1>7, <1>8 DEF IInv, TypeOK, Created
  <2>3. todo' \in [Threads -> SUBSET Nat]
    BY <1>1 DEF IInv, TypeOK
  <2> QED BY <1>1, <1>2, <2>1, <2>2, <2>3 DEF IInv, TypeOK
<1>10. /\ pc'[t] = "find" /\ todo'[t] = todo[t] \ {e}
       /\ \A u \in Threads : u # t => /\ pc'[u] = pc[u] /\ todo'[u] = todo[u]
                                      /\ var'[u] = var[u]
  BY <1>1 DEF IInv, TypeOK
<1>11. \A u \in Threads : Loading(u)' <=> Loading(u)
  BY <1>1, <1>10 DEF Loading
<1>12. LoadInv(t)'
  <2>1. ASSUME NEW m \in before[t]
        PROVE  Effect(doc[t], todo[t] \ {e}, m, m_val'[m_datas[m]])
    <3>1. Effect(doc[t], todo[t], m, m_val[m_datas[m]]) /\ m \in Registered
      BY <1>3 DEF LoadInv
    <3>2. m_datas[m] \in Objs /\ m \in Names
      BY <3>1 DEF IInv, RegistryInv, Created, Registered
    <3>3. CASE m # n
      <4>1. m_datas[m] # o
        BY <1>4, <3>1, <3>3 DEF IInv, RegistryInv
      <4> QED BY <1>5, <1>8, <3>1, <3>2, <3>3, <4>1, EffectSkips
    <3>4. CASE m = n /\ v = Null
      <4>1. Parse(TypeOf[m], doc[t][e][2]) = Null
        BY <1>5, <1>6, <3>4 DEF v
      <4> QED BY <1>5, <1>8, <3>1, <3>2, <3>4, <4>1, EffectSkips
    <3>5. CASE m = n /\ v # Null
      <4>1. /\ v = Parse(TypeOf[m], doc[t][e][2]) /\ doc[t][e][1] = m
            /\ m_val'[m_datas[m]] = v
        BY <1>4, <1>5, <1>6, <1>8, <3>5 DEF v
      <4>2. todo[t] \in SUBSET DOMAIN doc[t]
        BY <1>3 DEF LoadInv
      <4>3. \A i \in DOMAIN doc[t] \ todo[t] : doc[t][i][1] = m => e > i
        BY <1>5, <3>2
      <4>4. Parse(TypeOf[m], doc[t][e][2]) # Null /\ e \in todo[t] /\ doc[t] \in Docs
        BY <1>5, <3>5, <4>1
      <4>5. Effect(doc[t], todo[t] \ {e}, m, Parse(TypeOf[m], doc[t][e][2]))
        BY <4>1, <4>2, <4>3, <4>4, EffectApplies
      <4> QED BY <4>1, <4>5
    <3> QED BY <3>3, <3>4, <3>5
  <2>2. /\ last' = NoLoad /\ doc'[t] = doc[t] /\ before'[t] = before[t]
        /\ m_datas' = m_datas
    BY <1>1, <1>4
  <2>3. /\ todo[t] \ {e} \subseteq DOMAIN doc[t] /\ before[t] \subseteq Registered
        /\ \A i \in todo[t] \ {e} : doc[t][i][1] \in Names
    BY <1>3 DEF LoadInv
  <2> QED BY <1>2, <1>5, <1>10, <2>1, <2>2, <2>3 DEF LoadInv
<1>13. \A u \in Threads : LoadInv(u)'
  <2>1. \A u \in Threads : u # t => ~Loading(u)
    BY <1>3 DEF IInv, Serial
  <2> QED BY <1>11, <1>12, <2>1 DEF LoadInv
<1> QED BY <1>1, <1>2, <1>4, <1>9, <1>11, <1>13, LastReset DEF IInv, Serial

LEMMA LoadEndInv ==
  ASSUME IInv, NEW t \in Threads, LoadEnd(t)
  PROVE  IInv'
<1>1. /\ pc[t] = "find" /\ todo[t] = {}
      /\ last' = [doc |-> doc[t], before |-> before[t]]
      /\ pc' = [pc EXCEPT ![t] = "idle"]
      /\ doc' = [doc EXCEPT ![t] = <<>>]
      /\ before' = [before EXCEPT ![t] = {}]
      /\ UNCHANGED <<m_datas, type, name, m_val, readers, todo, var, seen, calls>>
  BY DEF LoadEnd
<1>2. RegistryInv' /\ Registered' = Registered /\ Created' = Created
  BY <1>1, RegistryFrame DEF IInv
<1>3. Loading(t) /\ LoadInv(t)
  BY <1>1 DEF Loading, IInv
<1>4. TypeOK'
  BY <1>1, <1>2 DEF IInv, TypeOK
<1>5. pc'[t] = "idle" /\ \A u \in Threads : u # t => pc'[u] = pc[u]
  BY <1>1 DEF IInv, TypeOK
<1>6. \A u \in Threads : ~Loading(u)'
  BY <1>3, <1>5 DEF IInv, Serial, Loading
<1>7. LastInv'
  <2>1. /\ before[t] \subseteq Registered /\ doc[t] \in Docs
        /\ \A n \in before[t] : Effect(doc[t], {}, n, m_val[m_datas[n]])
    BY <1>1, <1>3 DEF LoadInv
  <2>2. last'.doc = doc[t] /\ last'.before = before[t]
    BY <1>1
  <2> QED BY <1>1, <1>2, <2>1, <2>2 DEF LastInv
<1> QED BY <1>2, <1>4, <1>6, <1>7 DEF IInv, Serial, LoadInv

LEMMA VisitInv ==
  ASSUME IInv, NEW t \in Threads,
         \/ Visit(t)
         \/ VisitEnd(t)
         \/ \E n \in Names, registers \in BOOLEAN : VisitNext(t, n, registers)
  PROVE  IInv'
<1>1. /\ UNCHANGED <<m_datas, type, name, m_val, doc, todo, var, before, last>>
      /\ ~Loading(t)
  BY DEF Visit, VisitEnd, VisitNext, Call, Loading
<1>2. RegistryInv' /\ Registered' = Registered /\ Created' = Created
  BY <1>1, RegistryFrame DEF IInv
<1>3. pc' \in [Threads -> {"idle", "find", "apply", "visit", "stuck"}]
  BY DEF Visit, VisitEnd, VisitNext, IInv, TypeOK
<1>4. pc'[t] \in {"idle", "visit", "stuck"} /\ \A u \in Threads : u # t => pc'[u] = pc[u]
  BY DEF Visit, VisitEnd, VisitNext, IInv, TypeOK
<1>5. readers' \subseteq Threads /\ calls' \in 0..MaxCalls
  <2>1. readers' \subseteq Threads
    BY DEF Visit, VisitEnd, VisitNext, IInv, TypeOK
  <2>2. calls' \in 0..MaxCalls
    BY ConfigAssumption DEF Visit, VisitEnd, VisitNext, Call, IInv, TypeOK
  <2> QED BY <2>1, <2>2
<1>6. seen' \in [Threads -> SUBSET Created]
  <2>1. \A n \in Registered : m_datas[n] \in Created
    BY DEF IInv, RegistryInv
  <2> QED BY <2>1 DEF Visit, VisitEnd, VisitNext, IInv, TypeOK
<1>7. TypeOK'
  BY <1>1, <1>2, <1>3, <1>5, <1>6 DEF IInv, TypeOK
<1>8. \A u \in Threads : Loading(u)' <=> Loading(u)
  BY <1>1, <1>4 DEF Loading
<1>9. \A u \in Threads : LoadInv(u)'
  <2>1. LoadInv(t)'
    BY <1>1, <1>8 DEF LoadInv
  <2> QED BY <1>1, <1>2, <1>4, <2>1, LoadFrame DEF IInv
<1>10. LastInv'
  BY <1>1, <1>2, LastFrame DEF IInv
<1> QED BY <1>2, <1>7, <1>8, <1>9, <1>10 DEF IInv, Serial

----------------------------------------------------------------------------
LEMMA NextInv == ASSUME IInv, Contract = Clauses, [Next]_vars PROVE IInv'
<1>1. ASSUME NEW t \in Threads, Begin(t) PROVE IInv'
  BY <1>1, LookupInv, SetValueInv, LoadFromYamlInv, VisitInv DEF Begin
<1>2. ASSUME NEW t \in Threads, Continue(t) PROVE IInv'
  BY <1>2, LoadFindInv, LoadApplyInv, LoadEndInv, VisitInv DEF Continue
<1>3. CASE UNCHANGED vars
  <2>1. RegistryInv' /\ Registered' = Registered /\ Created' = Created
    BY <1>3, RegistryFrame DEF IInv, vars
  <2>2. TypeOK' /\ Serial'
    BY <1>3, <2>1 DEF vars, IInv, TypeOK, Serial, Loading
  <2>3. \A u \in Threads : LoadInv(u)'
    BY <1>3, <2>1, LoadFrame DEF IInv, vars
  <2>4. LastInv'
    BY <1>3, <2>1, LastFrame DEF IInv, vars
  <2> QED BY <2>1, <2>2, <2>3, <2>4 DEF IInv
<1> QED BY <1>1, <1>2, <1>3 DEF Next

(* The inductive invariant holds throughout. *)
THEOREM Invariant == ASSUME Contract = Clauses PROVE Spec => []IInv
BY InitInv, NextInv, PTL DEF Spec

(* Lookup, fromString and setValue keep a variable's value among the values of
   its type, whatever a document holds. *)
THEOREM TypeCorrect == ASSUME Contract = Clauses PROVE Spec => []TypeOK
<1>1. IInv => TypeOK
  BY DEF IInv
<1> QED BY <1>1, Invariant, PTL

(* Every handle that Lookup ever gave out is the one it gives out now. *)
THEOREM HandlesStay == ASSUME Contract = Clauses PROVE Spec => []HandleIsRegistered
<1>1. IInv => HandleIsRegistered
  BY DEF IInv, RegistryInv
<1> QED BY <1>1, Invariant, PTL

(* LoadFromYaml leaves no variable behind: each that was registered when it
   began has the value the document gives it. *)
THEOREM LoadsTakeEffect == ASSUME Contract = Clauses PROVE Spec => []LoadTakesEffect
<1>1. IInv => LoadTakesEffect
  <2>1. SUFFICES ASSUME IInv, NEW n \in last.before,
                        NEW v \in Values[type[m_datas[n]]],
                        Says(last.doc, n, type[m_datas[n]], v)
                 PROVE  m_val[m_datas[n]] = v
    BY DEF LoadTakesEffect
  <2>2. n \in Registered /\ Effect(last.doc, {}, n, m_val[m_datas[n]])
    BY <2>1 DEF IInv, LastInv
  <2>3. type[m_datas[n]] = TypeOf[n]
    BY <2>1, <2>2 DEF IInv, RegistryInv
  <2> QED BY <2>1, <2>2, <2>3, EffectEnds
<1> QED BY <1>1, Invariant, PTL
----------------------------------------------------------------------------
(* The conversions: what a cast writes, the opposite cast reads, as far as *)
(* YAML gives the texts of the elements back.                              *)

(* A number is stable, so that a container of numbers is always read back. *)
LEMMA NumbersStable ==
  ASSUME NEW i \in DOMAIN IntText
  PROVE  Stable("int", i)
<1>1. To("int", i) = IntText[i] /\ \A text : From("int", text) = IntFrom(text)
  BY DEF To, From, IntTo
<1>2. /\ i # Throws /\ IntText[i] \in DOMAIN IntOf /\ IntOf[IntText[i]] = i
      /\ Load(IntText[i]) # Throws /\ Emit(Load(IntText[i])) = IntText[i]
  BY LexicalCastAssumption
<1> QED BY <1>1, <1>2 DEF Stable, Loaded, IntFrom

(* What a cast reads of the node of a list. *)
LEMMA ItemsReload ==
  ASSUME NEW n \in Nat, NEW items, DOMAIN items = 1..n,
         items = [k \in 1..n |-> items[k]], RoundTrips(Pushed(items))
  PROVE  /\ Load(Emit(Pushed(items))) # Throws
         /\ ItemTexts(Load(Emit(Pushed(items)))) = [k \in 1..n |-> Emit(items[k])]
<1>1. Load(Emit(Pushed(items))) = Pushed(items) /\ Pushed(items) # Throws
  BY DEF RoundTrips
<1>2. CASE n = 0
  <2>1. items = <<>>
    BY <1>2
  <2>2. Pushed(items) = NullNode
    BY <2>1 DEF Pushed
  <2>3. ItemTexts(NullNode) = <<>>
    BY DEF ItemTexts, NullNode
  <2>4. <<>> = [k \in 1..n |-> Emit(items[k])]
    BY <1>2
  <2> QED BY <1>1, <2>2, <2>3, <2>4
<1>3. CASE n # 0
  <2>1. items # <<>>
    BY <1>3
  <2>2. Pushed(items) = SeqNode(items)
    BY <2>1 DEF Pushed
  <2>3. SeqNode(items).tag = "seq" /\ SeqNode(items).of = items
    BY DEF SeqNode
  <2>4. ItemTexts(SeqNode(items)) = [k \in DOMAIN items |-> Emit(items[k])]
    BY <2>3 DEF ItemTexts
  <2> QED BY <1>1, <2>2, <2>4
<1> QED BY <1>2, <1>3

(* A vector, or a list, of numbers or texts is read back as it was written if
   and only if YAML gives the text of every element back (config.h:60-89).
   Where an element's text does not parse, toString() shows nothing. *)
THEOREM VectorReloads ==
  ASSUME NEW T \in {"int", "string"}, NEW v, NEW n \in Nat, DOMAIN v = 1..n,
         v = [k \in 1..n |-> v[k]], v # Throws,
         \A k \in 1..n : v[k] # Throws /\ (T = "int" => v[k] \in DOMAIN IntText),
         RoundTrips(VectorNode(v, T))
  PROVE  VectorFrom(Shown(VectorTo(v, T)), T) = v <=> \A k \in 1..n : Stable(T, v[k])
<1> DEFINE items == [k \in DOMAIN v |-> Loaded(T, v[k])]
           text == Shown(VectorTo(v, T))
           w == [k \in 1..n |-> From(T, Emit(items[k]))]
<1>1. DOMAIN items = 1..n /\ items = [k \in 1..n |-> items[k]]
  OBVIOUS
<1>2. \A k \in 1..n : items[k] = Loaded(T, v[k])
  OBVIOUS
<1>3. VectorNode(v, T) = Pushed(items)
  BY DEF VectorNode
<1>4. VectorTo(v, T) = IF \E k \in 1..n : items[k] = Throws THEN Throws
                       ELSE Emit(Pushed(items))
  BY <1>2, <1>3 DEF VectorTo
<1> HIDE DEF items
<1>5. CASE \E k \in 1..n : items[k] = Throws
  <2>1. text = EmptyText
    BY <1>4, <1>5 DEF Shown
  <2>2. Load(text) = NullNode /\ NullNode # Throws
    BY <2>1, LexicalCastAssumption DEF RoundTrips
  <2>3. VectorFrom(text, T) = <<>>
    <3>1. ItemTexts(NullNode) = <<>>
      BY DEF ItemTexts, NullNode
    <3> QED BY <2>2, <3>1 DEF VectorFrom
  <2>4. v # <<>>
    BY <1>5
  <2>5. ~(\A k \in 1..n : Stable(T, v[k]))
    BY <1>2, <1>5 DEF Stable
  <2> QED BY <2>3, <2>4, <2>5
<1>6. CASE ~(\E k \in 1..n : items[k] = Throws)
  <2>1. VectorTo(v, T) = Emit(Pushed(items))
    BY <1>4, <1>6
  <2>2. RoundTrips(Pushed(items))
    BY <1>3
  <2>3. /\ Load(Emit(Pushed(items))) # Throws
        /\ ItemTexts(Load(Emit(Pushed(items)))) = [k \in 1..n |-> Emit(items[k])]
    BY <1>1, <2>2, ItemsReload
  <2>4. text = Emit(Pushed(items))
    BY <2>1, <2>2 DEF Shown, RoundTrips
  <2>5. VectorFrom(text, T) = IF \E k \in 1..n : w[k] = Throws THEN Throws ELSE w
    BY <2>3, <2>4 DEF VectorFrom
  <2>6. \A k \in 1..n : w[k] = From(T, Emit(items[k]))
    OBVIOUS
  <2>7. \A k \in 1..n : Stable(T, v[k]) <=> w[k] = v[k]
    BY <1>2, <1>6, <2>6 DEF Stable
  <2>8. w = v <=> \A k \in 1..n : w[k] = v[k]
    OBVIOUS
  <2> HIDE DEF w
  <2>9. ASSUME VectorFrom(text, T) = v PROVE \A k \in 1..n : Stable(T, v[k])
    BY <2>5, <2>7, <2>8, <2>9
  <2>10. ASSUME \A k \in 1..n : Stable(T, v[k]) PROVE VectorFrom(text, T) = v
    BY <2>5, <2>7, <2>8, <2>10
  <2> QED BY <2>9, <2>10
<1> QED BY <1>5, <1>6

(* A finite set, listed. *)
LEMMA Listed ==
  ASSUME NEW S, IsFiniteSet(S), NEW s, s = SetToSeq(S), NEW n, n = Cardinality(S)
  PROVE  /\ n \in Nat /\ s \in [1..n -> S]
         /\ \A i, j \in 1..n : s[i] = s[j] => i = j
         /\ \A x \in S : \E k \in 1..n : s[k] = x
<1>1. n \in Nat /\ ExistsBijection(1..n, S)
  BY FS_CardinalityType
<1>2. PICK f : f \in Bijection(1..n, S)
  BY <1>1 DEF ExistsBijection
<1>3. f \in [1..n -> S] /\ IsInjective(f)
  BY <1>2 DEF Bijection, Injection
<1>4. s \in [1..n -> S] /\ IsInjective(s)
  BY <1>3, Zenon DEF SetToSeq
<1>5. s \in Injection(1..n, S)
  BY <1>4 DEF Injection
<1>6. IsFiniteSet(1..n) /\ Cardinality(1..n) = n
  BY <1>1, FS_Interval
<1>7. s \in Surjection(1..n, S)
  BY <1>5, <1>6, FS_Injection
<1> QED BY <1>1, <1>4, <1>7 DEF IsInjective, Surjection

(* A set is written in some order, and read back as it was if YAML gives the
   text of every element back (config.h:122-150). *)
THEOREM SetReloads ==
  ASSUME NEW T \in {"int", "string"}, NEW S, IsFiniteSet(S), SetToSeq(S) # Throws,
         \A x \in S : Stable(T, x), RoundTrips(VectorNode(SetToSeq(S), T))
  PROVE  SetFrom(Shown(SetTo(S, T)), T) = S
<1>1. PICK s, n : s = SetToSeq(S) /\ n = Cardinality(S)
  OBVIOUS
<1>2. n \in Nat /\ s \in [1..n -> S] /\ \A x \in S : \E k \in 1..n : s[k] = x
  BY <1>1, Listed
<1>3. \A k \in 1..n : Stable(T, s[k])
  BY <1>2
<1>4. DOMAIN s = 1..n /\ s = [k \in 1..n |-> s[k]]
  BY <1>2
<1>5. \A k \in 1..n : s[k] # Throws /\ (T = "int" => s[k] \in DOMAIN IntText)
  BY <1>3 DEF Stable
<1>6. VectorFrom(Shown(VectorTo(s, T)), T) = s
  BY <1>1, <1>2, <1>3, <1>4, <1>5, VectorReloads
<1>7. ToSet(s) = S
  BY <1>2, <1>4 DEF ToSet
<1> QED BY <1>1, <1>6, <1>7 DEF SetFrom, SetTo

(* A map is written key by key, and read back as it was if and only if YAML
   gives the text of every value back (config.h:186-214). *)
THEOREM MapReloads ==
  ASSUME NEW T \in {"int", "string"}, NEW m, IsFiniteSet(DOMAIN m),
         m = [k \in DOMAIN m |-> m[k]], m # Throws,
         \A k \in DOMAIN m : m[k] # Throws /\ (T = "int" => m[k] \in DOMAIN IntText),
         RoundTrips(MapNodeOf(m, T))
  PROVE  MapFrom(Shown(MapTo(m, T)), T) = m <=> \A k \in DOMAIN m : Stable(T, m[k])
<1>1. PICK keys, n : keys = SetToSeq(DOMAIN m) /\ n = Cardinality(DOMAIN m)
  OBVIOUS
<1>2. /\ n \in Nat /\ keys \in [1..n -> DOMAIN m]
      /\ \A i, j \in 1..n : keys[i] = keys[j] => i = j
      /\ \A x \in DOMAIN m : \E k \in 1..n : keys[k] = x
  BY <1>1, Listed
<1> DEFINE pairs == [k \in DOMAIN keys |-> <<keys[k], Loaded(T, m[keys[k]])>>]
           node == MapNodeOf(m, T)
           text == Shown(MapTo(m, T))
           at(key) == Min({k \in DOMAIN pairs : pairs[k][1] = key})
           w == [x \in DOMAIN m |-> From(T, Emit(pairs[at(x)][2]))]
<1>3. /\ DOMAIN keys = 1..n /\ DOMAIN pairs = 1..n
      /\ \A k \in 1..n : pairs[k][1] = keys[k] /\ pairs[k][2] = Loaded(T, m[keys[k]])
  BY <1>2
<1>4. node = IF keys = <<>> THEN NullNode ELSE MapNode(pairs)
  BY <1>1 DEF MapNodeOf
<1>5. keys = <<>> => pairs = <<>>
  OBVIOUS
<1> HIDE DEF pairs
<1>6. \A x \in DOMAIN m : at(x) \in 1..n /\ keys[at(x)] = x
  <2> SUFFICES ASSUME NEW x \in DOMAIN m PROVE at(x) \in 1..n /\ keys[at(x)] = x
    OBVIOUS
  <2>1. {k \in DOMAIN pairs : pairs[k][1] = x} = {k \in 1..n : keys[k] = x}
    BY <1>3
  <2>2. {k \in 1..n : keys[k] = x} # {} /\ {k \in 1..n : keys[k] = x} \in SUBSET Nat
    BY <1>2
  <2>3. Min({k \in 1..n : keys[k] = x}) \in {k \in 1..n : keys[k] = x}
    BY <2>2, LeastPosition
  <2> QED BY <2>1, <2>3
<1>7. {pairs[k][1] : k \in DOMAIN pairs} = DOMAIN m
  <2>1. ASSUME NEW k \in DOMAIN pairs PROVE pairs[k][1] \in DOMAIN m
    BY <1>2, <1>3
  <2>2. ASSUME NEW x \in DOMAIN m PROVE \E k \in DOMAIN pairs : x = pairs[k][1]
    <3>1. PICK k \in 1..n : keys[k] = x
      BY <1>2
    <3> QED BY <1>3, <3>1
  <2>3. PICK D : D = DOMAIN m
    OBVIOUS
  <2>4. \A k \in DOMAIN pairs : pairs[k][1] \in D
    BY <2>1, <2>3, Zenon
  <2>5. \A x \in D : \E k \in DOMAIN pairs : x = pairs[k][1]
    BY <2>2, <2>3, Zenon
  <2>6. {pairs[k][1] : k \in DOMAIN pairs} = D
    BY <2>4, <2>5, Zenon
  <2> QED BY <2>3, <2>6
<1>8. \A x \in DOMAIN m : pairs[at(x)][2] = Loaded(T, m[x])
  BY <1>3, <1>6
<1> HIDE DEF node
<1>9. CASE \E x \in DOMAIN m : Loaded(T, m[x]) = Throws
  <2>1. text = EmptyText
    BY <1>9 DEF MapTo, Shown
  <2>2. Load(text) = NullNode /\ NullNode # Throws
    BY <2>1, LexicalCastAssumption DEF RoundTrips
  <2>3. NullNode.tag = "null" /\ Pairs(NullNode) = <<>>
    BY DEF NullNode, Pairs
  <2>4. DOMAIN MapFrom(text, T) = {}
    BY <2>2, <2>3 DEF MapFrom
  <2>5. DOMAIN m # {}
    BY <1>9
  <2>6. ~(\A k \in DOMAIN m : Stable(T, m[k]))
    BY <1>9 DEF Stable
  <2> QED BY <2>4, <2>5, <2>6
<1>10. CASE ~(\E x \in DOMAIN m : Loaded(T, m[x]) = Throws)
  <2>1. text = Emit(node) /\ Load(text) = node /\ node # Throws
    BY <1>10 DEF MapTo, Shown, RoundTrips, node
  <2>2. /\ ~(node.tag = "seq" /\ node.of # <<>>)
        /\ Pairs(node) = pairs
    <3>1. NullNode.tag = "null" /\ MapNode(pairs).tag = "map" /\ MapNode(pairs).of = pairs
      BY DEF NullNode, MapNode
    <3> QED BY <1>4, <1>5, <3>1 DEF Pairs
  <2>3. MapFrom(text, T) =
          IF \E k \in DOMAIN pairs : From(T, Emit(pairs[k][2])) = Throws THEN Throws
          ELSE [x \in {pairs[k][1] : k \in DOMAIN pairs} |->
                  From(T, Emit(pairs[at(x)][2]))]
    BY <2>1, <2>2 DEF MapFrom
  <2> HIDE DEF at
  <2>4. MapFrom(text, T) =
          IF \E k \in DOMAIN pairs : From(T, Emit(pairs[k][2])) = Throws THEN Throws
          ELSE w
    BY <1>7, <2>3
  <2>5. \A x \in DOMAIN m : w[x] = From(T, Emit(Loaded(T, m[x])))
    BY <1>8
  <2>6. \A x \in DOMAIN m : Stable(T, m[x]) <=> w[x] = m[x]
    BY <1>10, <2>5 DEF Stable
  <2>7. (\A x \in DOMAIN m : w[x] = m[x]) <=> w = m
    OBVIOUS
  <2>8. (\A x \in DOMAIN m : w[x] # Throws)
          => \A k \in DOMAIN pairs : From(T, Emit(pairs[k][2])) # Throws
    <3>1. \A k \in 1..n : keys[k] \in DOMAIN m /\ pairs[k][2] = Loaded(T, m[keys[k]])
      BY <1>2, <1>3
    <3> QED BY <1>3, <2>5, <3>1
  <2> HIDE DEF w
  <2>9. ASSUME MapFrom(text, T) = m PROVE \A x \in DOMAIN m : Stable(T, m[x])
    BY <2>4, <2>6, <2>7, <2>9
  <2>10. ASSUME \A x \in DOMAIN m : Stable(T, m[x]) PROVE MapFrom(text, T) = m
    BY <2>4, <2>6, <2>7, <2>8, <2>10
  <2> QED BY <2>9, <2>10
<1> QED BY <1>9, <1>10

(* Every cast. *)
LEMMA CastReloads ==
  ASSUME NEW cast \in {"scalar", "vector", "set", "map"} \X {"int", "string"},
         NEW x, Plain(cast, x), x # Throws
  PROVE  CastFrom(cast, Shown(CastTo(cast, x))) = x
<1>1. PICK c, T : c = cast[1] /\ T = cast[2]
  OBVIOUS
<1>2. T \in {"int", "string"} /\ c \in {"scalar", "vector", "set", "map"}
  BY <1>1
<1>3. CASE c = "scalar"
  <2>1. CastTo(cast, x) = To(T, x) /\ \A s : CastFrom(cast, s) = From(T, s)
    BY <1>1, <1>3 DEF CastTo, CastFrom
  <2>2. (T = "int" => x \in DOMAIN IntText) /\ x # Throws
    BY <1>1, <1>3 DEF Plain
  <2>3. CASE T = "int"
    <3>1. /\ To(T, x) = IntText[x] /\ \A s : From(T, s) = IntFrom(s)
      BY <2>3 DEF To, From, IntTo
    <3>2. /\ IntText[x] \in DOMAIN IntOf /\ IntOf[IntText[x]] = x
          /\ IntText[x] # Throws
      BY <2>2, <2>3, LexicalCastAssumption
    <3> QED BY <2>1, <3>1, <3>2 DEF Shown, IntFrom
  <2>4. CASE T = "string"
    BY <2>1, <2>2, <2>4 DEF To, From, StringTo, StringFrom, Shown
  <2> QED BY <1>2, <2>3, <2>4
<1>4. CASE c = "vector"
  <2>1. CastTo(cast, x) = VectorTo(x, T) /\ \A s : CastFrom(cast, s) = VectorFrom(s, T)
    BY <1>1, <1>4 DEF CastTo, CastFrom
  <2>2. /\ x \in Seq(Range(x)) /\ \A k \in DOMAIN x : Stable(T, x[k])
        /\ RoundTrips(VectorNode(x, T)) /\ x # Throws
    BY <1>1, <1>4 DEF Plain
  <2>3. DOMAIN x = 1..Len(x) /\ Len(x) \in Nat /\ x = [k \in 1..Len(x) |-> x[k]]
    BY <2>2
  <2>4. RoundTrips(VectorNode(x, T)) /\ x # Throws
    BY <2>2
  <2>5. PICK n \in Nat : DOMAIN x = 1..n /\ x = [k \in 1..n |-> x[k]]
    BY <2>3
  <2>6. /\ \A k \in 1..n : Stable(T, x[k])
        /\ \A k \in 1..n : x[k] # Throws /\ (T = "int" => x[k] \in DOMAIN IntText)
    BY <2>2, <2>5 DEF Stable
  <2>7. VectorFrom(Shown(VectorTo(x, T)), T) = x
    BY <1>2, <2>4, <2>5, <2>6, VectorReloads
  <2> QED BY <2>1, <2>7
<1>5. CASE c = "set"
  <2>1. CastTo(cast, x) = SetTo(x, T) /\ \A s : CastFrom(cast, s) = SetFrom(s, T)
    BY <1>1, <1>5 DEF CastTo, CastFrom
  <2>2. /\ IsFiniteSet(x) /\ SetToSeq(x) # Throws
        /\ \A e \in x : Stable(T, e)
        /\ RoundTrips(VectorNode(SetToSeq(x), T))
    BY <1>1, <1>5 DEF Plain
  <2> QED BY <1>2, <2>1, <2>2, SetReloads
<1>6. CASE c = "map"
  <2>1. CastTo(cast, x) = MapTo(x, T) /\ \A s : CastFrom(cast, s) = MapFrom(s, T)
    BY <1>1, <1>6 DEF CastTo, CastFrom
  <2>2. /\ IsFiniteSet(DOMAIN x) /\ x = [k \in DOMAIN x |-> x[k]]
        /\ \A k \in DOMAIN x : Stable(T, x[k])
        /\ RoundTrips(MapNodeOf(x, T))
    BY <1>1, <1>6 DEF Plain
  <2>3. \A k \in DOMAIN x : x[k] # Throws /\ (T = "int" => x[k] \in DOMAIN IntText)
    BY <2>2 DEF Stable
  <2>4. MapFrom(Shown(MapTo(x, T)), T) = x
    BY <1>2, <2>2, <2>3, MapReloads
  <2> QED BY <2>1, <2>4
<1> QED BY <1>2, <1>3, <1>4, <1>5, <1>6

(* No variable ever holds a fragile value, and no load under way brings one. *)
NoFragile ==
  /\ \A o \in Created : m_val[o] \notin Fragile
  /\ \A t \in Threads : Loading(t) => PlainDoc(doc[t])

LEMMA NextNoFragile ==
  ASSUME IInv, NoFragile, Contract = Clauses, [Next]_vars
  PROVE  NoFragile'
<1>0. TypeOK
  BY DEF IInv
<1>1. ASSUME UNCHANGED <<type, m_val>>,
             \A t \in Threads : Loading(t)' => PlainDoc(doc'[t])
      PROVE  NoFragile'
  BY <1>1 DEF NoFragile, Created
<1>2. ASSUME UNCHANGED <<pc, doc>> \/ \E t \in Threads : LoadApply(t)
      PROVE  \A t \in Threads : Loading(t)' => PlainDoc(doc'[t])
  <2>1. \A t \in Threads : (Loading(t)' => Loading(t)) /\ doc'[t] = doc[t]
    <3>1. ASSUME NEW u \in Threads, LoadApply(u), NEW t \in Threads
          PROVE  (Loading(t)' => Loading(t)) /\ doc'[t] = doc[t]
      BY <1>0, <3>1 DEF LoadApply, Loading, TypeOK
    <3> QED BY <1>2, <3>1 DEF Loading
  <2> QED BY <2>1 DEF NoFragile
<1>3. ASSUME NEW t \in Threads, NEW n \in Names, NEW ty \in Types, NEW o \in Objs,
             Lookup(t, n, ty, o)
      PROVE  NoFragile'
  <2>1. /\ type' = [type EXCEPT ![o] = ty]
        /\ m_val' = [m_val EXCEPT ![o] = Default[ty]]
        /\ UNCHANGED <<pc, doc>>
    BY <1>3 DEF Lookup
  <2>2. Default[ty] \notin Fragile
    BY CastAssumption
  <2>3. ASSUME NEW p \in Created' PROVE m_val'[p] \notin Fragile
    <3>1. CASE p = o
      BY <1>0, <2>1, <2>2, <3>1 DEF TypeOK
    <3>2. CASE p # o
      BY <1>0, <2>1, <3>2 DEF TypeOK, NoFragile, Created
    <3> QED BY <3>1, <3>2
  <2> QED BY <1>2, <2>1, <2>3 DEF NoFragile
<1>4. ASSUME NEW t \in Threads, NEW o \in Created, NEW v \in Values[type[o]],
             SetValue(t, o, v)
      PROVE  NoFragile'
  <2>1. /\ m_val' = [m_val EXCEPT ![o] = v] /\ type' = type /\ v \notin Fragile
        /\ UNCHANGED <<pc, doc>>
    BY <1>4 DEF SetValue, Assign, Demand, Clauses
  <2>2. \A p \in Created' : m_val'[p] \notin Fragile
    BY <1>0, <2>1 DEF TypeOK, NoFragile, Created
  <2> QED BY <1>2, <2>1, <2>2 DEF NoFragile
<1>5. ASSUME NEW t \in Threads, NEW d \in Docs, LoadFromYaml(t, d) PROVE NoFragile'
  <2>1. /\ PlainDoc(d) /\ doc' = [doc EXCEPT ![t] = d]
        /\ pc' = [pc EXCEPT ![t] = "find"] /\ UNCHANGED <<type, m_val>>
    BY <1>5 DEF LoadFromYaml, Demand, Clauses
  <2>2. ASSUME NEW u \in Threads, Loading(u)' PROVE PlainDoc(doc'[u])
    <3>1. CASE u = t
      BY <1>0, <2>1, <3>1 DEF TypeOK
    <3>2. CASE u # t
      BY <1>0, <2>1, <2>2, <3>2 DEF TypeOK, Loading, NoFragile
    <3> QED BY <3>1, <3>2
  <2> QED BY <1>1, <2>1, <2>2
<1>6. ASSUME NEW t \in Threads, LoadApply(t) PROVE NoFragile'
  <2> DEFINE v == Parse(type[var[t]], Entry(t)[2])
  <2>1. /\ pc[t] = "apply" /\ type' = type
        /\ m_val' = IF v = Null THEN m_val ELSE [m_val EXCEPT ![var[t]] = v]
    BY <1>6 DEF LoadApply, FromString, Assign, Demand, Clauses
  <2>2. Loading(t) /\ LoadInv(t) /\ PlainDoc(doc[t])
    BY <2>1 DEF Loading, IInv, NoFragile
  <2>3. todo[t] # {} /\ Entry(t)[1] \in Registered /\ var[t] = m_datas[Entry(t)[1]]
    BY <2>1, <2>2 DEF LoadInv
  <2>4. /\ Min(todo[t]) \in DOMAIN doc[t] /\ Entry(t) = doc[t][Min(todo[t])]
        /\ Entry(t)[1] \in Names
    BY <2>2, <2>3, NextEntry
  <2>5. type[var[t]] = TypeOf[Entry(t)[1]]
    BY <2>3 DEF IInv, RegistryInv
  <2>6. v \notin Fragile
    BY <2>2, <2>4, <2>5 DEF PlainDoc
  <2> HIDE DEF v
  <2>7. \A p \in Created' : m_val'[p] \notin Fragile
    BY <1>0, <2>1, <2>6 DEF TypeOK, NoFragile, Created
  <2> QED BY <1>2, <1>6, <2>7 DEF NoFragile
<1>7. ASSUME NEW t \in Threads,
             \/ Visit(t)
             \/ LoadFind(t)
             \/ LoadEnd(t)
             \/ \E n \in Names, registers \in BOOLEAN : VisitNext(t, n, registers)
             \/ VisitEnd(t)
      PROVE  NoFragile'
  <2>1. UNCHANGED <<type, m_val>>
    BY <1>7 DEF Visit, LoadFind, LoadEnd, VisitNext, VisitEnd
  <2>2. \A u \in Threads : (Loading(u)' => Loading(u)) /\ (u # t => doc'[u] = doc[u])
    BY <1>0, <1>7 DEF Visit, LoadFind, LoadEnd, VisitNext, VisitEnd, Loading, TypeOK
  <2>3. Loading(t)' => doc' = doc
    BY <1>0, <1>7 DEF Visit, LoadFind, LoadEnd, VisitNext, VisitEnd, Loading, TypeOK
  <2> QED BY <1>1, <2>1, <2>2, <2>3 DEF NoFragile
<1>8. CASE Next
  BY <1>3, <1>4, <1>5, <1>6, <1>7, <1>8 DEF Next, Begin, Continue
<1>9. CASE UNCHANGED vars
  BY <1>1, <1>2, <1>9 DEF vars
<1> QED BY <1>8, <1>9

(* What toString() shows of any variable, a number, a text or a container, is
   read by fromString() as the value the variable has (config.h:49-299), as
   long as nobody puts a text into a container that YAML does not give back. *)
THEOREM TextsReload == ASSUME Contract = Clauses PROVE Spec => []TextReloads
<1>1. Init => NoFragile
  BY DEF Init, NoFragile, Created, Loading
<1>2. IInv /\ NoFragile /\ [Next]_vars => NoFragile'
  BY NextNoFragile
<1>3. IInv /\ NoFragile => TextReloads
  <2>1. SUFFICES ASSUME IInv, NoFragile, NEW o \in Created
                 PROVE  Parse(type[o], Text(type[o], m_val[o])) = m_val[o]
    BY DEF TextReloads
  <2>2. PICK ty, v : ty = type[o] /\ v = m_val[o]
    OBVIOUS
  <2>3. ty \in Types /\ v \in Values[ty] /\ v \notin Fragile
    BY <2>1, <2>2 DEF IInv, TypeOK, NoFragile, Created
  <2>4. /\ CastOf[ty] \in {"scalar", "vector", "set", "map"} \X {"int", "string"}
        /\ v = <<ty, v[2]>> /\ Text(ty, v) = Shown(CastTo(CastOf[ty], v[2]))
        /\ Plain(CastOf[ty], v[2]) /\ v[2] # Throws
        /\ Parse(ty, Text(ty, v)) = Typed(ty, CastFrom(CastOf[ty], Text(ty, v)))
    BY <2>3, CastAssumption
  <2>5. CastFrom(CastOf[ty], Text(ty, v)) = v[2]
    BY <2>4, CastReloads
  <2> QED BY <2>2, <2>4, <2>5 DEF Typed
<1> QED BY <1>1, <1>2, <1>3, Invariant, PTL DEF Spec

=============================================================================
