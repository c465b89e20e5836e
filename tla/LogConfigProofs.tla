-------------------------- MODULE LogConfigProofs ---------------------------
(***************************************************************************)
(* Under the contract the loggers follow the value of `logs', events are   *)
(* lost for known reasons only, and what is dumped loads as it was, for    *)
(* any threads, names and documents.  Applied speaks of the time between   *)
(* loads; the invariant speaks of a load under way as well: the names the  *)
(* listener has visited are as the new value says, those it has not are as *)
(* the load found them, and the one it is at is built up to the next       *)
(* appender.                                                               *)
(***************************************************************************)
EXTENDS LogConfig, FiniteSetTheorems, WellFoundedInduction, TLAPS

FirstLoop == {"new", "format", "clear", "add"}
SecondLoop == {"gone", "assign"}

(* A name is defined once in a value. *)
OneEach(v) == \A d, e \in v : d.name = e.name => d = e

(* A logger that no value names any more, or never did. *)
Silent(n) == m_level[n] = Removed /\ m_appenders[n] = <<>>
Settled(n) == Untouched(n) \/ Silent(n)

(* The logger has the formatter that definition d gives it, if it is one. *)
Formatted(d) ==
  d.formatter \in ValidPatterns => m_formatter[d.name] = d.formatter

(* The logger has the first k appenders of d. *)
Built(d, k) ==
  /\ Len(m_appenders[d.name]) = k
  /\ \A i \in 1..k : m_appenders[d.name][i] =
                       MakeAppender(d.appenders[i], m_formatter[d.name])

(* The definition the listener is at: its logger exists and has its level,
   then its formatter, then its appenders one by one. *)
AtDefine(t, d) ==
  /\ d.name \in made /\ m_level[d.name] = d.level
  /\ pc[t] \in {"clear", "add"} => Formatted(d)
  /\ pc[t] = "add" => /\ idx[t] \in 1..(Len(d.appenders) + 1)
                      /\ Built(d, idx[t] - 1)

(* What the contract says of the value while it is being set. *)
ValueInv(t) ==
  /\ OneEach(new[t])
  /\ new[t] \cap m_val = {}

FirstInv(t) ==
  /\ todo[t] \subseteq NamesOf(new[t])
  /\ cur[t] \notin todo[t]
  /\ IF pc[t] = "new" THEN cur[t] = None ELSE cur[t] \in NamesOf(new[t])
  /\ \A d \in new[t] :
       /\ d.name = cur[t] => AtDefine(t, d)
       /\ d.name \notin todo[t] \cup {cur[t]} => Configured(d)

SecondInv(t) ==
  /\ cur[t] = None
  /\ todo[t] \subseteq NamesOf(m_val) \ NamesOf(new[t])
  /\ pc[t] = "assign" => todo[t] = {}
  /\ \A d \in new[t] : Configured(d)
  /\ \A n \in (NamesOf(m_val) \ NamesOf(new[t])) \ todo[t] : Silent(n)

LoadInv(t) ==
  /\ Loading(t) =>
       /\ ValueInv(t)
       /\ \A n \in made \ (NamesOf(m_val) \cup NamesOf(new[t])) : Settled(n)
  /\ pc[t] \in FirstLoop => FirstInv(t)
  /\ pc[t] \in SecondLoop => SecondInv(t)

(* Between loads. *)
AppliedNow ==
  /\ \A d \in m_val : Configured(d)
  /\ \A n \in made \ NamesOf(m_val) : Settled(n)

Serial == \A t, u \in Threads : Loading(t) /\ Loading(u) => t = u

(* The value, and the loggers that it names or nobody asked for. *)
MadeInv ==
  /\ OneEach(m_val)
  /\ NamesOf(m_val) \subseteq made
  /\ \A n \in Names \ made : Untouched(n)

IInv ==
  /\ TypeOK
  /\ NothingBad
  /\ Serial
  /\ MadeInv
  /\ \A t \in Threads : LoadInv(t) /\ (pc[t] = "idle" => cur[t] = None)
  /\ (\A t \in Threads : ~Loading(t)) => AppliedNow

(* Every logger but the root knows the root, and one without appenders has a
   reason to be. *)
BareInv ==
  /\ \A n \in made : n # Root => m_root[n] = Root
  /\ \A n \in made : m_appenders[n] = <<>> => MayBeBare(n)
  /\ \A t \in Threads : Logging(t) => cur[t] \in made

----------------------------------------------------------------------------
(* The k-th element of a finite set of numbers.                            *)

LEMMA LeastElement ==
  ASSUME NEW S \in SUBSET Nat, S # {}
  PROVE  \E k \in S : \A j \in S : k <= j
<1> DEFINE R == {ss \in Nat \X Nat : ss[1] < ss[2]}
<1>1. IsWellFoundedOn(R, Nat)
  BY NatLessThanWellFounded DEF OpToRel
<1>2. PICK k \in S : \A j \in S : ~(<<j, k>> \in R)
  BY <1>1, WFMin, Zenon
<1>3. \A j \in S : j < k => <<j, k>> \in R
  OBVIOUS
<1>4. k \in Nat /\ \A j \in S : j \in Nat
  OBVIOUS
<1> HIDE DEF R
<1>5. \A j \in S : ~(j < k)
  BY <1>2, <1>3, Zenon
<1>6. \A j \in S : k <= j
  BY <1>4, <1>5
<1> QED BY <1>6

Below(S, n) == {m \in S : m < n}

(* The next element has one more below it. *)
LEMMA RankNext ==
  ASSUME NEW S \in SUBSET Nat, IsFiniteSet(S), NEW n \in S, NEW q \in S, n < q
  PROVE  /\ IsFiniteSet(Below(S, n)) /\ Cardinality(Below(S, n)) \in Nat
         /\ Cardinality(Below(S, n)) + 1 <= Cardinality(Below(S, q))
         /\ (\A m \in S : n < m => q <= m) =>
              Cardinality(Below(S, q)) = Cardinality(Below(S, n)) + 1
<1>1. /\ IsFiniteSet(Below(S, n)) /\ Cardinality(Below(S, n)) \in Nat
      /\ IsFiniteSet(Below(S, q)) /\ Cardinality(Below(S, q)) \in Nat
  BY FS_Subset, FS_CardinalityType DEF Below
<1>2. n \notin Below(S, n)
  BY DEF Below
<1>3. /\ IsFiniteSet(Below(S, n) \cup {n})
      /\ Cardinality(Below(S, n) \cup {n}) = Cardinality(Below(S, n)) + 1
  BY <1>1, <1>2, FS_AddElement
<1>4. Below(S, n) \cup {n} \subseteq Below(S, q)
  <2>1. n \in Nat /\ q \in Nat /\ \A m \in S : m \in Nat
    OBVIOUS
  <2>2. ASSUME NEW m \in Below(S, n) PROVE m \in Below(S, q)
    <3>1. m \in S /\ m < n
      BY DEF Below
    <3>2. m < q
      BY <2>1, <3>1
    <3> QED BY <3>1, <3>2 DEF Below
  <2>3. n \in Below(S, q)
    BY DEF Below
  <2> QED BY <2>2, <2>3
<1>5. Cardinality(Below(S, n)) + 1 <= Cardinality(Below(S, q))
  BY <1>1, <1>3, <1>4, FS_Subset
<1>6. ASSUME \A m \in S : n < m => q <= m
      PROVE  Cardinality(Below(S, q)) = Cardinality(Below(S, n)) + 1
  <2>1. ASSUME NEW m \in Below(S, q) PROVE m \in Below(S, n) \cup {n}
    BY <1>6 DEF Below
  <2>2. Below(S, q) = Below(S, n) \cup {n}
    BY <1>4, <2>1
  <2> QED BY <1>3, <2>2
<1> QED BY <1>1, <1>5, <1>6

LEMMA RankExists ==
  ASSUME NEW S \in SUBSET Nat, IsFiniteSet(S), NEW k \in 1..Cardinality(S)
  PROVE  \E n \in S : Cardinality(Below(S, n)) = k - 1
<1> DEFINE Missing == {j \in 1..Cardinality(S) :
                         ~\E n \in S : Cardinality(Below(S, n)) = j - 1}
<1>1. Cardinality(S) \in Nat
  BY FS_CardinalityType
<1>2. SUFFICES ASSUME Missing # {} PROVE FALSE
  OBVIOUS
<1>3. PICK j \in Missing : \A i \in Missing : j <= i
  <2>1. Missing \in SUBSET Nat
    BY <1>1
  <2> HIDE DEF Missing
  <2> QED BY <1>2, <2>1, LeastElement
<1>4. j \in 1..Cardinality(S) /\ ~\E n \in S : Cardinality(Below(S, n)) = j - 1
  OBVIOUS
<1>5. CASE j = 1
  <2>1. S # {}
    BY <1>1, <1>4, FS_EmptySet
  <2>2. PICK n \in S : \A m \in S : n <= m
    BY <2>1, LeastElement
  <2>3. Below(S, n) = {}
    <3>1. n \in Nat /\ \A m \in S : m \in Nat
      OBVIOUS
    <3>2. \A m \in S : ~(m < n)
      BY <2>2, <3>1
    <3> QED BY <3>2 DEF Below
  <2>4. Cardinality(Below(S, n)) = 0
    BY <2>3, FS_EmptySet
  <2> QED BY <1>4, <1>5, <2>4
<1>6. CASE j # 1
  <2>1. j - 1 \in 1..Cardinality(S) /\ j - 1 \notin Missing /\ j \in Nat
    BY <1>1, <1>3, <1>4, <1>6
  <2>2. PICK n \in S : Cardinality(Below(S, n)) = j - 1 - 1
    BY <2>1
  <2> DEFINE Above == {m \in S : n < m}
  <2>3. Above # {}
    <3>1. SUFFICES ASSUME Above = {} PROVE FALSE
      OBVIOUS
    <3>2. S = Below(S, n) \cup {n}
      <4>1. n \in Nat /\ \A m \in S : m \in Nat
        OBVIOUS
      <4>2. \A m \in S : ~(n < m)
        BY <3>1
      <4>3. \A m \in S : m < n \/ m = n
        BY <4>1, <4>2
      <4> QED BY <4>3 DEF Below
    <3>3. IsFiniteSet(Below(S, n)) /\ n \notin Below(S, n)
      BY FS_Subset DEF Below
    <3>4. Cardinality(S) = j - 1 - 1 + 1
      BY <2>2, <3>2, <3>3, FS_AddElement
    <3> QED BY <1>1, <1>4, <2>1, <3>4
  <2>4. PICK q \in Above : \A m \in Above : q <= m
    <3>1. Above \in SUBSET Nat
      OBVIOUS
    <3> HIDE DEF Above
    <3> QED BY <2>3, <3>1, LeastElement
  <2>5. q \in S /\ n < q /\ \A m \in S : n < m => q <= m
    BY <2>4
  <2>6. Cardinality(Below(S, q)) = Cardinality(Below(S, n)) + 1
    BY <2>5, RankNext
  <2>7. Cardinality(Below(S, q)) = j - 1
    BY <2>1, <2>2, <2>6
  <2> QED BY <1>4, <2>5, <2>7
<1> QED BY <1>5, <1>6

(* Nth goes through the set, and visits no element twice. *)
LEMMA NthIn ==
  ASSUME NEW S \in SUBSET Nat, IsFiniteSet(S), NEW k \in 1..Cardinality(S)
  PROVE  Nth(S, k) \in S /\ Cardinality(Below(S, Nth(S, k))) = k - 1
<1>1. \E n \in S : Cardinality({m \in S : m < n}) = k - 1
  BY RankExists DEF Below
<1>2. Nth(S, k) \in S /\ Cardinality({m \in S : m < Nth(S, k)}) = k - 1
  BY <1>1, Zenon DEF Nth
<1> QED BY <1>2 DEF Below

LEMMA NthOnce ==
  ASSUME NEW S \in SUBSET Nat, IsFiniteSet(S),
         NEW j \in 1..Cardinality(S), NEW k \in 1..Cardinality(S),
         Nth(S, j) = Nth(S, k)
  PROVE  j = k
<1>1. Cardinality(S) \in Nat /\ j - 1 = k - 1
  BY NthIn, FS_CardinalityType
<1> QED BY <1>1

LEMMA NthIs ==
  ASSUME NEW S \in SUBSET Nat, IsFiniteSet(S), NEW k \in 1..Cardinality(S),
         NEW n \in S, Cardinality(Below(S, n)) = k - 1
  PROVE  Nth(S, k) = n
<1> DEFINE q == Nth(S, k)
<1>1. q \in S /\ Cardinality(Below(S, q)) = k - 1
  BY NthIn
<1> HIDE DEF q
<1>2. k - 1 \in Int /\ Cardinality(S) \in Nat
  BY FS_CardinalityType
<1>3. ~(q < n)
  BY <1>1, <1>2, RankNext
<1>4. ~(n < q)
  BY <1>1, <1>2, RankNext
<1>5. q = n
  BY <1>1, <1>3, <1>4
<1> QED BY <1>5 DEF q

LEMMA NthOnto ==
  ASSUME NEW S \in SUBSET Nat, IsFiniteSet(S), NEW n \in S
  PROVE  \E k \in 1..Cardinality(S) : Nth(S, k) = n
<1>1. Below(S, n) \subseteq S /\ n \notin Below(S, n)
  BY DEF Below
<1>2. /\ IsFiniteSet(Below(S, n)) /\ Cardinality(Below(S, n)) \in Nat
      /\ Cardinality(S) \in Nat
  BY <1>1, FS_Subset, FS_CardinalityType
<1>3. Cardinality(Below(S, n)) < Cardinality(S)
  BY <1>1, <1>2, FS_Subset
<1> DEFINE k == Cardinality(Below(S, n)) + 1
<1>4. k \in 1..Cardinality(S) /\ Cardinality(Below(S, n)) = k - 1
  BY <1>2, <1>3
<1> HIDE DEF k
<1> QED BY <1>4, NthIs

LEMMA NthInterval ==
  ASSUME NEW n \in Nat, NEW k \in 1..n
  PROVE  Nth(1..n, k) = k
<1>1. IsFiniteSet(1..n) /\ Cardinality(1..n) = n
  BY FS_Interval
<1>2. Below(1..n, k) = 1..(k - 1)
  BY DEF Below
<1>3. Cardinality(1..(k - 1)) = k - 1
  BY FS_Interval
<1> QED BY <1>1, <1>2, <1>3, NthIs

(* The loops take the first of the names that are left. *)
LEMMA FirstIn ==
  ASSUME NEW S \in SUBSET Names, S # {}
  PROVE  Nth(S, 1) \in S
<1>1. S \in SUBSET Nat /\ IsFiniteSet(S)
  BY LogConfigAssumption, FS_Subset
<1>2. 1 \in 1..Cardinality(S)
  BY <1>1, FS_CardinalityType, FS_EmptySet
<1> QED BY <1>1, <1>2, NthIn

----------------------------------------------------------------------------
(* What a document says is a value, with one definition for a name.        *)

LEMMA LevelRange ==
  ASSUME NEW s
  PROVE  FromString(s) \in {UNKNOW} \cup Levels
<1> DEFINE Is(i) == s \in {LevelNames[i], LowerNames[i]}
<1> HIDE DEF Is
<1>1. (\E i \in Levels : Is(i)) => (CHOOSE i \in Levels : Is(i)) \in Levels
  BY Zenon
<1>2. FromString(s) = IF \E i \in Levels : Is(i)
                      THEN CHOOSE i \in Levels : Is(i) ELSE UNKNOW
  BY Zenon DEF FromString, Is
<1> QED BY <1>1, <1>2

LEMMA AppenderType ==
  ASSUME NEW a \in RawAppenders, Usable(a), AppenderConverts(a)
  PROVE  AppenderOf(a) \in AppenderDefs
<1> DEFINE f == FormatterOf(a.formatter)
<1>f. f \in Texts
  BY LogConfigAssumption DEF RawAppenders, AppenderConverts, FormatterOf
<1> HIDE DEF f
<1>1. CASE a.type = "FileLogAppender"
  <2>1. a.file \in Texts
    <3>1. a.file # None
      BY <1>1 DEF Usable
    <3> QED BY <1>1, <3>1 DEF RawAppenders, AppenderConverts
  <2>2. AppenderOf(a) = [type |-> 1, level |-> UNKNOW,
                         formatter |-> f, file |-> a.file]
    BY <1>1 DEF AppenderOf, f
  <2> QED BY <1>f, <2>1, <2>2 DEF AppenderDefs
<1>2. CASE a.type # "FileLogAppender"
  <2>1. AppenderOf(a) = [type |-> 2, level |-> UNKNOW,
                         formatter |-> f, file |-> Empty]
    BY <1>2 DEF AppenderOf, f
  <2> QED BY <1>f, <2>1 DEF AppenderDefs
<1> QED BY <1>1, <1>2

Kept(e) == {i \in DOMAIN e.appenders : Usable(e.appenders[i])}

LEMMA KeptType ==
  ASSUME NEW e \in Entries
  PROVE  /\ e.appenders \in Seq(RawAppenders)
         /\ Kept(e) \in SUBSET Nat /\ IsFiniteSet(Kept(e))
         /\ Cardinality(Kept(e)) \in Nat
<1>1. e.appenders \in Seq(RawAppenders)
  BY DEF Entries, RawAppenders
<1>2. Kept(e) \subseteq 1..Len(e.appenders) /\ Len(e.appenders) \in Nat
  BY <1>1 DEF Kept
<1>3. IsFiniteSet(1..Len(e.appenders))
  BY <1>2, FS_Interval
<1>4. Kept(e) \in SUBSET Nat
  BY <1>2
<1>5. IsFiniteSet(Kept(e)) /\ Cardinality(Kept(e)) \in Nat
  BY <1>2, <1>3, FS_Subset, FS_CardinalityType
<1> QED BY <1>1, <1>4, <1>5

LEMMA DefineType ==
  ASSUME NEW e \in Entries, e.name # None, EntryConverts(e)
  PROVE  DefineOf(e) \in Defs /\ DefineOf(e).name = e.name
<1> DEFINE c == Cardinality(Kept(e))
           list == [k \in 1..c |-> AppenderOf(e.appenders[Nth(Kept(e), k)])]
<1>1. DefineOf(e) = [name |-> e.name, level |-> FromString(e.level),
                     formatter |-> FormatterOf(e.formatter), appenders |-> list]
  BY DEF DefineOf, Kept
<1>2. ASSUME NEW k \in 1..c
      PROVE  AppenderOf(e.appenders[Nth(Kept(e), k)]) \in AppenderDefs
  <2>1. Nth(Kept(e), k) \in Kept(e)
    BY KeptType, NthIn
  <2>2. /\ e.appenders[Nth(Kept(e), k)] \in RawAppenders
        /\ Usable(e.appenders[Nth(Kept(e), k)])
        /\ AppenderConverts(e.appenders[Nth(Kept(e), k)])
    <3>1. e.appenders \in Seq(RawAppenders)
      BY KeptType
    <3>2. \A i \in Kept(e) : /\ e.appenders[i] \in RawAppenders
                            /\ Usable(e.appenders[i])
                            /\ AppenderConverts(e.appenders[i])
      BY <3>1 DEF Kept, EntryConverts
    <3> QED BY <2>1, <3>2
  <2> QED BY <2>2, AppenderType
<1>3. c \in Nat
  BY KeptType
<1>4. list \in Seq(AppenderDefs)
  <2> HIDE DEF c
  <2> QED BY <1>2, <1>3
<1>5. e.name \in Names /\ FormatterOf(e.formatter) \in Texts
  BY LogConfigAssumption DEF Entries, EntryConverts, FormatterOf
<1>6. FromString(e.level) \in {UNKNOW} \cup Levels
  BY LevelRange
<1> HIDE DEF list
<1> QED BY <1>1, <1>4, <1>5, <1>6 DEF Defs

LEMMA ParseType ==
  ASSUME NEW doc \in Seq(Entries), Converts(doc)
  PROVE  Parse(doc) \subseteq Defs /\ OneEach(Parse(doc))
<1> DEFINE First == {i \in DOMAIN doc : doc[i].name # None /\
                       \A j \in 1..(i - 1) : doc[j].name # doc[i].name}
<1>1. Parse(doc) = {DefineOf(doc[i]) : i \in First}
  BY DEF Parse
<1>2. \A i \in First : /\ doc[i] \in Entries /\ doc[i].name # None
                        /\ i \in 1..Len(doc) /\ EntryConverts(doc[i])
  BY DEF Converts
<1>3. \A i \in First : DefineOf(doc[i]) \in Defs /\ DefineOf(doc[i]).name = doc[i].name
  BY <1>2, DefineType
<1>4. ASSUME NEW i \in First, NEW j \in First, doc[i].name = doc[j].name
      PROVE  i = j
  <2>1. i \in Nat /\ j \in Nat /\ i >= 1 /\ j >= 1
    BY <1>2
  <2>2. \A k \in 1..(i - 1) : doc[k].name # doc[i].name
    OBVIOUS
  <2>3. \A k \in 1..(j - 1) : doc[k].name # doc[j].name
    OBVIOUS
  <2> HIDE DEF First
  <2>4. ~(j < i)
    BY <1>4, <2>1, <2>2
  <2>5. ~(i < j)
    BY <1>4, <2>1, <2>3
  <2> QED BY <2>1, <2>4, <2>5
<1> HIDE DEF First
<1>5. ASSUME NEW d \in Parse(doc), NEW e \in Parse(doc), d.name = e.name
      PROVE  d = e
  <2>1. PICK i \in First : d = DefineOf(doc[i])
    BY <1>1
  <2>2. PICK j \in First : e = DefineOf(doc[j])
    BY <1>1
  <2> QED BY <1>3, <1>4, <1>5, <2>1, <2>2
<1> QED BY <1>1, <1>3, <1>5 DEF OneEach

(* The definition of a name in a value. *)
LEMMA DefIn ==
  ASSUME NEW v, NEW n \in NamesOf(v)
  PROVE  Def(v, n) \in v /\ Def(v, n).name = n
<1>1. \E d \in v : d.name = n
  BY DEF NamesOf
<1> QED BY <1>1, Zenon DEF Def

LEMMA DefIs ==
  ASSUME NEW v, OneEach(v), NEW d \in v
  PROVE  d.name \in NamesOf(v) /\ Def(v, d.name) = d
<1>1. d.name \in NamesOf(v)
  BY DEF NamesOf
<1>2. Def(v, d.name) \in v /\ Def(v, d.name).name = d.name
  BY <1>1, DefIn
<1> QED BY <1>1, <1>2 DEF OneEach

----------------------------------------------------------------------------
(* What a step leaves of the loggers' state.                               *)

(* Nothing of logger n changes. *)
SameAt(n) ==
  /\ m_level'[n] = m_level[n]
  /\ m_formatter'[n] = m_formatter[n]
  /\ m_appenders'[n] = m_appenders[n]

LEMMA ConfiguredFrame ==
  ASSUME NEW d, made \subseteq made', SameAt(d.name), Configured(d)
  PROVE  Configured(d)'
BY DEF Configured, SameAt

LEMMA SettledFrame ==
  ASSUME NEW n, SameAt(n)
  PROVE  /\ Untouched(n) => Untouched(n)'
         /\ Silent(n) => Silent(n)'
         /\ Settled(n) => Settled(n)'
BY DEF Settled, Silent, Untouched, SameAt

LEMMA AtDefineFrame ==
  ASSUME NEW t, NEW d, made \subseteq made', SameAt(d.name),
         pc'[t] = pc[t], idx'[t] = idx[t], AtDefine(t, d)
  PROVE  AtDefine(t, d)'
BY DEF AtDefine, Formatted, Built, SameAt

(* A thread's part in a load is kept by a step that changes no logger but for
   making some. *)
LEMMA LoadKept ==
  ASSUME NEW u, LoadInv(u), new[u] \subseteq Defs, NamesOf(m_val) \subseteq Names,
         made \subseteq made', \A n \in made' \ made : Untouched(n),
         \A n : SameAt(n), m_val' = m_val, pc'[u] = pc[u], new'[u] = new[u],
         todo'[u] = todo[u], cur'[u] = cur[u], idx'[u] = idx[u]
  PROVE  LoadInv(u)'
<1>1. ValueInv(u) => ValueInv(u)'
  BY DEF ValueInv, OneEach, NamesOf
<1>2. ASSUME Loading(u),
             NEW n \in made' \ (NamesOf(m_val) \cup NamesOf(new[u]))
      PROVE  Settled(n)'
  <2>1. Settled(n)
    <3>1. CASE n \in made
      BY <1>2, <3>1 DEF LoadInv
    <3>2. CASE n \notin made
      BY <3>2 DEF Settled
    <3> QED BY <3>1, <3>2
  <2> QED BY <2>1, SettledFrame
<1>3. /\ Loading(u)' <=> Loading(u)
      /\ NamesOf(m_val)' = NamesOf(m_val) /\ NamesOf(new[u])' = NamesOf(new[u])
  BY DEF Loading, InRound, NamesOf
<1>4. \A d : Configured(d) => Configured(d)'
  BY ConfiguredFrame
<1>5. FirstInv(u) => FirstInv(u)'
  <2>1. \A d : AtDefine(u, d) => AtDefine(u, d)'
    BY AtDefineFrame
  <2> QED BY <1>3, <1>4, <2>1 DEF FirstInv
<1>6. SecondInv(u) => SecondInv(u)'
  <2>1. \A n : Silent(n) => Silent(n)'
    BY SettledFrame
  <2> QED BY <1>3, <1>4, <2>1 DEF SecondInv
<1>7. Loading(u)' => ValueInv(u)' /\
        (\A n \in made \ (NamesOf(m_val) \cup NamesOf(new[u])) : Settled(n))'
  BY <1>1, <1>2, <1>3 DEF LoadInv
<1>8. (pc[u] \in FirstLoop => FirstInv(u))' /\ (pc[u] \in SecondLoop => SecondInv(u))'
  BY <1>5, <1>6 DEF LoadInv, FirstLoop, SecondLoop
<1> QED BY <1>7, <1>8 DEF LoadInv

(* A step of the only thread that loads. *)
LEMMA LoadStep ==
  ASSUME IInv, NEW t \in Threads, TypeOK', bad' = bad,
         \A u \in Threads \ {t} :
           ~Loading(u) /\ pc'[u] = pc[u] /\ cur'[u] = cur[u],
         MadeInv', LoadInv(t)', pc'[t] = "idle" => cur'[t] = None,
         Loading(t)' \/ AppliedNow'
  PROVE  IInv'
<1>1. NothingBad'
  BY DEF IInv, NothingBad
<1>2. \A u \in Threads \ {t} : ~Loading(u)'
  BY DEF Loading, InRound
<1>3. Serial'
  BY <1>2 DEF Serial
<1>4. ASSUME NEW u \in Threads \ {t} PROVE LoadInv(u)'
  BY <1>2 DEF LoadInv, Loading, InRound, FirstLoop, SecondLoop
<1>5. ASSUME NEW u \in Threads PROVE (pc[u] = "idle" => cur[u] = None)'
  BY DEF IInv
<1>6. (\A u \in Threads : ~Loading(u))' => AppliedNow'
  OBVIOUS
<1> QED BY <1>1, <1>3, <1>4, <1>5, <1>6 DEF IInv

(* A step of a thread that does not load, and changes no logger but for making
   some. *)
LEMMA OtherStep ==
  ASSUME IInv, NEW t \in Threads, TypeOK', bad' = bad, made \subseteq made',
         m_level' = m_level, m_formatter' = m_formatter, m_appenders' = m_appenders,
         m_val' = m_val, new' = new, todo' = todo,
         \A u \in Threads \ {t} :
           pc'[u] = pc[u] /\ cur'[u] = cur[u] /\ idx'[u] = idx[u],
         ~Loading(t), ~Loading(t)', pc'[t] = "idle" => cur'[t] = None
  PROVE  IInv'
<1>1. NothingBad'
  BY DEF IInv, NothingBad
<1>2. \A n : SameAt(n)
  BY DEF SameAt
<1>3. \A u \in Threads : Loading(u)' <=> Loading(u)
  BY DEF Loading, InRound
<1>4. Serial'
  BY <1>3 DEF IInv, Serial
<1>5. /\ \A n \in Names \ made : Untouched(n)
      /\ made \in SUBSET Names /\ made' \in SUBSET Names
      /\ NamesOf(m_val) \subseteq made
  BY DEF IInv, MadeInv, TypeOK
<1>6. MadeInv'
  <2>1. OneEach(m_val)' /\ NamesOf(m_val)' = NamesOf(m_val)
    BY DEF IInv, MadeInv, OneEach, NamesOf
  <2>2. \A n \in Names \ made' : Untouched(n)'
    BY <1>2, <1>5, SettledFrame
  <2> QED BY <1>5, <2>1, <2>2 DEF MadeInv
<1>7. ASSUME NEW u \in Threads PROVE LoadInv(u)'
  <2>1. CASE u = t
    BY <2>1 DEF LoadInv, Loading, InRound, FirstLoop, SecondLoop
  <2>2. CASE u # t
    <3>1. LoadInv(u) /\ new[u] \subseteq Defs
      BY DEF IInv, TypeOK
    <3> QED BY <1>2, <1>5, <2>2, <3>1, LoadKept
  <2> QED BY <2>1, <2>2
<1>8. ASSUME NEW u \in Threads PROVE (pc[u] = "idle" => cur[u] = None)'
  BY DEF IInv
<1>9. (\A u \in Threads : ~Loading(u))' => AppliedNow'
  <2>1. SUFFICES ASSUME AppliedNow PROVE AppliedNow'
    BY <1>3 DEF IInv
  <2>2. \A d \in m_val : Configured(d)'
    BY <1>2, <2>1, ConfiguredFrame DEF AppliedNow
  <2>3. \A n \in made' \ NamesOf(m_val) : Settled(n)
    BY <1>5, <2>1 DEF AppliedNow, Settled
  <2>4. \A n \in made' \ NamesOf(m_val) : Settled(n)'
    BY <1>2, <2>3, SettledFrame
  <2>5. NamesOf(m_val)' = NamesOf(m_val)
    BY DEF NamesOf
  <2> QED BY <2>2, <2>4, <2>5 DEF AppliedNow
<1> QED BY <1>1, <1>4, <1>6, <1>7, <1>8, <1>9 DEF IInv

----------------------------------------------------------------------------
(* The steps of a load.                                                    *)

(* What the invariant says of the thread that loads. *)
LEMMA Loader ==
  ASSUME IInv, NEW t \in Threads, Loading(t)
  PROVE  /\ \A u \in Threads \ {t} : ~Loading(u)
         /\ ValueInv(t)
         /\ \A n \in made \ (NamesOf(m_val) \cup NamesOf(new[t])) : Settled(n)
         /\ pc[t] \in FirstLoop => FirstInv(t)
         /\ pc[t] \in SecondLoop => SecondInv(t)
         /\ new[t] \subseteq Defs /\ todo[t] \subseteq Names
         /\ NamesOf(new[t]) \subseteq Names /\ None \notin Names
<1>1. \A u \in Threads \ {t} : ~Loading(u)
  BY DEF IInv, Serial
<1>2. new[t] \subseteq Defs /\ todo[t] \subseteq Names
  BY DEF IInv, TypeOK
<1>3. NamesOf(new[t]) \subseteq Names
  BY <1>2 DEF NamesOf, Defs
<1> QED BY <1>1, <1>2, <1>3, LogConfigAssumption DEF IInv, LoadInv

LEMMA OneMore ==
  ASSUME ops \in 0..MaxOps, ops < MaxOps, ops' = ops + 1
  PROVE  ops' \in 0..MaxOps
BY LogConfigAssumption

LEMMA SetValueInv ==
  ASSUME IInv, Contract = Clauses, NEW t \in Threads, NEW doc \in Docs,
         SetValue(t, doc)
  PROVE  IInv'
<1> DEFINE v == Parse(doc)
<1>1. v \subseteq Defs /\ OneEach(v)
  <2>1. Converts(doc)
    BY DEF SetValue
  <2> QED BY <2>1, ParseType, DocsAssumption
<1>2. /\ pc[t] = "idle" /\ ops < MaxOps /\ v \cap m_val = {}
      /\ \A u \in Threads : ~Loading(u)
      /\ new' = [new EXCEPT ![t] = v] /\ todo' = [todo EXCEPT ![t] = NamesOf(v)]
      /\ ops' = ops + 1 /\ pc' = [pc EXCEPT ![t] = "new"]
      /\ UNCHANGED <<made, m_root, m_level, m_formatter, m_appenders, m_val,
                     lock, cur, idx, bad>>
  BY DEF SetValue, Idle, Goto, Demand, Clauses, loggers
<1> HIDE DEF v
<1>4. NamesOf(v) \subseteq Names /\ None \notin Names
  BY <1>1, LogConfigAssumption DEF NamesOf, Defs
<1>5. TypeOK
  BY DEF IInv
<1>6. /\ new'[t] = v /\ todo'[t] = NamesOf(v) /\ pc'[t] = "new"
      /\ \A u \in Threads \ {t} : pc'[u] = pc[u]
  BY <1>2, <1>5 DEF TypeOK
<1>7. TypeOK'
  <2>1. ops' \in 0..MaxOps
    BY <1>2, <1>5, OneMore DEF TypeOK
  <2>2. pc' \in [Threads -> {"idle", "new", "format", "clear", "add", "gone",
                             "assign", "log", "walk"}]
    BY <1>2, <1>5 DEF TypeOK
  <2>3. new' \in [Threads -> SUBSET Defs] /\ todo' \in [Threads -> SUBSET Names]
    BY <1>1, <1>2, <1>4, <1>5 DEF TypeOK
  <2> QED BY <1>2, <1>5, <2>1, <2>2, <2>3 DEF TypeOK
<1>8. cur'[t] = None
  BY <1>2 DEF IInv
<1>9. AppliedNow
  BY <1>2 DEF IInv
<1>10. MadeInv'
  BY <1>2 DEF IInv, MadeInv, OneEach, NamesOf, Untouched
<1>11. ValueInv(t)'
  BY <1>1, <1>2, <1>6 DEF ValueInv, OneEach
<1>12. \A n \in made' \ (NamesOf(m_val)' \cup NamesOf(new[t])') : Settled(n)'
  BY <1>2, <1>9, SettledFrame DEF AppliedNow, NamesOf, SameAt
<1>13. FirstInv(t)'
  <2>1. \A d \in v : d.name \in NamesOf(v)
    BY DEF NamesOf
  <2>2. NamesOf(new[t])' = NamesOf(v)
    BY <1>6 DEF NamesOf
  <2> QED BY <1>4, <1>6, <1>8, <2>1, <2>2 DEF FirstInv
<1>14. LoadInv(t)' /\ Loading(t)'
  BY <1>6, <1>11, <1>12, <1>13
     DEF LoadInv, FirstLoop, SecondLoop, Loading, InRound
<1> QED BY <1>2, <1>6, <1>7, <1>10, <1>14, LoadStep

LEMMA FindLoggerInv ==
  ASSUME IInv, NEW t \in Threads, FindLogger(t)
  PROVE  IInv'
<1> DEFINE n == Nth(todo[t], 1)
           d == Def(new[t], n)
<1>1. pc[t] = "new" /\ todo[t] # {}
  BY DEF FindLogger, At
<1>2. Loading(t) /\ pc[t] \in FirstLoop /\ pc[t] \notin SecondLoop
  BY <1>1 DEF Loading, InRound, FirstLoop, SecondLoop
<1>3. /\ ValueInv(t) /\ FirstInv(t) /\ TypeOK /\ MadeInv
      /\ new[t] \subseteq Defs /\ todo[t] \subseteq Names
      /\ NamesOf(new[t]) \subseteq Names /\ None \notin Names
  BY <1>2, Loader DEF IInv
<1>4. n \in todo[t] /\ n \in NamesOf(new[t]) /\ n \in Names
  BY <1>1, <1>3, FirstIn DEF FirstInv
<1>5. d \in new[t] /\ d.name = n /\ d \in Defs
  BY <1>3, <1>4, DefIn
<1>6. d \notin m_val
  BY <1>3, <1>5 DEF ValueInv
<1>7. /\ made' = made \cup {n}
      /\ m_root' = IF n \in made THEN m_root ELSE [m_root EXCEPT ![n] = Root]
      /\ m_level' = [m_level EXCEPT ![n] = d.level]
      /\ todo' = [todo EXCEPT ![t] = todo[t] \ {n}]
      /\ cur' = [cur EXCEPT ![t] = n]
      /\ pc' = [pc EXCEPT ![t] = "format"]
      /\ UNCHANGED <<bad, m_formatter, m_appenders, m_val, lock, new, idx, ops>>
  BY <1>6 DEF FindLogger, GetLogger, Goto
<1> HIDE DEF n, d
<1>8. /\ \A m \in Names : m # n => SameAt(m)
      /\ m_level'[n] = d.level /\ pc'[t] = "format" /\ cur'[t] = n
      /\ todo'[t] = todo[t] \ {n} /\ cur[t] = None
      /\ \A u \in Threads \ {t} : pc'[u] = pc[u] /\ cur'[u] = cur[u]
  BY <1>1, <1>3, <1>4, <1>7 DEF TypeOK, SameAt, FirstInv
<1>9. TypeOK'
  <2>1. d.level \in {UNKNOW, Removed} \cup Levels
    BY <1>5 DEF Defs
  <2>2. /\ made' \subseteq Names /\ Root \in made'
        /\ m_root' \in [Names -> {Root, None}]
        /\ m_level' \in [Names -> {UNKNOW, Removed} \cup Levels]
    BY <1>3, <1>4, <1>7, <2>1 DEF TypeOK
  <2>3. /\ pc' \in [Threads -> {"idle", "new", "format", "clear", "add", "gone",
                                "assign", "log", "walk"}]
        /\ todo' \in [Threads -> SUBSET Names]
        /\ cur' \in [Threads -> Names \cup {None}]
    BY <1>3, <1>4, <1>7 DEF TypeOK
  <2> QED BY <1>3, <1>7, <2>2, <2>3 DEF TypeOK
<1>10. NamesOf(m_val)' = NamesOf(m_val) /\ NamesOf(new[t])' = NamesOf(new[t])
  BY <1>7 DEF NamesOf
<1>11. MadeInv'
  <2>1. OneEach(m_val)'
    BY <1>3, <1>7 DEF MadeInv, OneEach
  <2>2. \A m \in Names \ made' : Untouched(m)'
    BY <1>3, <1>7, <1>8, SettledFrame DEF MadeInv
  <2> QED BY <1>3, <1>7, <1>10, <2>1, <2>2 DEF MadeInv
<1>12. ValueInv(t)'
  BY <1>3, <1>7, <1>10 DEF ValueInv, OneEach
<1>13. \A m \in made' \ (NamesOf(m_val)' \cup NamesOf(new[t])') : Settled(m)'
  <2>1. made \subseteq Names
    BY <1>3 DEF TypeOK
  <2> QED BY <1>2, <1>4, <1>7, <1>8, <1>10, <2>1, Loader, SettledFrame
<1>14. ASSUME NEW e \in new[t]
       PROVE  /\ e.name = cur'[t] => AtDefine(t, e)'
              /\ e.name \notin todo'[t] \cup {cur'[t]} => Configured(e)'
  <2>1. e.name \in NamesOf(new[t]) /\ e.name \in Names
    BY <1>3 DEF NamesOf
  <2>4. CASE e.name = n
    <3>1. e = d
      BY <1>3, <1>5, <2>4 DEF ValueInv, OneEach
    <3> QED BY <1>4, <1>7, <1>8, <2>4, <3>1 DEF AtDefine
  <2>5. CASE e.name # n
    <3>1. e.name \notin todo[t] => Configured(e)
      BY <1>3, <1>8, <2>1 DEF FirstInv
    <3>2. Configured(e) => Configured(e)'
      BY <1>7, <1>8, <2>1, <2>5, ConfiguredFrame
    <3> QED BY <1>8, <2>5, <3>1, <3>2
  <2> QED BY <2>4, <2>5
<1>15. FirstInv(t)'
  BY <1>3, <1>4, <1>7, <1>8, <1>10, <1>14 DEF FirstInv
<1>16. LoadInv(t)' /\ Loading(t)'
  BY <1>8, <1>12, <1>13, <1>15
     DEF LoadInv, FirstLoop, SecondLoop, Loading, InRound
<1> QED BY <1>2, <1>7, <1>8, <1>9, <1>11, <1>16, Loader, LoadStep

(* The definition the listener is at. *)
LEMMA Current ==
  ASSUME IInv, NEW t \in Threads, pc[t] \in {"format", "clear", "add"},
         NEW d, d = Def(new[t], cur[t])
  PROVE  /\ Loading(t) /\ pc[t] \in FirstLoop /\ FirstInv(t)
         /\ d \in new[t] /\ d \in Defs /\ d.name = cur[t] /\ cur[t] \in Names
         /\ AtDefine(t, d) /\ cur[t] \in made
         /\ \A e \in new[t] : e.name = cur[t] => e = d
<1>1. Loading(t) /\ pc[t] \in FirstLoop /\ pc[t] # "new"
  BY DEF Loading, InRound, FirstLoop
<1>2. FirstInv(t) /\ ValueInv(t) /\ new[t] \subseteq Defs /\ NamesOf(new[t]) \subseteq Names
  BY <1>1, Loader
<1>3. cur[t] \in NamesOf(new[t])
  BY <1>1, <1>2 DEF FirstInv
<1>4. d \in new[t] /\ d.name = cur[t]
  BY <1>3, DefIn
<1>5. AtDefine(t, d) /\ cur[t] \in made
  BY <1>2, <1>4 DEF FirstInv, AtDefine
<1> QED BY <1>1, <1>2, <1>3, <1>4, <1>5 DEF ValueInv, OneEach

(* A step in which the listener changes nothing but the logger it is at. *)
LEMMA DefineStep ==
  ASSUME IInv, NEW t \in Threads, pc[t] \in {"format", "clear", "add"}, TypeOK',
         UNCHANGED <<made, m_level, m_val, new, todo, cur, bad>>,
         \A m \in Names : m # cur[t] => SameAt(m),
         pc'[t] \in {"clear", "add"}, \A u \in Threads \ {t} : pc'[u] = pc[u],
         \A e \in new[t] : e.name = cur[t] => AtDefine(t, e)'
  PROVE  IInv'
<1>1. /\ Loading(t) /\ pc[t] \in FirstLoop /\ FirstInv(t)
      /\ cur[t] \in Names /\ cur[t] \in made /\ pc[t] # "new"
  BY Current
<1>2. /\ ValueInv(t) /\ TypeOK /\ MadeInv
      /\ new[t] \subseteq Defs /\ NamesOf(new[t]) \subseteq Names
      /\ \A u \in Threads \ {t} : ~Loading(u)
  BY <1>1, Loader DEF IInv
<1>3. NamesOf(m_val)' = NamesOf(m_val) /\ NamesOf(new[t])' = NamesOf(new[t])
  BY DEF NamesOf
<1>4. MadeInv'
  <2>1. OneEach(m_val)'
    BY <1>2 DEF MadeInv, OneEach
  <2>2. \A m \in Names \ made' : Untouched(m)'
    BY <1>1, <1>2, SettledFrame DEF MadeInv
  <2> QED BY <1>2, <1>3, <2>1, <2>2 DEF MadeInv
<1>5. ValueInv(t)'
  BY <1>2, <1>3 DEF ValueInv, OneEach
<1>6. \A m \in made' \ (NamesOf(m_val)' \cup NamesOf(new[t])') : Settled(m)'
  <2>1. made \subseteq Names /\ cur[t] \in NamesOf(new[t])
    BY <1>1, <1>2 DEF TypeOK, FirstInv
  <2> QED BY <1>1, <1>3, <2>1, Loader, SettledFrame
<1>7. ASSUME NEW e \in new[t]
      PROVE  /\ e.name = cur[t] => AtDefine(t, e)'
             /\ e.name \notin todo[t] \cup {cur[t]} => Configured(e)'
  <2>1. e.name \in Names
    BY <1>2 DEF NamesOf
  <2>2. CASE e.name = cur[t]
    BY <1>1, <2>2 DEF FirstInv
  <2>3. CASE e.name # cur[t]
    <3>1. SameAt(e.name)
      BY <2>1, <2>3
    <3>2. Configured(e) => Configured(e)'
      BY <3>1, ConfiguredFrame
    <3> QED BY <1>1, <2>3, <3>2 DEF FirstInv
  <2> QED BY <2>2, <2>3
<1>8. FirstInv(t)'
  BY <1>1, <1>3, <1>7 DEF FirstInv
<1>9. LoadInv(t)' /\ Loading(t)'
  BY <1>5, <1>6, <1>8 DEF LoadInv, FirstLoop, SecondLoop, Loading, InRound
<1> QED BY <1>2, <1>4, <1>9, LoadStep

LEMMA SetFormatterInv ==
  ASSUME IInv, NEW t \in Threads, SetFormatter(t)
  PROVE  IInv'
<1>n. PICK n : n = cur[t]
  OBVIOUS
<1>d. PICK d : d = Def(new[t], n)
  OBVIOUS
<1> DEFINE f == d.formatter
           list == Map(m_appenders[n], LAMBDA a :
                     IF a.has THEN a ELSE [a EXCEPT !.formatter = f])
<1>1. pc[t] = "format"
  BY DEF SetFormatter, At
<1>2. /\ d \in new[t] /\ d \in Defs /\ d.name = n /\ n \in Names
      /\ AtDefine(t, d) /\ \A e \in new[t] : e.name = n => e = d
  BY <1>n, <1>d, <1>1, Current
<1>3. TypeOK
  BY DEF IInv
<1>4. /\ IF f \in ValidPatterns
         THEN /\ m_formatter' = [m_formatter EXCEPT ![n] = f]
              /\ m_appenders' = [m_appenders EXCEPT ![n] = list]
         ELSE UNCHANGED <<m_formatter, m_appenders>>
      /\ pc' = [pc EXCEPT ![t] = "clear"]
      /\ UNCHANGED <<made, m_root, m_level, m_val, lock, new, todo, cur, idx,
                     ops, bad>>
  BY <1>n, <1>d DEF SetFormatter, Goto
<1>5. f \in ValidPatterns => list \in Seq(Appenders)
  <2>1. SUFFICES ASSUME f \in ValidPatterns PROVE list \in Seq(Appenders)
    OBVIOUS
  <2> DEFINE s == m_appenders[n]
             One(a) == IF a.has THEN a ELSE [a EXCEPT !.formatter = f]
  <2>2. s \in Seq(Appenders)
    BY <1>2, <1>3 DEF TypeOK
  <2>3. \A a \in Appenders : One(a) \in Appenders
    BY <2>1 DEF Appenders
  <2>4. list = [i \in DOMAIN s |-> One(s[i])]
    BY DEF Map
  <2> HIDE DEF list, s, One
  <2>5. [i \in DOMAIN s |-> One(s[i])] \in Seq(Appenders)
    BY <2>2, <2>3
  <2> QED BY <2>4, <2>5
<1> HIDE DEF list
<1>6. /\ \A m \in Names : m # n => SameAt(m)
      /\ m_formatter'[n] = IF f \in ValidPatterns THEN f ELSE m_formatter[n]
      /\ pc'[t] = "clear" /\ \A u \in Threads \ {t} : pc'[u] = pc[u]
  BY <1>2, <1>3, <1>4 DEF TypeOK, SameAt
<1>7. TypeOK'
  <2>1. m_formatter' \in [Names -> ValidPatterns] /\ m_appenders' \in [Names -> Seq(Appenders)]
    BY <1>2, <1>3, <1>4, <1>5 DEF TypeOK
  <2>2. pc' \in [Threads -> {"idle", "new", "format", "clear", "add", "gone",
                             "assign", "log", "walk"}]
    BY <1>3, <1>4 DEF TypeOK
  <2> QED BY <1>3, <1>4, <2>1, <2>2 DEF TypeOK
<1>8. AtDefine(t, d)'
  <2>1. d.name \in made /\ m_level[d.name] = d.level
    BY <1>1, <1>2 DEF AtDefine
  <2>2. Formatted(d)'
    BY <1>2, <1>6 DEF Formatted
  <2> QED BY <1>2, <1>4, <1>6, <2>1, <2>2 DEF AtDefine
<1>9. \A e \in new[t] : e.name = cur[t] => AtDefine(t, e)'
  BY <1>n, <1>2, <1>8
<1>10. \A m \in Names : m # cur[t] => SameAt(m)
  BY <1>n, <1>6
<1> QED BY <1>1, <1>4, <1>6, <1>7, <1>9, <1>10, DefineStep

LEMMA ClearAppenderInv ==
  ASSUME IInv, Contract = Clauses, NEW t \in Threads, ClearAppender(t)
  PROVE  IInv'
<1>n. PICK n : n = cur[t]
  OBVIOUS
<1>d. PICK d : d = Def(new[t], n)
  OBVIOUS
<1>1. pc[t] = "clear"
  BY DEF ClearAppender, At
<1>2. /\ d \in new[t] /\ d \in Defs /\ d.name = n /\ n \in Names
      /\ AtDefine(t, d) /\ \A e \in new[t] : e.name = n => e = d
  BY <1>n, <1>d, <1>1, Current
<1>3. TypeOK
  BY DEF IInv
<1>4. /\ m_appenders' = [m_appenders EXCEPT ![n] = <<>>]
      /\ idx' = [idx EXCEPT ![t] = 1]
      /\ pc' = [pc EXCEPT ![t] = "add"]
      /\ UNCHANGED <<made, m_root, m_level, m_formatter, m_val, lock, new, todo,
                     cur, ops, bad>>
  BY <1>n DEF ClearAppender, Clear, Demand, Clauses, Goto
<1>5. /\ \A m \in Names : m # n => SameAt(m)
      /\ m_appenders'[n] = <<>> /\ idx'[t] = 1
      /\ pc'[t] = "add" /\ \A u \in Threads \ {t} : pc'[u] = pc[u]
  BY <1>2, <1>3, <1>4 DEF TypeOK, SameAt
<1>6. TypeOK'
  <2>1. m_appenders' \in [Names -> Seq(Appenders)]
    <3>1. <<>> \in Seq(Appenders)
      OBVIOUS
    <3> QED BY <1>3, <1>4, <3>1 DEF TypeOK
  <2>2. idx' \in [Threads -> Nat]
    BY <1>3, <1>4 DEF TypeOK
  <2>3. pc' \in [Threads -> {"idle", "new", "format", "clear", "add", "gone",
                             "assign", "log", "walk"}]
    BY <1>3, <1>4 DEF TypeOK
  <2> QED BY <1>3, <1>4, <2>1, <2>2, <2>3 DEF TypeOK
<1>7. AtDefine(t, d)'
  <2>1. /\ d.name \in made /\ m_level[d.name] = d.level
        /\ Formatted(d)
    BY <1>1, <1>2 DEF AtDefine
  <2>2. Built(d, 0)'
    BY <1>2, <1>5 DEF Built
  <2>3. 1 \in 1..(Len(d.appenders) + 1)
    BY <1>2 DEF Defs
  <2>4. idx'[t] \in 1..(Len(d.appenders) + 1) /\ idx'[t] - 1 = 0
    BY <1>5, <2>3
  <2> QED BY <1>4, <1>5, <2>1, <2>2, <2>4 DEF AtDefine, Formatted
<1>8. \A e \in new[t] : e.name = cur[t] => AtDefine(t, e)'
  BY <1>n, <1>2, <1>7
<1>9. \A m \in Names : m # cur[t] => SameAt(m)
  BY <1>n, <1>5
<1> QED BY <1>1, <1>4, <1>5, <1>6, <1>8, <1>9, DefineStep

LEMMA AddAppenderInv ==
  ASSUME IInv, NEW t \in Threads, AddAppender(t)
  PROVE  IInv'
<1>n. PICK n : n = cur[t]
  OBVIOUS
<1>d. PICK d : d = Def(new[t], n)
  OBVIOUS
<1>k. PICK k : k = idx[t]
  OBVIOUS
<1> DEFINE a == MakeAppender(d.appenders[k], m_formatter[n])
<1>1. pc[t] = "add" /\ k <= Len(d.appenders)
  BY <1>n, <1>d, <1>k DEF AddAppender, At
<1>2. /\ d \in new[t] /\ d \in Defs /\ d.name = n /\ n \in Names
      /\ AtDefine(t, d) /\ \A e \in new[t] : e.name = n => e = d
  BY <1>n, <1>d, <1>1, Current
<1>3. TypeOK
  BY DEF IInv
<1>4. /\ m_appenders' = [m_appenders EXCEPT ![n] = Append(m_appenders[n], a)]
      /\ idx' = [idx EXCEPT ![t] = k + 1]
      /\ UNCHANGED <<made, m_root, m_level, m_formatter, m_val, lock, pc, new,
                     todo, cur, ops, bad>>
  BY <1>n, <1>d, <1>k DEF AddAppender
<1>5. k \in 1..Len(d.appenders) /\ Built(d, k - 1) /\ Len(d.appenders) \in Nat
  <2>1. k \in 1..(Len(d.appenders) + 1) /\ Built(d, k - 1)
    BY <1>1, <1>2, <1>k DEF AtDefine
  <2>2. Len(d.appenders) \in Nat
    BY <1>2 DEF Defs
  <2> QED BY <1>1, <2>1, <2>2
<1>6. a \in Appenders
  <2>1. d.appenders \in Seq(AppenderDefs)
    BY <1>2 DEF Defs
  <2>2. d.appenders[k] \in AppenderDefs
    BY <1>5, <2>1
  <2>3. m_formatter[n] \in ValidPatterns
    BY <1>2, <1>3 DEF TypeOK
  <2> QED BY <2>2, <2>3, LogConfigAssumption DEF MakeAppender, AppenderDefs, Appenders
<1>7. m_appenders[n] \in Seq(Appenders)
  BY <1>2, <1>3 DEF TypeOK
<1> HIDE DEF a
<1>8. /\ \A m \in Names : m # n => SameAt(m)
      /\ m_appenders'[n] = Append(m_appenders[n], a) /\ idx'[t] = k + 1
  BY <1>2, <1>3, <1>4 DEF TypeOK, SameAt
<1>9. TypeOK'
  <2>1. Append(m_appenders[n], a) \in Seq(Appenders)
    BY <1>6, <1>7
  <2>2. m_appenders' \in [Names -> Seq(Appenders)]
    BY <1>3, <1>4, <2>1 DEF TypeOK
  <2>3. k + 1 \in Nat
    BY <1>5
  <2>4. idx' \in [Threads -> Nat]
    BY <1>3, <1>4, <2>3 DEF TypeOK
  <2> QED BY <1>3, <1>4, <2>2, <2>4 DEF TypeOK
<1>10. Built(d, k)'
  <2>1. /\ Len(m_appenders[n]) = k - 1
        /\ \A i \in 1..(k - 1) : m_appenders[n][i] =
                                   MakeAppender(d.appenders[i], m_formatter[n])
    BY <1>2, <1>5 DEF Built
  <2>2. Len(m_appenders'[n]) = k
    BY <1>5, <1>7, <1>8, <2>1, <1>6
  <2>3. ASSUME NEW i \in 1..k
        PROVE  m_appenders'[n][i] = MakeAppender(d.appenders[i], m_formatter[n])
    <3>1. CASE i = k
      BY <1>5, <1>7, <1>8, <2>1, <1>6, <3>1 DEF a
    <3>2. CASE i # k
      <4>1. i \in 1..(k - 1)
        BY <1>5, <3>2
      <4>2. m_appenders'[n][i] = m_appenders[n][i]
        BY <1>5, <1>7, <1>8, <2>1, <1>6, <4>1
      <4> QED BY <2>1, <4>1, <4>2
    <3> QED BY <3>1, <3>2
  <2> QED BY <1>2, <1>4, <2>2, <2>3 DEF Built
<1>11. AtDefine(t, d)'
  <2>1. /\ d.name \in made /\ m_level[d.name] = d.level
        /\ Formatted(d)
    BY <1>1, <1>2 DEF AtDefine
  <2>2. idx'[t] \in 1..(Len(d.appenders) + 1) /\ idx'[t] - 1 = k
    BY <1>5, <1>8
  <2> QED BY <1>1, <1>4, <1>10, <2>1, <2>2 DEF AtDefine, Formatted
<1>12. \A e \in new[t] : e.name = cur[t] => AtDefine(t, e)'
  BY <1>n, <1>2, <1>11
<1>13. \A m \in Names : m # cur[t] => SameAt(m)
  BY <1>n, <1>8
<1> QED BY <1>1, <1>4, <1>9, <1>12, <1>13, DefineStep

LEMMA BuiltIsConfigured ==
  ASSUME NEW d \in Defs, d.name \in made, m_level[d.name] = d.level,
         Formatted(d),
         m_appenders[d.name] \in Seq(Appenders), Built(d, Len(d.appenders))
  PROVE  Configured(d)
<1> DEFINE list == m_appenders[d.name]
<1>1. Len(list) = Len(d.appenders) /\ DOMAIN list = 1..Len(d.appenders)
  BY DEF Built
<1>2. \A i \in DOMAIN list : list[i] = MakeAppender(d.appenders[i], m_formatter[d.name])
  BY <1>1 DEF Built
<1>3. \A i \in DOMAIN list :
        LET a == d.appenders[i] IN
        /\ <<list[i].type, list[i].file, list[i].level>>
             = <<a.type, a.file, a.level>>
        /\ list[i].has = (a.formatter \in ValidPatterns)
        /\ list[i].formatter = IF list[i].has THEN a.formatter
                               ELSE m_formatter[d.name]
  <2> HIDE DEF list
  <2>1. ASSUME NEW i \in DOMAIN list, NEW a, a = d.appenders[i]
        PROVE  /\ list[i].type = a.type /\ list[i].file = a.file
               /\ list[i].level = a.level
               /\ list[i].has = (a.formatter \in ValidPatterns)
               /\ list[i].formatter = IF list[i].has THEN a.formatter
                                     ELSE m_formatter[d.name]
    <3> DEFINE l == list[i]
               g == m_formatter[d.name]
               in == a.formatter \in ValidPatterns
    <3>1. l = MakeAppender(a, g)
      BY <1>2, <2>1
    <3> HIDE DEF l, g
    <3>2. l.type = a.type /\ l.file = a.file /\ l.level = a.level
      BY <3>1 DEF MakeAppender
    <3>3. l.has = in
      BY <3>1, Zenon DEF MakeAppender
    <3>4. l.formatter = IF in THEN a.formatter ELSE g
      BY <3>1, Zenon DEF MakeAppender
    <3> HIDE DEF in
    <3>5. l.formatter = IF l.has THEN a.formatter ELSE g
      BY <3>3, <3>4, Zenon
    <3> QED BY <3>2, <3>3, <3>5, Zenon DEF l, g, in
  <2> QED BY <2>1, Zenon
<1> QED BY <1>1, <1>3 DEF Configured, Formatted

(* What stays when a step of the loader changes no logger and no value. *)
LEMMA SameLoggers ==
  ASSUME IInv, NEW t \in Threads, Loading(t),
         UNCHANGED <<made, m_level, m_formatter, m_appenders, m_val, new>>
  PROVE  /\ MadeInv' /\ ValueInv(t)'
         /\ \A n \in made' \ (NamesOf(m_val)' \cup NamesOf(new[t])') : Settled(n)'
         /\ \A d : Configured(d) => Configured(d)'
         /\ \A n : Silent(n) => Silent(n)'
         /\ NamesOf(m_val)' = NamesOf(m_val) /\ NamesOf(new[t])' = NamesOf(new[t])
<1>1. NamesOf(m_val)' = NamesOf(m_val) /\ NamesOf(new[t])' = NamesOf(new[t])
  BY DEF NamesOf
<1>2. \A n : SameAt(n)
  BY DEF SameAt
<1>3. MadeInv'
  <2>1. MadeInv
    BY DEF IInv
  <2> QED BY <1>1, <1>2, <2>1, SettledFrame DEF MadeInv, OneEach
<1>4. ValueInv(t)'
  <2>1. ValueInv(t)
    BY Loader
  <2> QED BY <1>1, <2>1 DEF ValueInv, OneEach
<1>5. \A n \in made' \ (NamesOf(m_val)' \cup NamesOf(new[t])') : Settled(n)'
  BY <1>1, <1>2, Loader, SettledFrame
<1> QED BY <1>1, <1>2, <1>3, <1>4, <1>5, ConfiguredFrame, SettledFrame

LEMMA NextDefineInv ==
  ASSUME IInv, NEW t \in Threads, NextDefine(t)
  PROVE  IInv'
<1>n. PICK n : n = cur[t]
  OBVIOUS
<1>d. PICK d : d = Def(new[t], n)
  OBVIOUS
<1>1. pc[t] = "add" /\ idx[t] > Len(d.appenders)
  BY <1>n, <1>d DEF NextDefine, At
<1>2. /\ d \in new[t] /\ d \in Defs /\ d.name = n /\ n \in Names
      /\ AtDefine(t, d) /\ \A e \in new[t] : e.name = n => e = d
      /\ Loading(t) /\ FirstInv(t)
  BY <1>n, <1>d, <1>1, Current
<1>3. TypeOK
  BY DEF IInv
<1>4. /\ cur' = [cur EXCEPT ![t] = None]
      /\ pc' = [pc EXCEPT ![t] = "new"]
      /\ UNCHANGED <<made, m_root, m_level, m_formatter, m_appenders, m_val, lock,
                     new, todo, idx, ops, bad>>
  BY DEF NextDefine, Goto, loggers
<1>5. /\ cur'[t] = None /\ pc'[t] = "new"
      /\ \A u \in Threads \ {t} : pc'[u] = pc[u] /\ cur'[u] = cur[u]
  BY <1>3, <1>4 DEF TypeOK
<1>6. TypeOK'
  <2>1. /\ pc' \in [Threads -> {"idle", "new", "format", "clear", "add", "gone",
                                "assign", "log", "walk"}]
        /\ cur' \in [Threads -> Names \cup {None}]
    BY <1>3, <1>4 DEF TypeOK
  <2> QED BY <1>3, <1>4, <2>1 DEF TypeOK
<1>7. Configured(d)
  <2>1. /\ d.name \in made /\ m_level[d.name] = d.level
        /\ Formatted(d)
        /\ idx[t] \in 1..(Len(d.appenders) + 1) /\ Built(d, idx[t] - 1)
    BY <1>1, <1>2 DEF AtDefine
  <2>2. Len(d.appenders) \in Nat
    BY <1>2 DEF Defs
  <2>3. idx[t] - 1 = Len(d.appenders)
    BY <1>1, <2>1, <2>2
  <2>4. m_appenders[d.name] \in Seq(Appenders)
    BY <1>2, <1>3 DEF TypeOK
  <2> QED BY <1>2, <2>1, <2>3, <2>4, BuiltIsConfigured
<1>8. ASSUME NEW e \in new[t]
      PROVE  /\ e.name # None
             /\ e.name \notin todo[t] => Configured(e)'
  <2>1. e.name \in Names /\ None \notin Names
    BY <1>2, Loader DEF NamesOf
  <2>2. e.name \notin todo[t] => Configured(e)
    BY <1>n, <1>2, <1>7 DEF FirstInv
  <2>3. Configured(e) => Configured(e)'
    BY <1>2, <1>4, SameLoggers
  <2> QED BY <2>1, <2>2, <2>3
<1>9. FirstInv(t)'
  <2>1. NamesOf(new[t])' = NamesOf(new[t]) /\ None \notin todo[t]
    BY <1>2, <1>4, SameLoggers, Loader
  <2>2. todo'[t] = todo[t] /\ new'[t] = new[t] /\ todo[t] \subseteq NamesOf(new[t])
    BY <1>2, <1>4 DEF FirstInv
  <2> QED BY <1>5, <1>8, <2>1, <2>2 DEF FirstInv
<1>10. LoadInv(t)' /\ Loading(t)' /\ MadeInv'
  <2>1. /\ MadeInv' /\ ValueInv(t)'
        /\ \A m \in made' \ (NamesOf(m_val)' \cup NamesOf(new[t])') : Settled(m)'
    BY <1>2, <1>4, SameLoggers
  <2> QED BY <1>5, <1>9, <2>1
          DEF LoadInv, FirstLoop, SecondLoop, Loading, InRound
<1> QED BY <1>2, <1>4, <1>5, <1>6, <1>10, Loader, LoadStep

LEMMA RemoveLoopInv ==
  ASSUME IInv, NEW t \in Threads, RemoveLoop(t)
  PROVE  IInv'
<1>1. pc[t] = "new" /\ todo[t] = {}
  BY DEF RemoveLoop, At
<1>2. Loading(t) /\ pc[t] \in FirstLoop
  BY <1>1 DEF Loading, InRound, FirstLoop
<1>3. TypeOK /\ FirstInv(t) /\ cur[t] = None
  BY <1>1, <1>2, Loader DEF IInv, FirstInv
<1>4. /\ todo' = [todo EXCEPT ![t] = NamesOf(m_val) \ NamesOf(new[t])]
      /\ pc' = [pc EXCEPT ![t] = "gone"]
      /\ UNCHANGED <<made, m_root, m_level, m_formatter, m_appenders, m_val, lock,
                     new, cur, idx, ops, bad>>
  BY DEF RemoveLoop, Goto, loggers
<1>5. /\ todo'[t] = NamesOf(m_val) \ NamesOf(new[t])
      /\ pc'[t] = "gone" /\ \A u \in Threads \ {t} : pc'[u] = pc[u]
  BY <1>3, <1>4 DEF TypeOK
<1>6. TypeOK'
  <2>1. NamesOf(m_val) \subseteq Names
    BY <1>3 DEF IInv, MadeInv, TypeOK
  <2>2. todo' \in [Threads -> SUBSET Names]
    BY <1>3, <1>4, <2>1 DEF TypeOK
  <2>3. pc' \in [Threads -> {"idle", "new", "format", "clear", "add", "gone",
                             "assign", "log", "walk"}]
    BY <1>3, <1>4 DEF TypeOK
  <2> QED BY <1>3, <1>4, <2>2, <2>3 DEF TypeOK
<1>7. \A e \in new[t] : Configured(e)'
  <2>1. ASSUME NEW e \in new[t] PROVE e.name # None
    BY <1>2, Loader DEF NamesOf
  <2>2. \A e \in new[t] : Configured(e)
    BY <1>1, <1>3, <2>1 DEF FirstInv
  <2> QED BY <1>2, <1>4, <2>2, SameLoggers
<1>8. SecondInv(t)'
  <2>1. NamesOf(m_val)' = NamesOf(m_val) /\ NamesOf(new[t])' = NamesOf(new[t])
    BY <1>2, <1>4, SameLoggers
  <2> QED BY <1>3, <1>4, <1>5, <1>7, <2>1 DEF SecondInv
<1>9. LoadInv(t)' /\ Loading(t)' /\ MadeInv'
  <2>1. /\ MadeInv' /\ ValueInv(t)'
        /\ \A m \in made' \ (NamesOf(m_val)' \cup NamesOf(new[t])') : Settled(m)'
    BY <1>2, <1>4, SameLoggers
  <2> QED BY <1>5, <1>8, <2>1
          DEF LoadInv, FirstLoop, SecondLoop, Loading, InRound
<1> QED BY <1>2, <1>4, <1>5, <1>6, <1>9, Loader, LoadStep

LEMMA RemoveLoggerInv ==
  ASSUME IInv, Contract = Clauses, NEW t \in Threads, RemoveLogger(t)
  PROVE  IInv'
<1>n. PICK n : n = Nth(todo[t], 1)
  OBVIOUS
<1>1. pc[t] = "gone" /\ todo[t] # {}
  BY DEF RemoveLogger, At
<1>2. Loading(t) /\ pc[t] \in SecondLoop
  BY <1>1 DEF Loading, InRound, SecondLoop
<1>3. TypeOK /\ SecondInv(t) /\ MadeInv /\ ValueInv(t)
  BY <1>2, Loader DEF IInv
<1>4. /\ n \in todo[t] /\ n \in Names /\ n \in NamesOf(m_val) /\ n \in made
      /\ n \notin NamesOf(new[t])
  <2>1. n \in todo[t] /\ n \in Names
    BY <1>n, <1>1, <1>2, Loader, FirstIn
  <2> QED BY <1>3, <2>1 DEF SecondInv, MadeInv
<1>5. /\ m_level' = [m_level EXCEPT ![n] = Removed]
      /\ m_appenders' = [m_appenders EXCEPT ![n] = <<>>]
      /\ todo' = [todo EXCEPT ![t] = todo[t] \ {n}]
      /\ UNCHANGED <<made, m_root, m_formatter, m_val, lock, pc, new, cur, idx,
                     ops, bad>>
  BY <1>n DEF RemoveLogger, Clear, Demand, Clauses
<1>6. /\ \A m \in Names : m # n => SameAt(m)
      /\ Silent(n)' /\ todo'[t] = todo[t] \ {n}
  BY <1>3, <1>4, <1>5 DEF TypeOK, SameAt, Silent
<1>7. TypeOK'
  <2>1. m_level' \in [Names -> {UNKNOW, Removed} \cup Levels]
    BY <1>3, <1>5 DEF TypeOK
  <2>2. <<>> \in Seq(Appenders)
    OBVIOUS
  <2>3. m_appenders' \in [Names -> Seq(Appenders)]
    BY <1>3, <1>5, <2>2 DEF TypeOK
  <2>4. todo' \in [Threads -> SUBSET Names]
    BY <1>3, <1>5 DEF TypeOK
  <2> QED BY <1>3, <1>5, <2>1, <2>3, <2>4 DEF TypeOK
<1>8. NamesOf(m_val)' = NamesOf(m_val) /\ NamesOf(new[t])' = NamesOf(new[t])
  BY <1>5 DEF NamesOf
<1>9. MadeInv'
  <2>1. \A m \in Names \ made' : Untouched(m)'
    BY <1>3, <1>4, <1>5, <1>6, SettledFrame DEF MadeInv
  <2> QED BY <1>3, <1>5, <1>8, <2>1 DEF MadeInv, OneEach
<1>10. ValueInv(t)'
  BY <1>3, <1>5, <1>8 DEF ValueInv, OneEach
<1>11. \A m \in made' \ (NamesOf(m_val)' \cup NamesOf(new[t])') : Settled(m)'
  <2>1. made \subseteq Names
    BY <1>3 DEF TypeOK
  <2> QED BY <1>2, <1>4, <1>5, <1>6, <1>8, <2>1, Loader, SettledFrame
<1>12. SecondInv(t)'
  <2>1. ASSUME NEW e \in new[t] PROVE Configured(e)'
    <3>1. e.name # n /\ e.name \in Names
      BY <1>2, <1>4, Loader DEF NamesOf
    <3> QED BY <1>3, <1>5, <1>6, <3>1, ConfiguredFrame DEF SecondInv
  <2>2. ASSUME NEW m \in (NamesOf(m_val) \ NamesOf(new[t])) \ (todo[t] \ {n})
        PROVE  Silent(m)'
    <3>1. m \in Names
      BY <1>3 DEF MadeInv, TypeOK
    <3>2. CASE m = n
      BY <1>6, <3>2
    <3>3. CASE m # n
      BY <1>3, <1>6, <3>1, <3>3, SettledFrame DEF SecondInv
    <3> QED BY <3>2, <3>3
  <2> QED BY <1>1, <1>3, <1>5, <1>6, <1>8, <2>1, <2>2 DEF SecondInv
<1>13. LoadInv(t)' /\ Loading(t)'
  BY <1>1, <1>5, <1>10, <1>11, <1>12
     DEF LoadInv, FirstLoop, SecondLoop, Loading, InRound
<1> QED BY <1>2, <1>1, <1>5, <1>7, <1>9, <1>13, Loader, LoadStep

LEMMA RoundEndsInv ==
  ASSUME IInv, NEW t \in Threads, RoundEnds(t)
  PROVE  IInv'
<1>1. pc[t] = "gone" /\ todo[t] = {}
  BY DEF RoundEnds, At
<1>2. Loading(t) /\ pc[t] \in SecondLoop
  BY <1>1 DEF Loading, InRound, SecondLoop
<1>3. TypeOK /\ SecondInv(t)
  BY <1>2, Loader DEF IInv
<1>4. /\ pc' = [pc EXCEPT ![t] = "assign"]
      /\ UNCHANGED <<made, m_root, m_level, m_formatter, m_appenders, m_val, lock,
                     new, todo, cur, idx, ops, bad>>
  BY DEF RoundEnds, Goto, loggers
<1>5. pc'[t] = "assign" /\ \A u \in Threads \ {t} : pc'[u] = pc[u]
  BY <1>3, <1>4 DEF TypeOK
<1>6. TypeOK'
  <2>1. pc' \in [Threads -> {"idle", "new", "format", "clear", "add", "gone",
                             "assign", "log", "walk"}]
    BY <1>3, <1>4 DEF TypeOK
  <2> QED BY <1>3, <1>4, <2>1 DEF TypeOK
<1>7. /\ MadeInv' /\ ValueInv(t)'
      /\ \A m \in made' \ (NamesOf(m_val)' \cup NamesOf(new[t])') : Settled(m)'
      /\ \A d : Configured(d) => Configured(d)'
      /\ \A n : Silent(n) => Silent(n)'
      /\ NamesOf(m_val)' = NamesOf(m_val) /\ NamesOf(new[t])' = NamesOf(new[t])
  BY <1>2, <1>4, SameLoggers
<1>8. SecondInv(t)'
  BY <1>1, <1>3, <1>4, <1>7 DEF SecondInv
<1>9. LoadInv(t)' /\ Loading(t)'
  BY <1>5, <1>7, <1>8 DEF LoadInv, FirstLoop, SecondLoop, Loading, InRound
<1> QED BY <1>2, <1>4, <1>5, <1>6, <1>7, <1>9, Loader, LoadStep

LEMMA AssignInv ==
  ASSUME IInv, NEW t \in Threads, Assign(t)
  PROVE  IInv'
<1>1. pc[t] = "assign"
  BY DEF Assign, At
<1>2. Loading(t) /\ pc[t] \in SecondLoop
  BY <1>1 DEF Loading, SecondLoop
<1>3. /\ TypeOK /\ SecondInv(t) /\ MadeInv /\ ValueInv(t) /\ todo[t] = {}
      /\ cur[t] = None /\ new[t] \subseteq Defs
  BY <1>1, <1>2, Loader DEF IInv, SecondInv
<1>4. /\ m_val' = new[t]
      /\ new' = [new EXCEPT ![t] = {}]
      /\ pc' = [pc EXCEPT ![t] = "idle"]
      /\ UNCHANGED <<made, m_root, m_level, m_formatter, m_appenders, lock, todo,
                     cur, idx, ops, bad>>
  BY DEF Assign, Goto, loggers
<1>5. pc'[t] = "idle" /\ \A u \in Threads \ {t} : pc'[u] = pc[u]
  BY <1>3, <1>4 DEF TypeOK
<1>6. TypeOK'
  <2>1. /\ pc' \in [Threads -> {"idle", "new", "format", "clear", "add", "gone",
                                "assign", "log", "walk"}]
        /\ new' \in [Threads -> SUBSET Defs]
    BY <1>3, <1>4 DEF TypeOK
  <2> QED BY <1>3, <1>4, <2>1 DEF TypeOK
<1>7. NamesOf(m_val)' = NamesOf(new[t])
  BY <1>4 DEF NamesOf
<1>8. \A n : SameAt(n)
  BY <1>4 DEF SameAt
<1>9. AppliedNow'
  <2>1. \A d \in new[t] : Configured(d)'
    BY <1>3, <1>4, <1>8, ConfiguredFrame DEF SecondInv
  <2>2. \A n \in made \ NamesOf(new[t]) : Settled(n)
    BY <1>2, <1>3, Loader DEF SecondInv, Settled
  <2> QED BY <1>4, <1>7, <1>8, <2>1, <2>2, SettledFrame DEF AppliedNow
<1>10. MadeInv'
  <2>1. OneEach(m_val)'
    BY <1>3, <1>4 DEF ValueInv, OneEach
  <2>2. NamesOf(new[t]) \subseteq made
    BY <1>3 DEF SecondInv, Configured, NamesOf
  <2>3. \A n \in Names \ made' : Untouched(n)'
    BY <1>3, <1>4, <1>8, SettledFrame DEF MadeInv
  <2> QED BY <1>4, <1>7, <2>1, <2>2, <2>3 DEF MadeInv
<1>11. LoadInv(t)'
  BY <1>5 DEF LoadInv, FirstLoop, SecondLoop, Loading, InRound
<1> QED BY <1>2, <1>3, <1>4, <1>5, <1>6, <1>9, <1>10, <1>11, Loader, LoadStep

----------------------------------------------------------------------------
(* The steps of other threads.                                             *)

LEMMA ClientGetsInv ==
  ASSUME IInv, NEW t \in Threads, NEW n \in Names, ClientGets(t, n)
  PROVE  IInv'
<1>1. /\ pc[t] = "idle" /\ ops < MaxOps
      /\ made' = made \cup {n}
      /\ m_root' = [m_root EXCEPT ![n] = Root]
      /\ ops' = ops + 1
      /\ UNCHANGED <<m_level, m_formatter, m_appenders, m_val, lock, pc, new, todo,
                     cur, idx, bad>>
  BY DEF ClientGets, Idle, GetLogger
<1>2. TypeOK
  BY DEF IInv
<1>3. TypeOK'
  <2>1. ops' \in 0..MaxOps
    BY <1>1, <1>2, OneMore DEF TypeOK
  <2>2. m_root' \in [Names -> {Root, None}] /\ made' \subseteq Names /\ Root \in made'
    BY <1>1, <1>2 DEF TypeOK
  <2> QED BY <1>1, <1>2, <2>1, <2>2 DEF TypeOK
<1>4. ~Loading(t) /\ ~Loading(t)'
  BY <1>1 DEF Loading, InRound
<1> QED BY <1>1, <1>3, <1>4, OtherStep DEF IInv

LEMMA LogInv ==
  ASSUME IInv, NEW t \in Threads, NEW n \in Names, NEW level \in EventLevels,
         Log(t, n, level)
  PROVE  IInv'
<1>1. /\ pc[t] = "idle" /\ ops < MaxOps
      /\ cur' = [cur EXCEPT ![t] = n]
      /\ idx' = [idx EXCEPT ![t] = level]
      /\ ops' = ops + 1
      /\ pc' = [pc EXCEPT ![t] = "log"]
      /\ UNCHANGED <<made, m_root, m_level, m_formatter, m_appenders, m_val, lock,
                     new, todo, bad>>
  BY DEF Log, Idle, Goto, loggers
<1>2. TypeOK
  BY DEF IInv
<1>3. TypeOK'
  <2>1. ops' \in 0..MaxOps
    BY <1>1, <1>2, OneMore DEF TypeOK
  <2>2. /\ pc' \in [Threads -> {"idle", "new", "format", "clear", "add", "gone",
                                "assign", "log", "walk"}]
        /\ cur' \in [Threads -> Names \cup {None}]
    BY <1>1, <1>2 DEF TypeOK
  <2>3. level \in Nat
    BY LogConfigAssumption
  <2>4. idx' \in [Threads -> Nat]
    BY <1>1, <1>2, <2>3 DEF TypeOK
  <2> QED BY <1>1, <1>2, <2>1, <2>2, <2>4 DEF TypeOK
<1>4. /\ pc'[t] = "log"
      /\ \A u \in Threads \ {t} :
           pc'[u] = pc[u] /\ cur'[u] = cur[u] /\ idx'[u] = idx[u]
  BY <1>1, <1>2 DEF TypeOK
<1>5. ~Loading(t) /\ ~Loading(t)'
  BY <1>1, <1>4 DEF Loading, InRound
<1> QED BY <1>1, <1>3, <1>4, <1>5, OtherStep

LEMMA LogLockInv ==
  ASSUME IInv, NEW t \in Threads, LogLock(t)
  PROVE  IInv'
<1>1. /\ pc[t] = "log"
      /\ lock' = [lock EXCEPT ![cur[t]] = t]
      /\ pc' = [pc EXCEPT ![t] = "walk"]
      /\ UNCHANGED <<made, m_root, m_level, m_formatter, m_appenders, m_val, new,
                     todo, cur, idx, ops, bad>>
  BY DEF LogLock, At, Goto, loggers
<1>2. TypeOK
  BY DEF IInv
<1>3. TypeOK'
  <2>1. lock' \in [Names -> Threads \cup {None}]
    BY <1>1, <1>2 DEF TypeOK
  <2>2. pc' \in [Threads -> {"idle", "new", "format", "clear", "add", "gone",
                             "assign", "log", "walk"}]
    BY <1>1, <1>2 DEF TypeOK
  <2> QED BY <1>1, <1>2, <2>1, <2>2 DEF TypeOK
<1>4. pc'[t] = "walk" /\ \A u \in Threads \ {t} : pc'[u] = pc[u]
  BY <1>1, <1>2 DEF TypeOK
<1>5. ~Loading(t) /\ ~Loading(t)'
  BY <1>1, <1>4 DEF Loading, InRound
<1> QED BY <1>1, <1>3, <1>4, <1>5, OtherStep

LEMMA LogWalkInv ==
  ASSUME IInv, NEW t \in Threads, LogWalk(t)
  PROVE  IInv'
<1>1. /\ pc[t] = "walk"
      /\ UNCHANGED <<made, m_root, m_level, m_formatter, m_appenders, m_val, new,
                     todo, ops, bad>>
      /\ \/ /\ cur' = [cur EXCEPT ![t] = Root]
            /\ pc' = [pc EXCEPT ![t] = "log"]
            /\ UNCHANGED <<lock, idx>>
         \/ /\ lock' = [l \in Names |-> IF lock[l] = t THEN None ELSE lock[l]]
            /\ cur' = [cur EXCEPT ![t] = None]
            /\ idx' = [idx EXCEPT ![t] = 1]
            /\ pc' = [pc EXCEPT ![t] = "idle"]
  BY DEF LogWalk, At, Goto, loggers
<1>2. TypeOK
  BY DEF IInv
<1>3. TypeOK'
  <2>1. lock' \in [Names -> Threads \cup {None}]
    BY <1>1, <1>2 DEF TypeOK
  <2>2. /\ pc' \in [Threads -> {"idle", "new", "format", "clear", "add", "gone",
                                "assign", "log", "walk"}]
        /\ cur' \in [Threads -> Names \cup {None}]
    <3>1. Root \in Names
      BY LogConfigAssumption
    <3> QED BY <1>1, <1>2, <3>1 DEF TypeOK
  <2>3. idx' \in [Threads -> Nat]
    <3>1. idx \in [Threads -> Nat] /\ 1 \in Nat
      BY <1>2 DEF TypeOK
    <3>2. idx' = idx \/ idx' = [idx EXCEPT ![t] = 1]
      BY <1>1
    <3> QED BY <3>1, <3>2
  <2> QED BY <1>1, <1>2, <2>1, <2>2, <2>3 DEF TypeOK
<1>4. /\ pc'[t] = "log" \/ (pc'[t] = "idle" /\ cur'[t] = None)
      /\ \A u \in Threads \ {t} :
           pc'[u] = pc[u] /\ cur'[u] = cur[u] /\ idx'[u] = idx[u]
  BY <1>1, <1>2 DEF TypeOK
<1>5. ~Loading(t) /\ ~Loading(t)'
  BY <1>1, <1>4 DEF Loading, InRound
<1> QED BY <1>1, <1>3, <1>4, <1>5, OtherStep

----------------------------------------------------------------------------
(* The invariant.                                                          *)

LEMMA InitInv ==
  ASSUME Init
  PROVE  IInv
<1>1. TypeOK
  <2>1. Stdout \in Appenders
    BY LogConfigAssumption DEF Stdout, Appenders
  <2>2. <<Stdout>> \in Seq(Appenders) /\ <<>> \in Seq(Appenders)
    BY <2>1
  <2>3. m_appenders \in [Names -> Seq(Appenders)]
    BY <2>2 DEF Init
  <2>4. DEBUG \in Levels
    BY DEF DEBUG, Levels, LevelNames
  <2>5. /\ m_val \in SUBSET Defs
        /\ new \in [Threads -> SUBSET Defs]
        /\ todo \in [Threads -> SUBSET Names]
    BY DEF Init
  <2>6. /\ made \subseteq Names /\ Root \in made
        /\ m_root \in [Names -> {Root, None}]
        /\ m_formatter \in [Names -> ValidPatterns]
    BY LogConfigAssumption DEF Init
  <2>7. m_level \in [Names -> {UNKNOW, Removed} \cup Levels]
    BY <2>4 DEF Init
  <2>8. /\ lock \in [Names -> Threads \cup {None}]
        /\ cur \in [Threads -> Names \cup {None}]
        /\ pc \in [Threads -> {"idle", "new", "format", "clear", "add", "gone",
                               "assign", "log", "walk"}]
        /\ bad \in {"no", "null logger", "list race"}
    BY DEF Init
  <2>9. idx \in [Threads -> Nat] /\ ops \in 0..MaxOps
    BY LogConfigAssumption DEF Init
  <2> QED BY <2>3, <2>5, <2>6, <2>7, <2>8, <2>9 DEF TypeOK
<1>2. \A t \in Threads : pc[t] = "idle" /\ cur[t] = None
  BY DEF Init
<1>3. \A n \in Names : Untouched(n)
  BY DEF Init, Untouched
<1>4. MadeInv
  BY <1>3 DEF Init, MadeInv, OneEach, NamesOf
<1>5. \A t \in Threads : LoadInv(t)
  BY <1>2 DEF LoadInv, FirstLoop, SecondLoop, Loading, InRound
<1>6. Serial
  BY <1>2 DEF Serial, Loading, InRound
<1>7. AppliedNow
  BY <1>1, <1>3 DEF Init, AppliedNow, Settled, TypeOK
<1>8. NothingBad
  BY DEF Init, NothingBad
<1> QED BY <1>1, <1>2, <1>4, <1>5, <1>6, <1>7, <1>8 DEF IInv

LEMMA StutterInv ==
  ASSUME IInv, UNCHANGED vars
  PROVE  IInv'
<1>1. /\ UNCHANGED <<made, m_root, m_level, m_formatter, m_appenders, m_val, lock>>
      /\ UNCHANGED <<pc, new, todo, cur, idx, ops, bad>>
  BY DEF vars, loggers
<1>2. TypeOK' /\ NothingBad'
  BY <1>1 DEF IInv, TypeOK, NothingBad
<1>3. \A n : SameAt(n)
  BY <1>1 DEF SameAt
<1>4. NamesOf(m_val)' = NamesOf(m_val) /\ NamesOf(m_val) \subseteq Names
  BY <1>1 DEF NamesOf, IInv, TypeOK, MadeInv
<1>5. Serial'
  BY <1>1 DEF IInv, Serial, Loading, InRound
<1>6. MadeInv'
  BY <1>1, <1>3, <1>4, SettledFrame DEF IInv, MadeInv, OneEach
<1>7. ASSUME NEW t \in Threads PROVE LoadInv(t)' /\ (pc[t] = "idle" => cur[t] = None)'
  <2>1. /\ LoadInv(t) /\ (pc[t] = "idle" => cur[t] = None)
        /\ new[t] \subseteq Defs
    BY DEF IInv, TypeOK
  <2> QED BY <1>1, <1>3, <1>4, <2>1, LoadKept
<1>8. AppliedNow => AppliedNow'
  BY <1>1, <1>3, <1>4, ConfiguredFrame, SettledFrame DEF AppliedNow
<1>9. (\A t \in Threads : ~Loading(t))' => AppliedNow'
  BY <1>1, <1>8 DEF IInv, Loading, InRound
<1> QED BY <1>2, <1>5, <1>6, <1>7, <1>9 DEF IInv

LEMMA NextInv ==
  ASSUME IInv, Contract = Clauses, [Next]_vars
  PROVE  IInv'
<1>1. CASE UNCHANGED vars
  BY <1>1, StutterInv
<1>2. CASE Next
  <2>1. PICK t \in Threads :
          \/ \E n \in Names : ClientGets(t, n)
          \/ \E doc \in Docs : SetValue(t, doc)
          \/ Listener(t)
          \/ Assign(t)
          \/ \E n \in Names, level \in EventLevels : Log(t, n, level)
          \/ LogLock(t)
          \/ LogWalk(t)
    BY <1>2 DEF Next
  <2>2. CASE \E n \in Names : ClientGets(t, n)
    BY <2>2, ClientGetsInv
  <2>3. CASE \E doc \in Docs : SetValue(t, doc)
    BY <2>3, SetValueInv
  <2>4. CASE Listener(t)
    BY <2>4, FindLoggerInv, SetFormatterInv, ClearAppenderInv, AddAppenderInv,
       NextDefineInv, RemoveLoopInv, RemoveLoggerInv, RoundEndsInv DEF Listener
  <2>5. CASE Assign(t)
    BY <2>5, AssignInv
  <2>6. CASE \E n \in Names, level \in EventLevels : Log(t, n, level)
    BY <2>6, LogInv
  <2>7. CASE LogLock(t)
    BY <2>7, LogLockInv
  <2>8. CASE LogWalk(t)
    BY <2>8, LogWalkInv
  <2> QED BY <2>1, <2>2, <2>3, <2>4, <2>5, <2>6, <2>7, <2>8
<1> QED BY <1>1, <1>2

----------------------------------------------------------------------------
(* Which events are lost.                                                  *)

LEMMA LevelsAre ==
  Levels = 1..5
BY DEF Levels, LevelNames

LEMMA RebuildingLoads ==
  ASSUME NEW t \in Threads, NEW n, Rebuilding(t, n)
  PROVE  Loading(t)
BY DEF Rebuilding, Loading, InRound

(* A reason stays when the values and the logger's level do. *)
LEMMA ReasonStays ==
  ASSUME NEW n, MayBeBare(n), m_val' = m_val, new' = new, m_level'[n] = m_level[n],
         \A t \in Threads : Loading(t) => Loading(t)',
         \A t \in Threads : Rebuilding(t, n) => Rebuilding(t, n)'
  PROVE  MayBeBare(n)'
<1>1. CASE \E t \in Threads : Rebuilding(t, n)
  BY <1>1 DEF MayBeBare
<1>2. CASE \E t \in Threads :
             Loading(t) /\ n \in NamesOf(m_val) \cup NamesOf(new[t])
                        /\ GivesNone(new[t], n)
  BY <1>2 DEF MayBeBare, NamesOf, GivesNone
<1>3. CASE /\ GivesNone(m_val, n)
           /\ n = Root /\ n \notin NamesOf(m_val) => m_level[n] = Removed
  BY <1>3 DEF MayBeBare, NamesOf, GivesNone
<1> QED BY <1>1, <1>2, <1>3 DEF MayBeBare

(* A step of a thread that does not load, and changes no logger but for making
   some. *)
LEMMA BareOther ==
  ASSUME BareInv, NEW t \in Threads, ~Loading(t), ~Loading(t)',
         UNCHANGED <<m_appenders, m_level, m_val, new>>,
         \A u \in Threads \ {t} :
           pc'[u] = pc[u] /\ cur'[u] = cur[u] /\ idx'[u] = idx[u]
  PROVE  \A n \in made : m_appenders'[n] = <<>> => MayBeBare(n)'
<1> SUFFICES ASSUME NEW n \in made, m_appenders'[n] = <<>> PROVE MayBeBare(n)'
  OBVIOUS
<1>1. MayBeBare(n)
  BY DEF BareInv
<1>2. \A u \in Threads : Loading(u) => Loading(u)'
  BY DEF Loading, InRound
<1>3. \A u \in Threads : Rebuilding(u, n) => Rebuilding(u, n)'
  BY RebuildingLoads DEF Rebuilding
<1> QED BY <1>1, <1>2, <1>3, ReasonStays

(* A step of the listener: a list it leaves empty has a new reason, or was
   empty and keeps the old one. *)
LEMMA BareListener ==
  ASSUME IInv, BareInv, NEW t \in Threads, Loading(t), Loading(t)',
         UNCHANGED <<m_val, new>>,
         \A u \in Threads \ {t} :
           pc'[u] = pc[u] /\ cur'[u] = cur[u] /\ idx'[u] = idx[u],
         made \subseteq made', \A n \in made' : n # Root => m_root'[n] = Root,
         \A n \in made' : m_appenders'[n] = <<>> =>
           \/ MayBeBare(n)'
           \/ /\ n \in made /\ m_appenders[n] = <<>> /\ m_level'[n] = m_level[n]
              /\ Rebuilding(t, n) => Rebuilding(t, n)'
  PROVE  BareInv'
<1>1. \A u \in Threads \ {t} : ~Loading(u)
  BY Loader
<1>2. ASSUME NEW n \in made', m_appenders'[n] = <<>>, ~MayBeBare(n)' PROVE FALSE
  <2>1. MayBeBare(n) /\ m_level'[n] = m_level[n]
    BY <1>2 DEF BareInv
  <2>2. \A u \in Threads : Loading(u) => Loading(u)'
    BY <1>1
  <2>3. \A u \in Threads : Rebuilding(u, n) => Rebuilding(u, n)'
    BY <1>1, <1>2, RebuildingLoads
  <2> QED BY <1>2, <2>1, <2>2, <2>3, ReasonStays
<1>3. ASSUME NEW u \in Threads, Logging(u)' PROVE cur'[u] \in made'
  <2>1. u # t
    BY <1>3 DEF Logging, Loading, InRound
  <2> QED BY <1>3, <2>1 DEF BareInv, Logging
<1> QED BY <1>2, <1>3 DEF BareInv

LEMMA ListenerBare ==
  ASSUME IInv, BareInv, Contract = Clauses, NEW t \in Threads, Listener(t)
  PROVE  BareInv'
<1>0. TypeOK /\ made \subseteq Names /\ \A n \in made : n # Root => m_root[n] = Root
  BY DEF IInv, TypeOK, BareInv
<1>1. ASSUME FindLogger(t) PROVE BareInv'
  <2>n. PICK n : n = Nth(todo[t], 1)
    OBVIOUS
  <2>1. pc[t] = "new" /\ todo[t] # {}
    BY <1>1 DEF FindLogger, At
  <2>2. Loading(t) /\ pc[t] \in FirstLoop
    BY <2>1 DEF Loading, InRound, FirstLoop
  <2>3. ValueInv(t) /\ FirstInv(t) /\ todo[t] \subseteq Names
    BY <2>2, Loader
  <2>4. n \in NamesOf(new[t]) /\ n \in Names
    BY <2>n, <2>1, <2>3, FirstIn DEF FirstInv
  <2>5. Def(new[t], n) \notin m_val
    BY <2>3, <2>4, DefIn DEF ValueInv
  <2>6. /\ made' = made \cup {n}
        /\ m_root' = IF n \in made THEN m_root ELSE [m_root EXCEPT ![n] = Root]
        /\ m_level' = [m_level EXCEPT ![n] = Def(new[t], n).level]
        /\ cur' = [cur EXCEPT ![t] = n]
        /\ pc' = [pc EXCEPT ![t] = "format"]
        /\ UNCHANGED <<m_appenders, m_val, new, idx>>
    BY <1>1, <2>n, <2>5 DEF FindLogger, GetLogger, Goto
  <2>7. /\ pc'[t] = "format" /\ cur'[t] = n
        /\ \A u \in Threads \ {t} :
             pc'[u] = pc[u] /\ cur'[u] = cur[u] /\ idx'[u] = idx[u]
        /\ \A m \in Names : m # n => m_level'[m] = m_level[m]
        /\ \A m \in made' : m # Root => m_root'[m] = Root
    BY <1>0, <2>4, <2>6 DEF TypeOK
  <2>8. MayBeBare(n)'
    BY <2>7 DEF MayBeBare, Rebuilding
  <2>9. \A m : ~Rebuilding(t, m)
    BY <2>1 DEF Rebuilding
  <2>10. Loading(t)'
    BY <2>7 DEF Loading, InRound
  <2> QED BY <1>0, <2>2, <2>6, <2>7, <2>8, <2>9, <2>10, BareListener
<1>2. ASSUME SetFormatter(t) PROVE BareInv'
  <2>1. /\ pc[t] = "format" /\ pc' = [pc EXCEPT ![t] = "clear"]
        /\ UNCHANGED <<made, m_root, m_level, m_val, new, cur, idx>>
    BY <1>2 DEF SetFormatter, At, Goto
  <2>2. pc'[t] = "clear" /\ \A u \in Threads \ {t} : pc'[u] = pc[u]
    BY <1>0, <2>1 DEF TypeOK
  <2>3. Loading(t) /\ Loading(t)'
    BY <2>1, <2>2 DEF Loading, InRound
  <2>4. ASSUME NEW n \in made, m_appenders'[n] = <<>> PROVE m_appenders[n] = <<>>
    <3>1. m_appenders[n] \in Seq(Appenders)
      BY <1>0 DEF TypeOK
    <3>2. DOMAIN m_appenders'[n] = DOMAIN m_appenders[n]
      <4> DEFINE f == Def(new[t], cur[t]).formatter
                 Given(s) == Map(s, LAMBDA a :
                              IF a.has THEN a ELSE [a EXCEPT !.formatter = f])
      <4>1. DOMAIN Given(m_appenders[n]) = DOMAIN m_appenders[n]
        BY DEF Map
      <4>2. \/ m_appenders' = m_appenders
            \/ m_appenders' = [m_appenders EXCEPT ![cur[t]] =
                                 Given(m_appenders[cur[t]])]
        BY <1>2 DEF SetFormatter
      <4> HIDE DEF Given
      <4>3. n \in DOMAIN m_appenders
        BY <1>0 DEF TypeOK
      <4> QED BY <4>1, <4>2, <4>3
    <3>3. DOMAIN m_appenders[n] = 1..Len(m_appenders[n]) /\ Len(m_appenders[n]) \in Nat
      BY <3>1
    <3>4. DOMAIN m_appenders'[n] = {}
      BY <2>4
    <3>5. Len(m_appenders[n]) = 0
      <4>1. 1 \notin 1..Len(m_appenders[n])
        BY <3>2, <3>3, <3>4
      <4> QED BY <3>3, <4>1
    <3> QED BY <3>1, <3>5
  <2>5. \A n : Rebuilding(t, n) => Rebuilding(t, n)'
    BY <2>1, <2>2 DEF Rebuilding
  <2> QED BY <1>0, <2>1, <2>2, <2>3, <2>4, <2>5, BareListener
<1>3. ASSUME ClearAppender(t) PROVE BareInv'
  <2>1. /\ pc[t] = "clear" /\ pc' = [pc EXCEPT ![t] = "add"]
        /\ UNCHANGED <<made, m_root, m_level, m_val, new, cur>>
        /\ idx' = [idx EXCEPT ![t] = 1]
        /\ m_appenders' = [m_appenders EXCEPT ![cur[t]] = <<>>]
    BY <1>3 DEF ClearAppender, Clear, At, Goto
  <2>2. /\ pc'[t] = "add" /\ idx'[t] = 1
        /\ \A u \in Threads \ {t} : pc'[u] = pc[u] /\ idx'[u] = idx[u]
        /\ \A n \in made : n # cur[t] => m_appenders'[n] = m_appenders[n]
    BY <1>0, <2>1 DEF TypeOK
  <2>3. Loading(t) /\ Loading(t)'
    BY <2>1, <2>2 DEF Loading, InRound
  <2>4. Rebuilding(t, cur[t])'
    BY <2>1, <2>2 DEF Rebuilding
  <2>5. \A n : Rebuilding(t, n) => n = cur[t]
    BY DEF Rebuilding
  <2>6. MayBeBare(cur[t])'
    BY <2>1, <2>4 DEF MayBeBare
  <2>7. cur'[t] = cur[t]
    BY <2>1
  <2>8. \A n \in made' : m_appenders'[n] = <<>> =>
          \/ MayBeBare(n)'
          \/ /\ n \in made /\ m_appenders[n] = <<>> /\ m_level'[n] = m_level[n]
             /\ Rebuilding(t, n) => Rebuilding(t, n)'
    BY <2>1, <2>2, <2>5, <2>6
  <2> QED BY <1>0, <2>1, <2>2, <2>3, <2>8, BareListener
<1>4. ASSUME AddAppender(t) PROVE BareInv'
  <2>a. PICK a : m_appenders' = [m_appenders EXCEPT ![cur[t]] =
                                   Append(m_appenders[cur[t]], a)]
    BY <1>4 DEF AddAppender
  <2>1. /\ pc[t] = "add"
        /\ UNCHANGED <<made, m_root, m_level, m_val, new, cur, pc>>
        /\ idx' = [idx EXCEPT ![t] = idx[t] + 1]
    BY <1>4 DEF AddAppender, At
  <2>2. /\ \A u \in Threads \ {t} : pc'[u] = pc[u] /\ idx'[u] = idx[u]
        /\ \A n \in made : n # cur[t] => m_appenders'[n] = m_appenders[n]
        /\ cur[t] \in made => m_appenders'[cur[t]] # <<>>
    <3>1. \A u \in Threads \ {t} : pc'[u] = pc[u] /\ idx'[u] = idx[u]
      BY <1>0, <2>1 DEF TypeOK
    <3>2. \A n \in made : n # cur[t] => m_appenders'[n] = m_appenders[n]
      BY <1>0, <2>a DEF TypeOK
    <3>3. ASSUME cur[t] \in made PROVE m_appenders'[cur[t]] # <<>>
      <4>1. m_appenders[cur[t]] \in Seq(Appenders)
        BY <1>0, <3>3 DEF TypeOK
      <4>2. m_appenders'[cur[t]] = Append(m_appenders[cur[t]], a)
        BY <1>0, <2>a, <3>3 DEF TypeOK
      <4>3. Len(Append(m_appenders[cur[t]], a)) = Len(m_appenders[cur[t]]) + 1
            /\ Len(m_appenders[cur[t]]) \in Nat
        BY <4>1
      <4> QED BY <4>2, <4>3
    <3> QED BY <3>1, <3>2, <3>3
  <2>3. Loading(t) /\ Loading(t)'
    BY <2>1 DEF Loading, InRound
  <2>4. \A n : Rebuilding(t, n) => n = cur[t]
    BY DEF Rebuilding
  <2>5. \A n \in made' : m_appenders'[n] = <<>> =>
          /\ n \in made /\ m_appenders[n] = <<>> /\ m_level'[n] = m_level[n]
          /\ Rebuilding(t, n) => Rebuilding(t, n)'
    BY <2>1, <2>2, <2>4
  <2> QED BY <1>0, <2>1, <2>2, <2>3, <2>5, BareListener
<1>5. ASSUME NextDefine(t) PROVE BareInv'
  <2>n. PICK n : n = cur[t]
    OBVIOUS
  <2>d. PICK d : d = Def(new[t], n)
    OBVIOUS
  <2>1. /\ pc[t] = "add" /\ idx[t] > Len(d.appenders)
        /\ pc' = [pc EXCEPT ![t] = "new"]
        /\ cur' = [cur EXCEPT ![t] = None]
        /\ UNCHANGED <<made, m_root, m_level, m_appenders, m_val, new, idx>>
    BY <1>5, <2>n, <2>d DEF NextDefine, At, Goto, loggers
  <2>2. /\ pc'[t] = "new"
        /\ \A u \in Threads \ {t} : pc'[u] = pc[u] /\ cur'[u] = cur[u]
    BY <1>0, <2>1 DEF TypeOK
  <2>3. Loading(t) /\ Loading(t)'
    BY <2>1, <2>2 DEF Loading, InRound
  <2>4. /\ d \in new[t] /\ d \in Defs /\ d.name = n /\ AtDefine(t, d)
        /\ \A e \in new[t] : e.name = n => e = d
    BY <2>n, <2>d, <2>1, Current
  <2>5. ASSUME m_appenders[n] = <<>> PROVE MayBeBare(n)'
    <3>1. /\ idx[t] \in 1..(Len(d.appenders) + 1)
          /\ Len(m_appenders[n]) = idx[t] - 1
      BY <2>1, <2>4 DEF AtDefine, Built
    <3>2. d.appenders \in Seq(AppenderDefs)
      BY <2>4 DEF Defs
    <3>3. Len(d.appenders) = 0
      BY <2>1, <2>5, <3>1, <3>2
    <3>4. d.appenders = <<>>
      BY <3>2, <3>3
    <3>5. GivesNone(new'[t], n) /\ n \in NamesOf(new'[t])
      BY <2>1, <2>4, <3>4 DEF GivesNone, NamesOf
    <3> QED BY <2>3, <3>5 DEF MayBeBare, GivesNone, NamesOf
  <2>6. \A m : Rebuilding(t, m) => m = n
    BY <2>n DEF Rebuilding
  <2>7. ASSUME NEW m \in made', m_appenders'[m] = <<>>
        PROVE  \/ MayBeBare(m)'
               \/ /\ m \in made /\ m_appenders[m] = <<>> /\ m_level'[m] = m_level[m]
                  /\ Rebuilding(t, m) => Rebuilding(t, m)'
    <3>1. CASE m = n
      BY <2>1, <2>5, <2>7, <3>1
    <3>2. CASE m # n
      BY <2>1, <2>6, <2>7, <3>2
    <3> QED BY <3>1, <3>2
  <2> QED BY <1>0, <2>1, <2>2, <2>3, <2>7, BareListener
<1>6. ASSUME RemoveLoop(t) \/ RoundEnds(t) PROVE BareInv'
  <2>1. /\ pc[t] \in {"new", "gone"}
        /\ \E where \in {"gone", "assign"} : pc' = [pc EXCEPT ![t] = where]
        /\ UNCHANGED <<made, m_root, m_level, m_appenders, m_val, new, cur, idx>>
    BY <1>6 DEF RemoveLoop, RoundEnds, At, Goto, loggers
  <2>2. /\ pc'[t] \in {"gone", "assign"}
        /\ \A u \in Threads \ {t} : pc'[u] = pc[u]
    BY <1>0, <2>1 DEF TypeOK
  <2>3. Loading(t) /\ Loading(t)'
    BY <2>1, <2>2 DEF Loading, InRound
  <2>4. \A n : ~Rebuilding(t, n)
    BY <2>1 DEF Rebuilding
  <2> QED BY <1>0, <2>1, <2>2, <2>3, <2>4, BareListener
<1>7. ASSUME RemoveLogger(t) PROVE BareInv'
  <2>n. PICK n : n = Nth(todo[t], 1)
    OBVIOUS
  <2>1. /\ pc[t] = "gone" /\ todo[t] # {}
        /\ m_level' = [m_level EXCEPT ![n] = Removed]
        /\ m_appenders' = [m_appenders EXCEPT ![n] = <<>>]
        /\ UNCHANGED <<made, m_root, m_val, new, cur, idx, pc>>
    BY <1>7, <2>n DEF RemoveLogger, Clear, At
  <2>2. Loading(t) /\ Loading(t)' /\ pc[t] \in SecondLoop
    BY <2>1 DEF Loading, InRound, SecondLoop
  <2>3. SecondInv(t) /\ todo[t] \subseteq Names
    BY <2>2, Loader
  <2>4. n \in NamesOf(m_val) /\ n \notin NamesOf(new[t])
    BY <2>n, <2>1, <2>3, FirstIn DEF SecondInv
  <2>5. \A m \in made : m # n => /\ m_appenders'[m] = m_appenders[m]
                                /\ m_level'[m] = m_level[m]
    BY <1>0, <2>1 DEF TypeOK
  <2>6. MayBeBare(n)'
    <3>1. n \in NamesOf(m_val') /\ GivesNone(new'[t], n)
      BY <2>1, <2>4 DEF GivesNone, NamesOf
    <3>2. \E u \in Threads : Loading(u)' /\ n \in NamesOf(m_val') \cup NamesOf(new'[u])
                             /\ GivesNone(new'[u], n)
      BY <2>2, <3>1
    <3> QED BY <3>2 DEF MayBeBare, GivesNone, NamesOf
  <2>7. \A m : ~Rebuilding(t, m)
    BY <2>1 DEF Rebuilding
  <2> QED BY <1>0, <2>1, <2>2, <2>5, <2>6, <2>7, BareListener
<1> QED BY <1>1, <1>2, <1>3, <1>4, <1>5, <1>6, <1>7 DEF Listener

(* The value is set: a logger it gives no appenders is bare from now on, and
   one that is bare has got none. *)
LEMMA AssignBare ==
  ASSUME IInv, BareInv, NEW t \in Threads, Assign(t)
  PROVE  BareInv'
<1>1. /\ pc[t] = "assign" /\ m_val' = new[t]
      /\ pc' = [pc EXCEPT ![t] = "idle"]
      /\ UNCHANGED <<made, m_root, m_level, m_formatter, m_appenders, cur>>
  BY DEF Assign, At, Goto, loggers
<1>2. Loading(t) /\ pc[t] \in SecondLoop /\ TypeOK
  BY <1>1 DEF Loading, SecondLoop, IInv
<1>3. SecondInv(t) /\ todo[t] = {} /\ new[t] \subseteq Defs
  BY <1>1, <1>2, Loader DEF SecondInv
<1>4. ASSUME NEW n \in made, m_appenders[n] = <<>> PROVE MayBeBare(n)'
  <2>1. ASSUME NEW d \in new[t], d.name = n PROVE d.appenders = <<>>
    <3>1. Configured(d) /\ d.appenders \in Seq(AppenderDefs)
      BY <1>3 DEF SecondInv, Defs
    <3>2. Len(d.appenders) = 0
      BY <1>4, <2>1, <3>1 DEF Configured
    <3> QED BY <3>1, <3>2
  <2>2. ASSUME n = Root, n \notin NamesOf(new[t]) PROVE m_level[n] = Removed
    <3>1. CASE n \in NamesOf(m_val)
      BY <1>3, <2>2, <3>1 DEF SecondInv, Silent
    <3>2. CASE n \notin NamesOf(m_val)
      <4>1. Settled(n)
        BY <1>2, <2>2, <3>2, Loader
      <4>2. ~Untouched(n)
        BY <1>4, <2>2 DEF Untouched
      <4> QED BY <4>1, <4>2 DEF Settled, Silent
    <3> QED BY <3>1, <3>2
  <2>3. /\ GivesNone(m_val', n)
        /\ n = Root /\ n \notin NamesOf(m_val') => m_level'[n] = Removed
    BY <1>1, <2>1, <2>2 DEF GivesNone
  <2> QED BY <2>3 DEF MayBeBare, GivesNone, NamesOf
<1>5. ASSUME NEW u \in Threads, Logging(u)' PROVE Logging(u)
  BY <1>1, <1>2, <1>5 DEF Logging, TypeOK
<1> QED BY <1>1, <1>4, <1>5 DEF BareInv

(* The steps of threads outside a load. *)
LEMMA OthersBare ==
  ASSUME IInv, BareInv, NEW t \in Threads,
         \/ \E n \in Names, level \in EventLevels : Log(t, n, level)
         \/ LogLock(t) \/ LogWalk(t)
  PROVE  BareInv'
<1>1. /\ UNCHANGED <<made, m_root, m_level, m_appenders, m_val, new>>
      /\ pc[t] \in {"idle", "log", "walk"} /\ TypeOK
  BY DEF Log, LogLock, LogWalk, Idle, At, loggers, IInv
<1>2. /\ \E where \in {"idle", "log", "walk"} : pc' = [pc EXCEPT ![t] = where]
      /\ cur' = cur \/ \E n : cur' = [cur EXCEPT ![t] = n]
      /\ idx' = idx \/ \E k : idx' = [idx EXCEPT ![t] = k]
  BY DEF Log, LogLock, LogWalk, Goto
<1>3. /\ pc'[t] \in {"idle", "log", "walk"}
      /\ \A u \in Threads \ {t} :
           pc'[u] = pc[u] /\ cur'[u] = cur[u] /\ idx'[u] = idx[u]
  BY <1>1, <1>2 DEF TypeOK
<1>4. ~Loading(t) /\ ~Loading(t)'
  BY <1>1, <1>3 DEF Loading, InRound
<1>5. \A n \in made : m_appenders'[n] = <<>> => MayBeBare(n)'
  BY <1>1, <1>3, <1>4, BareOther
<1>6. Logging(t)' => cur'[t] \in made
  <2>1. ASSUME NEW n \in Names, NEW level, Log(t, n, level) PROVE cur'[t] \in made
    BY <1>1, <2>1 DEF Log, TypeOK
  <2>2. CASE LogLock(t)
    BY <1>1, <2>2 DEF LogLock, At, Logging, BareInv
  <2>3. CASE LogWalk(t)
    <3>1. \/ cur' = [cur EXCEPT ![t] = Root]
          \/ pc' = [pc EXCEPT ![t] = "idle"]
      BY <2>3 DEF LogWalk, Goto
    <3> QED BY <1>1, <3>1 DEF TypeOK, Logging
  <2> QED BY <2>1, <2>2, <2>3
<1>7. \A u \in Threads \ {t} : Logging(u)' => cur'[u] \in made
  BY <1>3 DEF Logging, BareInv
<1> QED BY <1>1, <1>5, <1>6, <1>7 DEF BareInv

LEMMA ClientGetsBare ==
  ASSUME IInv, BareInv, NEW t \in Threads, NEW n \in Names, ClientGets(t, n)
  PROVE  BareInv'
<1>1. /\ pc[t] = "idle" /\ n \notin made
      /\ made' = made \cup {n}
      /\ m_root' = [m_root EXCEPT ![n] = Root]
      /\ UNCHANGED <<m_level, m_appenders, m_val, pc, new, cur, idx>>
  BY DEF ClientGets, Idle, GetLogger
<1>2. TypeOK /\ NamesOf(m_val) \subseteq made /\ Root \in made
  BY DEF IInv, MadeInv, TypeOK
<1>3. ~Loading(t) /\ ~Loading(t)'
  BY <1>1 DEF Loading, InRound
<1>4. \A m \in made : m_appenders'[m] = <<>> => MayBeBare(m)'
  BY <1>1, <1>3, BareOther
<1>5. MayBeBare(n)'
  BY <1>1, <1>2 DEF MayBeBare, GivesNone, NamesOf
<1>6. \A m \in made' : m # Root => m_root'[m] = Root
  BY <1>1, <1>2 DEF BareInv, TypeOK
<1>7. \A u \in Threads : Logging(u)' => cur'[u] \in made'
  BY <1>1 DEF BareInv, Logging
<1> QED BY <1>1, <1>4, <1>5, <1>6, <1>7 DEF BareInv

(* A load begins: nobody else loads, so that the reasons are in the value. *)
LEMMA SetValueBare ==
  ASSUME IInv, BareInv, Contract = Clauses, NEW t \in Threads, NEW doc \in Docs,
         SetValue(t, doc)
  PROVE  BareInv'
<1>1. /\ \A u \in Threads : ~Loading(u)
      /\ pc' = [pc EXCEPT ![t] = "new"]
      /\ UNCHANGED <<made, m_root, m_level, m_appenders, m_val, cur>>
  BY DEF SetValue, Demand, Clauses, Goto, loggers
<1>2. ASSUME NEW n \in made, m_appenders[n] = <<>> PROVE MayBeBare(n)'
  <2>1. /\ GivesNone(m_val, n)
        /\ n = Root /\ n \notin NamesOf(m_val) => m_level[n] = Removed
    BY <1>1, <1>2, RebuildingLoads DEF BareInv, MayBeBare
  <2> QED BY <1>1, <2>1 DEF MayBeBare, GivesNone, NamesOf
<1>3. ASSUME NEW u \in Threads, Logging(u)' PROVE Logging(u)
  BY <1>1, <1>3 DEF Logging, IInv, TypeOK
<1> QED BY <1>1, <1>2, <1>3 DEF BareInv

LEMMA InitBare ==
  ASSUME Init
  PROVE  BareInv
<1>1. made = {Root} /\ m_appenders[Root] # <<>>
  BY LogConfigAssumption DEF Init
<1> QED BY <1>1 DEF Init, BareInv, Logging

LEMMA NextBare ==
  ASSUME IInv, BareInv, Contract = Clauses, [Next]_vars
  PROVE  BareInv'
<1>1. CASE UNCHANGED vars
  <2>1. UNCHANGED <<made, m_root, m_level, m_appenders, m_val, new, pc, cur, idx>>
    BY <1>1 DEF vars, loggers
  <2> QED BY <2>1 DEF BareInv, Logging, MayBeBare, Rebuilding, Loading, InRound,
                      GivesNone, NamesOf
<1>2. CASE Next
  BY <1>2, ClientGetsBare, SetValueBare, ListenerBare, AssignBare, OthersBare DEF Next
<1> QED BY <1>1, <1>2

(* Only a thread that ends its walk loses an event. *)
LEMMA WalkEnds ==
  ASSUME IInv, BareInv, [Next]_vars, NEW t \in Threads,
         pc[t] = "walk", pc'[t] = "idle", m_appenders[cur[t]] = <<>>
  PROVE  MayBeBare(cur[t]) /\ (cur[t] # Root => idx[t] < m_level[Root])
<1>0. TypeOK /\ cur[t] \in made
  BY DEF IInv, BareInv, Logging
<1>1. LogWalk(t)
  <2>1. pc' # pc
    OBVIOUS
  <2>2. PICK u \in Threads :
          \/ \E n \in Names : ClientGets(u, n)
          \/ \E doc \in Docs : SetValue(u, doc)
          \/ Listener(u)
          \/ Assign(u)
          \/ \E n \in Names, level \in EventLevels : Log(u, n, level)
          \/ LogLock(u)
          \/ LogWalk(u)
    BY <2>1 DEF Next, vars
  <2>3. ASSUME NEW where, pc' = [pc EXCEPT ![u] = where] PROVE u = t
    BY <1>0, <2>3 DEF TypeOK
  <2>4. \A n \in Names : ~ClientGets(u, n)
    BY <2>1 DEF ClientGets
  <2>5. Listener(u) => pc[u] # "walk" /\ \E where : pc' = [pc EXCEPT ![u] = where]
    BY <2>1 DEF Listener, FindLogger, SetFormatter, ClearAppender, AddAppender,
                NextDefine, RemoveLoop, RemoveLogger, RoundEnds, At, Goto
  <2>6. Assign(u) => pc[u] # "walk" /\ \E where : pc' = [pc EXCEPT ![u] = where]
    BY DEF Assign, At, Goto
  <2>7. \A doc \in Docs : SetValue(u, doc) =>
          pc[u] # "walk" /\ \E where : pc' = [pc EXCEPT ![u] = where]
    BY DEF SetValue, Idle, Goto
  <2>8. \A n \in Names, level \in EventLevels : Log(u, n, level) =>
          pc[u] # "walk" /\ \E where : pc' = [pc EXCEPT ![u] = where]
    BY DEF Log, Idle, Goto
  <2>9. LogLock(u) => pc[u] # "walk" /\ \E where : pc' = [pc EXCEPT ![u] = where]
    BY DEF LogLock, At, Goto
  <2>10. LogWalk(u) => \E where : pc' = [pc EXCEPT ![u] = where]
    BY DEF LogWalk, Goto
  <2> QED BY <2>2, <2>3, <2>4, <2>5, <2>6, <2>7, <2>8, <2>9, <2>10
<1>2. ~(m_appenders[cur[t]] = <<>> /\ m_root[cur[t]] # None /\ idx[t] >= m_level[Root])
  <2>1. ASSUME m_appenders[cur[t]] = <<>> /\ m_root[cur[t]] # None
               /\ idx[t] >= m_level[Root]
        PROVE  FALSE
    <3>1. pc' = [pc EXCEPT ![t] = "log"]
      BY <1>1, <2>1 DEF LogWalk, Goto
    <3> QED BY <1>0, <3>1 DEF TypeOK
  <2> QED BY <2>1
<1>3. idx[t] \in Nat /\ m_level[Root] \in Int
  <2>1. Root \in Names /\ Levels \subseteq Int /\ UNKNOW \in Int /\ Removed \in Int
    BY LogConfigAssumption, LevelsAre DEF UNKNOW, Removed
  <2> QED BY <1>0, <2>1 DEF TypeOK
<1>4. ASSUME cur[t] # Root PROVE idx[t] < m_level[Root]
  <2>1. m_root[cur[t]] = Root /\ Root # None
    BY <1>0, <1>4, LogConfigAssumption DEF BareInv
  <2> QED BY <1>2, <1>3, <2>1
<1> QED BY <1>0, <1>4 DEF BareInv

----------------------------------------------------------------------------
(* What is dumped reads back.                                              *)

LEMMA LevelReloads ==
  ASSUME NEW l \in {UNKNOW} \cup Levels
  PROVE  FromString(LevelText(l)) = l
<1>1. Levels = 1..5
  BY LevelsAre
<1>2. CASE l = UNKNOW
  <2>1. LevelText(l) = None
    BY <1>2 DEF LevelText
  <2>2. ~\E i \in Levels : None \in {LevelNames[i], LowerNames[i]}
    BY LogConfigAssumption, Zenon
  <2> QED BY <1>2, <2>1, <2>2 DEF FromString
<1>3. CASE l \in Levels
  <2> DEFINE s == LevelNames[l]
  <2>1. LevelText(l) = s
    BY <1>1, <1>3 DEF LevelText, ToString, UNKNOW
  <2>2. \A i \in Levels : s \in {LevelNames[i], LowerNames[i]} <=> i = l
    BY <1>1, <1>3 DEF LevelNames, LowerNames
  <2> HIDE DEF s
  <2>3. FromString(s) = l
    <3> DEFINE Is(i) == s \in {LevelNames[i], LowerNames[i]}
    <3>1. \A i \in Levels : Is(i) <=> i = l
      BY <2>2
    <3>2. FromString(s) = IF \E i \in Levels : Is(i)
                          THEN CHOOSE i \in Levels : Is(i) ELSE UNKNOW
      BY Zenon DEF FromString
    <3> HIDE DEF Is
    <3>3. \E i \in Levels : Is(i)
      BY <1>3, <3>1
    <3>4. (CHOOSE i \in Levels : Is(i)) \in Levels /\ Is(CHOOSE i \in Levels : Is(i))
      BY <3>3, Zenon
    <3> QED BY <3>1, <3>2, <3>3, <3>4
  <2> QED BY <2>1, <2>3
<1> QED BY <1>2, <1>3

(* Of a list of usable appenders none is passed over. *)
LEMMA AllKept ==
  ASSUME NEW e, NEW n \in Nat, DOMAIN e.appenders = 1..n,
         \A i \in 1..n : Usable(e.appenders[i])
  PROVE  DefineOf(e) = [name |-> e.name, level |-> FromString(e.level),
                        formatter |-> FormatterOf(e.formatter),
                        appenders |-> [k \in 1..n |-> AppenderOf(e.appenders[k])]]
<1>1. Kept(e) = 1..n
  BY DEF Kept
<1>2. Cardinality(Kept(e)) = n
  BY <1>1, FS_Interval
<1>3. \A k \in 1..n : Nth(Kept(e), k) = k
  BY <1>1, NthInterval
<1>4. [k \in 1..Cardinality(Kept(e)) |-> AppenderOf(e.appenders[Nth(Kept(e), k)])]
        = [k \in 1..n |-> AppenderOf(e.appenders[k])]
  BY <1>2, <1>3, Zenon
<1>5. DefineOf(e) = [name |-> e.name, level |-> FromString(e.level),
                     formatter |-> FormatterOf(e.formatter),
                     appenders |-> [k \in 1..Cardinality(Kept(e)) |->
                                      AppenderOf(e.appenders[Nth(Kept(e), k)])]]
  BY DEF DefineOf, Kept
<1> QED BY <1>4, <1>5

LEMMA FormatterReloads ==
  ASSUME NEW f \in Texts
  PROVE  FormatterOf(FormatterText(f)) = f /\ FormatterText(f) # Bad
BY LogConfigAssumption DEF FormatterOf, FormatterText

LEMMA LevelConverts ==
  ASSUME NEW l
  PROVE  LevelText(l) # Bad
<1>1. None # Bad /\ Bad # "UNKNOW" /\ \A i \in Levels : LevelNames[i] # Bad
  BY LogConfigAssumption, Zenon
<1> QED BY <1>1 DEF LevelText, ToString

LEMMA AppenderReloads ==
  ASSUME NEW a \in AppenderDefs
  PROVE  /\ Usable(AppenderYaml(a)) /\ AppenderOf(AppenderYaml(a)) = a
         /\ AppenderConverts(AppenderYaml(a))
<1>1. None \notin Texts /\ Bad \notin Texts /\ None # Bad
      /\ Bad \notin {"FileLogAppender", "StdoutLogAppender"}
  BY LogConfigAssumption
<1>2. /\ a = [type |-> a.type, level |-> a.level, formatter |-> a.formatter,
              file |-> a.file]
      /\ a.level = UNKNOW
      /\ \/ a.type = 1 /\ a.file \in Texts
         \/ a.type = 2 /\ a.file = Empty
      /\ a.formatter \in Texts
  BY DEF AppenderDefs
<1>3. /\ FormatterOf(FormatterText(a.formatter)) = a.formatter
      /\ FormatterText(a.formatter) # Bad
  BY <1>2, FormatterReloads
<1> QED BY <1>1, <1>2, <1>3 DEF AppenderYaml, Usable, AppenderOf, AppenderConverts

LEMMA DefineReloads ==
  ASSUME NEW d \in Defs
  PROVE  DefineOf(DefineYaml(d)) = d /\ EntryConverts(DefineYaml(d))
<1> DEFINE e == DefineYaml(d)
           n == Len(d.appenders)
<1>1. d.appenders \in Seq(AppenderDefs) /\ n \in Nat /\ DOMAIN d.appenders = 1..n
  BY DEF Defs
<1>2. \A i \in 1..n : d.appenders[i] \in AppenderDefs
  BY <1>1
<1>3. /\ e.name = d.name /\ e.level = LevelText(d.level)
      /\ e.formatter = FormatterText(d.formatter)
      /\ e.appenders = [i \in DOMAIN d.appenders |-> AppenderYaml(d.appenders[i])]
  BY DEF DefineYaml, Map
<1> HIDE DEF e, n
<1>4. /\ DOMAIN e.appenders = 1..n
      /\ \A i \in 1..n : e.appenders[i] = AppenderYaml(d.appenders[i])
  BY <1>1, <1>3
<1>5. \A i \in 1..n : /\ Usable(e.appenders[i])
                      /\ AppenderOf(e.appenders[i]) = d.appenders[i]
                      /\ AppenderConverts(e.appenders[i])
  BY <1>2, <1>4, AppenderReloads
<1>6. DefineOf(e) = [name |-> e.name, level |-> FromString(e.level),
                     formatter |-> FormatterOf(e.formatter),
                     appenders |-> [k \in 1..n |-> AppenderOf(e.appenders[k])]]
  BY <1>1, <1>4, <1>5, AllKept
<1>7. [k \in 1..n |-> AppenderOf(e.appenders[k])] = d.appenders
  BY <1>1, <1>5
<1>8. FromString(e.level) = d.level
  BY <1>3, LevelReloads DEF Defs
<1>9. d = [name |-> d.name, level |-> d.level, formatter |-> d.formatter,
           appenders |-> d.appenders]
  BY DEF Defs
<1>10. FormatterOf(e.formatter) = d.formatter /\ e.formatter # Bad
  BY <1>3, FormatterReloads DEF Defs
<1>11. DefineOf(e) = d
  BY <1>3, <1>6, <1>7, <1>8, <1>9, <1>10
<1>12. e.name # Bad /\ e.level # Bad
  BY <1>3, LevelConverts, LogConfigAssumption DEF Defs
<1>13. EntryConverts(e)
  BY <1>4, <1>5, <1>10, <1>12 DEF EntryConverts
<1> QED BY <1>11, <1>13 DEF e

(* A value has as many definitions as names. *)
LEMMA ValueSize ==
  ASSUME NEW v \in SUBSET Defs, OneEach(v)
  PROVE  /\ NamesOf(v) \in SUBSET Nat /\ IsFiniteSet(NamesOf(v))
         /\ NamesOf(v) \subseteq Names
         /\ Cardinality(v) = Cardinality(NamesOf(v))
<1> DEFINE N == NamesOf(v)
           f == [n \in N |-> Def(v, n)]
<1>1. N \subseteq Names
  BY DEF NamesOf, Defs
<1>2. N \in SUBSET Nat /\ IsFiniteSet(N)
  BY <1>1, LogConfigAssumption, FS_Subset
<1>3. \A n \in N : Def(v, n) \in v /\ Def(v, n).name = n
  BY DefIn
<1>4. \A d \in v : d.name \in N /\ Def(v, d.name) = d
  BY DefIs
<1> HIDE DEF N
<1>5. f \in Bijection(N, v)
  <2>1. f \in [N -> v] /\ \A n \in N : f[n] = Def(v, n)
    BY <1>3
  <2> HIDE DEF f
  <2>2. \A m, n \in N : f[m] = f[n] => m = n
    BY <1>3, <2>1
  <2>3. \A d \in v : \E n \in N : f[n] = d
    BY <1>4, <2>1
  <2> QED BY <2>1, <2>2, <2>3 DEF Bijection, Injection, IsInjective, Surjection
<1>6. Cardinality(v) = Cardinality(N)
  BY <1>2, <1>5, FS_Bijection DEF ExistsBijection
<1> QED BY <1>1, <1>2, <1>6 DEF N

LEMMA ValueReloads ==
  ASSUME NEW v \in SUBSET Defs, OneEach(v)
  PROVE  Parse(Dump(v)) = v
<1> DEFINE N == NamesOf(v)
           c == Cardinality(N)
           doc == Dump(v)
           First == {i \in DOMAIN doc : doc[i].name # None /\
                       \A j \in 1..(i - 1) : doc[j].name # doc[i].name}
<1>1. N \in SUBSET Nat /\ IsFiniteSet(N) /\ N \subseteq Names /\ Cardinality(v) = c
  BY ValueSize
<1>2. c \in Nat
  BY <1>1, FS_CardinalityType
<1>3. doc = [k \in 1..c |-> DefineYaml(Def(v, Nth(N, k)))]
  BY <1>1 DEF Dump
<1>4. ASSUME NEW k \in 1..c
      PROVE  /\ Nth(N, k) \in N
             /\ Def(v, Nth(N, k)) \in v /\ Def(v, Nth(N, k)).name = Nth(N, k)
  <2>1. Nth(N, k) \in N
    BY <1>1, NthIn
  <2> QED BY <2>1, DefIn
<1> HIDE DEF N, c, doc
<1>5. ASSUME NEW k \in 1..c
      PROVE  /\ doc[k] = DefineYaml(Def(v, Nth(N, k)))
             /\ doc[k].name = Nth(N, k)
             /\ DefineOf(doc[k]) = Def(v, Nth(N, k))
  <2>1. doc[k] = DefineYaml(Def(v, Nth(N, k)))
    BY <1>3
  <2>2. doc[k].name = Nth(N, k)
    BY <1>4, <2>1 DEF DefineYaml
  <2>3. DefineOf(doc[k]) = Def(v, Nth(N, k))
    BY <1>4, <2>1, DefineReloads
  <2> QED BY <2>1, <2>2, <2>3
<1>6. First = 1..c
  <2>1. DOMAIN doc = 1..c
    BY <1>3
  <2>2. ASSUME NEW k \in 1..c PROVE doc[k].name # None
    BY <1>1, <1>4, <1>5, LogConfigAssumption
  <2>3. ASSUME NEW k \in 1..c, NEW j \in 1..(k - 1)
        PROVE  doc[j].name # doc[k].name
    <3>1. j \in 1..c /\ j # k
      BY <1>2
    <3>2. Nth(N, j) # Nth(N, k)
      BY <1>1, <3>1, NthOnce DEF c
    <3> QED BY <1>5, <3>1, <3>2
  <2> QED BY <2>1, <2>2, <2>3
<1>7. Parse(doc) = {DefineOf(doc[k]) : k \in 1..c}
  <2>1. Parse(doc) = {DefineOf(doc[k]) : k \in First}
    BY DEF Parse
  <2> HIDE DEF First
  <2> QED BY <1>6, <2>1
<1>8. ASSUME NEW d \in v PROVE \E k \in 1..c : DefineOf(doc[k]) = d
  <2>1. d.name \in N /\ Def(v, d.name) = d
    BY DefIs DEF N
  <2>2. PICK k \in 1..c : Nth(N, k) = d.name
    BY <1>1, <2>1, NthOnto DEF c
  <2> QED BY <1>5, <2>1, <2>2
<1>9. Parse(doc) = v
  BY <1>4, <1>5, <1>7, <1>8
<1> QED BY <1>9 DEF doc

LEMMA DumpConverts ==
  ASSUME NEW v \in SUBSET Defs, OneEach(v)
  PROVE  Converts(Dump(v))
<1>1. /\ NamesOf(v) \in SUBSET Nat /\ IsFiniteSet(NamesOf(v))
      /\ Cardinality(v) = Cardinality(NamesOf(v))
  BY ValueSize
<1>2. ASSUME NEW k \in 1..Cardinality(v)
      PROVE  Def(v, Nth(NamesOf(v), k)) \in Defs
  BY <1>1, NthIn, DefIn
<1> QED BY <1>2, DefineReloads DEF Converts, Dump

(* What the manager writes of a configured logger configures it as it is. *)
LEMMA LoggerReloads ==
  ASSUME TypeOK, NEW e \in Defs, Configured(e)
  PROVE  LET d == DefineOf(LoggerYaml(e.name))
         IN  d.name = e.name /\ Configured(d)
<1> DEFINE l == e.name
           list == m_appenders[l]
           n == Len(list)
           y == LoggerYaml(l)
           d == DefineOf(y)
<1>1. /\ l \in made /\ m_level[l] = e.level /\ n = Len(e.appenders)
      /\ list \in Seq(Appenders) /\ n \in Nat /\ DOMAIN list = 1..n
      /\ m_formatter[l] \in ValidPatterns /\ e.appenders \in Seq(AppenderDefs)
  <2>1. l \in made /\ m_level[l] = e.level /\ n = Len(e.appenders)
    BY DEF Configured
  <2>2. l \in Names
    BY DEF Defs
  <2>3. list \in Seq(Appenders) /\ m_formatter[l] \in ValidPatterns
    BY <2>2 DEF TypeOK
  <2>4. e.appenders \in Seq(AppenderDefs)
    BY DEF Defs
  <2>5. n \in Nat /\ DOMAIN list = 1..n
    BY <2>3
  <2> QED BY <2>1, <2>3, <2>4, <2>5
<1>2. ASSUME NEW i \in 1..n
      PROVE  /\ list[i] \in Appenders /\ list[i].level = UNKNOW
             /\ \/ list[i].type = 1 /\ list[i].file \in Texts
                \/ list[i].type = 2 /\ list[i].file = Empty
             /\ ~list[i].has => list[i].formatter = m_formatter[l]
  <2>1. list[i] \in Appenders /\ e.appenders[i] \in AppenderDefs
    BY <1>1
  <2>2. /\ list[i].type = e.appenders[i].type
        /\ list[i].file = e.appenders[i].file
        /\ list[i].level = e.appenders[i].level
        /\ ~list[i].has => list[i].formatter = m_formatter[l]
    BY <1>1 DEF Configured
  <2> QED BY <2>1, <2>2 DEF AppenderDefs
<1>3. /\ y.name = l /\ y.level = LevelText(m_level[l])
      /\ FormatterOf(y.formatter) = m_formatter[l]
      /\ y.appenders = [i \in DOMAIN list |-> OwnYaml(list[i])]
  <2>1. m_formatter[l] # None
    BY <1>1, LogConfigAssumption
  <2> QED BY <2>1 DEF LoggerYaml, Map, FormatterOf
<1> HIDE DEF l, list, n, y
<1>4. /\ DOMAIN y.appenders = 1..n
      /\ \A i \in 1..n : y.appenders[i] = OwnYaml(list[i])
  BY <1>1, <1>3
<1>5. ASSUME NEW i \in 1..n
      PROVE  /\ Usable(y.appenders[i])
             /\ AppenderOf(y.appenders[i]) =
                  [type |-> list[i].type, level |-> UNKNOW,
                   formatter |-> IF list[i].has THEN list[i].formatter ELSE Empty,
                   file |-> list[i].file]
  <2> DEFINE a == list[i]
             own == IF a.has THEN a.formatter ELSE Empty
  <2>1. None \notin Texts
    BY LogConfigAssumption
  <2>2. OwnYaml(a) = AppenderYaml([a EXCEPT !.formatter = own])
    BY DEF OwnYaml
  <2>3. /\ a \in Appenders
        /\ \/ a.type = 1 /\ a.file \in Texts
           \/ a.type = 2 /\ a.file = Empty
    BY <1>2
  <2> HIDE DEF a, own
  <2>4. /\ [a EXCEPT !.formatter = own].type = a.type
        /\ [a EXCEPT !.formatter = own].file = a.file
        /\ [a EXCEPT !.formatter = own].formatter = own
    BY <2>3 DEF Appenders
  <2>5. /\ OwnYaml(a).type = IF a.type = 1 THEN "FileLogAppender"
                             ELSE "StdoutLogAppender"
        /\ OwnYaml(a).file = (IF a.type = 1 THEN a.file ELSE None)
        /\ OwnYaml(a).formatter = FormatterText(own)
    BY <2>2, <2>4 DEF AppenderYaml
  <2>7. own \in Texts
    BY <1>2, LogConfigAssumption DEF own, a, Appenders
  <2>8. FormatterOf(OwnYaml(a).formatter) = own
    BY <2>5, <2>7, FormatterReloads
  <2>6. /\ Usable(OwnYaml(a))
        /\ AppenderOf(OwnYaml(a)) = [type |-> a.type, level |-> UNKNOW,
                                     formatter |-> own, file |-> a.file]
    BY <2>1, <2>3, <2>5, <2>8 DEF Usable, AppenderOf
  <2> QED BY <1>4, <2>6 DEF a, own
<1>6. d = [name |-> y.name, level |-> FromString(y.level),
           formatter |-> FormatterOf(y.formatter),
           appenders |-> [k \in 1..n |-> AppenderOf(y.appenders[k])]]
  BY <1>1, <1>4, <1>5, AllKept
<1>7. FromString(y.level) = m_level[l]
  BY <1>1, <1>3, LevelReloads DEF Defs, l
<1>8. /\ d.name = l /\ d.level = m_level[l] /\ d.formatter = m_formatter[l]
      /\ d.appenders = [k \in 1..n |-> AppenderOf(y.appenders[k])]
  BY <1>3, <1>6, <1>7
<1> HIDE DEF d
<1>9. Len(d.appenders) = n /\ \A i \in 1..n : d.appenders[i] = AppenderOf(y.appenders[i])
  BY <1>1, <1>8
<1>10. ASSUME NEW i \in 1..n, NEW a, a = d.appenders[i]
       PROVE  /\ list[i].type = a.type /\ list[i].file = a.file
              /\ list[i].level = a.level
              /\ list[i].has = (a.formatter \in ValidPatterns)
              /\ list[i].formatter = IF list[i].has THEN a.formatter
                                     ELSE m_formatter[l]
  <2>1. /\ a.type = list[i].type /\ a.level = UNKNOW /\ a.file = list[i].file
        /\ a.formatter = IF list[i].has THEN list[i].formatter ELSE Empty
    <3> DEFINE own == IF list[i].has THEN list[i].formatter ELSE Empty
    <3>1. a = AppenderOf(y.appenders[i])
      BY <1>9, <1>10
    <3>2. a = [type |-> list[i].type, level |-> UNKNOW, formatter |-> own,
               file |-> list[i].file]
      BY <1>5, <3>1
    <3> HIDE DEF own
    <3>3. /\ a.type = list[i].type /\ a.level = UNKNOW /\ a.file = list[i].file
          /\ a.formatter = own
      BY <3>2
    <3> QED BY <3>3 DEF own
  <2>2. list[i].has \in BOOLEAN /\ list[i].formatter \in ValidPatterns
    BY <1>2 DEF Appenders
  <2>3. Empty \notin ValidPatterns
    BY LogConfigAssumption
  <2>4. list[i].has <=> a.formatter \in ValidPatterns
    BY <2>1, <2>2, <2>3
  <2>5. list[i].has = (a.formatter \in ValidPatterns)
    <3>1. PICK h \in BOOLEAN : h = list[i].has
      BY <2>2
    <3>2. h <=> a.formatter \in ValidPatterns
      BY <2>4, <3>1
    <3>3. h = (a.formatter \in ValidPatterns)
      BY <3>2, Zenon
    <3> QED BY <3>1, <3>3, Zenon
  <2>6. list[i].formatter = IF list[i].has THEN a.formatter ELSE m_formatter[l]
    BY <1>2, <2>1
  <2> QED BY <1>2, <2>1, <2>5, <2>6
<1>11. Configured(d)
  <2> DEFINE own == m_appenders[d.name]
             f == m_formatter[d.name]
  <2>1. own = list /\ f = m_formatter[l]
    BY <1>8 DEF list
  <2> HIDE DEF own, f
  <2>2. ASSUME NEW i \in DOMAIN own, NEW a, a = d.appenders[i]
        PROVE  /\ <<own[i].type, own[i].file, own[i].level>>
                    = <<a.type, a.file, a.level>>
               /\ own[i].has = (a.formatter \in ValidPatterns)
               /\ own[i].formatter = IF own[i].has THEN a.formatter ELSE f
    <3>1. i \in 1..n
      BY <1>1, <2>1
    <3> QED BY <1>10, <2>1, <2>2, <3>1, Zenon
  <2>3. Len(own) = Len(d.appenders)
    BY <1>9, <2>1 DEF n
  <2>4. d.formatter \in ValidPatterns => f = d.formatter
    BY <1>1, <1>8, <2>1
  <2>5. d.name \in made /\ m_level[d.name] = d.level
    BY <1>1, <1>8
  <2> QED BY <2>2, <2>3, <2>4, <2>5, Zenon DEF Configured, own, f
<1> QED BY <1>8, <1>11 DEF d, y, l

LEMMA ManagerReloads ==
  ASSUME TypeOK, OneEach(m_val), \A e \in m_val : Configured(e),
         NEW d \in Parse(ManagerYaml), d.name \in NamesOf(m_val)
  PROVE  Configured(d)
<1>1. made \in SUBSET Nat /\ IsFiniteSet(made) /\ m_val \subseteq Defs
  BY LogConfigAssumption, FS_Subset DEF TypeOK
<1>2. PICK k \in 1..Cardinality(made) : d = DefineOf(ManagerYaml[k])
  BY DEF Parse, ManagerYaml
<1>3. PICK l : l = Nth(made, k)
  OBVIOUS
<1>4. d = DefineOf(LoggerYaml(l))
  BY <1>2, <1>3 DEF ManagerYaml
<1>5. d.name = l
  BY <1>4 DEF DefineOf, LoggerYaml
<1>6. PICK e \in m_val : e.name = l
  BY <1>5 DEF NamesOf
<1> QED BY <1>1, <1>4, <1>6, LoggerReloads

(* What the manager writes converts, whatever the loggers are. *)
LEMMA ManagerConverts ==
  ASSUME TypeOK
  PROVE  Converts(ManagerYaml)
<1>1. made \in SUBSET Nat /\ IsFiniteSet(made) /\ made \subseteq Names
  BY LogConfigAssumption, FS_Subset DEF TypeOK
<1>2. ASSUME NEW l \in Names PROVE EntryConverts(LoggerYaml(l))
  <2> DEFINE y == LoggerYaml(l)
             list == m_appenders[l]
  <2>1. /\ y.name = l /\ y.level = LevelText(m_level[l])
        /\ y.formatter = m_formatter[l]
        /\ y.appenders = [i \in DOMAIN list |-> OwnYaml(list[i])]
    BY DEF LoggerYaml, Map
  <2>2. list \in Seq(Appenders) /\ m_formatter[l] \in ValidPatterns
    BY DEF TypeOK
  <2> HIDE DEF y, list
  <2>3. Bad \notin {y.name, y.level, y.formatter}
    BY <2>1, <2>2, LevelConverts, LogConfigAssumption
  <2>4. ASSUME NEW a \in Appenders PROVE AppenderConverts(OwnYaml(a))
    <3> DEFINE own == IF a.has THEN a.formatter ELSE Empty
               o == [a EXCEPT !.formatter = own]
    <3>1. own \in Texts
      BY LogConfigAssumption DEF Appenders
    <3> HIDE DEF own
    <3>2. o.type = a.type /\ o.file = a.file /\ o.formatter = own /\ a.file \in Texts
      BY DEF Appenders
    <3>3. OwnYaml(a) = AppenderYaml(o)
      BY DEF OwnYaml, own
    <3> HIDE DEF o
    <3>4. /\ OwnYaml(a).type \in {"FileLogAppender", "StdoutLogAppender"}
          /\ OwnYaml(a).file \in Texts \cup {None}
          /\ OwnYaml(a).formatter = FormatterText(own)
      BY <3>2, <3>3 DEF AppenderYaml
    <3>5. FormatterText(own) # Bad
      BY <3>1, FormatterReloads
    <3> QED BY <3>4, <3>5, LogConfigAssumption DEF AppenderConverts
  <2>5. \A i \in DOMAIN y.appenders : AppenderConverts(y.appenders[i])
    BY <2>1, <2>2, <2>4
  <2>6. EntryConverts(y)
    BY <2>3, <2>5 DEF EntryConverts
  <2> QED BY <2>6 DEF y
<1>3. ASSUME NEW k \in 1..Cardinality(made) PROVE Nth(made, k) \in Names
  BY <1>1, NthIn
<1> QED BY <1>2, <1>3 DEF Converts, ManagerYaml

----------------------------------------------------------------------------
(* Theorems.                                                               *)

(* The invariant of the loads and that of the events hold throughout. *)
THEOREM Invariant ==
  ASSUME Contract = Clauses
  PROVE  Spec => [](IInv /\ BareInv)
<1>1. Init => IInv /\ BareInv
  BY InitInv, InitBare
<1>2. IInv /\ BareInv /\ [Next]_vars => IInv' /\ BareInv'
  BY NextInv, NextBare
<1> QED BY <1>1, <1>2, PTL DEF Spec

(* Every variable keeps its type: what a document says is a set of well formed
   definitions (log.cc:249), whatever the document leaves out or repeats, and
   the loggers get nothing else. *)
THEOREM TypeCorrect ==
  ASSUME Contract = Clauses
  PROVE  Spec => []TypeOK
<1>1. IInv => TypeOK
  BY DEF IInv
<1> QED BY <1>1, Invariant, PTL

(* Whatever was loaded before, when no load is under way each logger that the
   value of `logs' names has the level, the formatter and the appenders it
   says, and any other is silent or as it was made (log.cc:358-418). *)
THEOREM LoggersFollow ==
  ASSUME Contract = Clauses
  PROVE  Spec => []Applied
<1>1. IInv => Applied
  BY DEF IInv, AppliedNow, Settled, Silent, Applied, Quiet
<1> QED BY <1>1, Invariant, PTL

(* For any documents and threads, an event that its logger admitted is written
   nowhere only if it came upon a logger that was being rebuilt, or that the
   value gives no appenders, and that was the root or one whose event the
   root's level refuses (log.cc:484-499). *)
THEOREM NoOtherEventLost ==
  ASSUME Contract = Clauses
  PROVE  Spec => OnlyBareLose
<1> DEFINE Loss == \A t \in Threads :
       pc[t] = "walk" /\ pc'[t] = "idle" /\ m_appenders[cur[t]] = <<>> =>
         /\ MayBeBare(cur[t])
         /\ cur[t] # Root => idx[t] < m_level[Root]
<1>1. IInv /\ BareInv /\ [Next]_vars => [Loss]_vars
  BY WalkEnds
<1> QED BY <1>1, Invariant, PTL DEF Spec, OnlyBareLose

(* Between loads, what toString() writes of `logs' (log.cc:309) is read back as
   the same value (log.cc:249), and what the manager writes of the loggers it
   names is read as definitions that those loggers already fulfil. *)
THEOREM DumpIsFaithful ==
  ASSUME Contract = Clauses
  PROVE  Spec => []DumpReloads
<1>1. IInv => DumpReloads
  <2>1. SUFFICES ASSUME IInv, Quiet
                 PROVE  /\ Converts(Dump(m_val)) /\ Parse(Dump(m_val)) = m_val
                        /\ Converts(ManagerYaml)
                        /\ \A d \in Parse(ManagerYaml) :
                             d.name \in NamesOf(m_val) => Configured(d)
    BY DEF DumpReloads
  <2>2. /\ TypeOK /\ OneEach(m_val) /\ m_val \in SUBSET Defs
        /\ \A e \in m_val : Configured(e)
    BY <2>1 DEF IInv, MadeInv, AppliedNow, Quiet, TypeOK
  <2>3. Parse(Dump(m_val)) = m_val
    BY <2>2, ValueReloads
  <2>4. Converts(Dump(m_val)) /\ Converts(ManagerYaml)
    BY <2>2, DumpConverts, ManagerConverts
  <2> QED BY <2>2, <2>3, <2>4, ManagerReloads
<1> QED BY <1>1, Invariant, PTL

=============================================================================
