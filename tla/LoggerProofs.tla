---------------------------- MODULE LoggerProofs ----------------------------
(***************************************************************************)
(* Formatters of loggers and appenders, for any number of threads, loggers *)
(* and appenders, under the contract.  That an event always finds a        *)
(* formatter is not inductive: it rests on the logger's formatter being    *)
(* handed to every appender that has none, which addAppender does in two   *)
(* critical sections of the appender's lock, and on an appender being in   *)
(* one list only.                                                          *)
(*                                                                         *)
(* That an event is written once and in order needs more: which locks the  *)
(* thread in log() holds, how far it has come in the list, and that the    *)
(* list and the levels stay as they are until it is through.               *)
(*                                                                         *)
(* The last part is about LogFormatter, which parses the formatters, for   *)
(* patterns of any length over any characters.                             *)
(***************************************************************************)
EXTENDS Logger, LogFormatter, SequenceTheorems, WellFoundedInduction, TLAPS

AddPC == {"add", "push"}
LogPC == {"event", "log", "iter"}

(* TypeOK, without the bookkeeping of toYamlString(): loggers and appenders,
   and the calls. *)
ObjType ==
  /\ made \subseteq Loggers /\ Root \in made
  /\ m_root \in [Loggers -> {Root, Null}]
  /\ m_level \in [Objects -> Levels]
  /\ m_appenders \in [Loggers -> Seq(Appenders)]
  /\ m_formatter \in [Objects -> Formats \cup {Null}]
  /\ \A l \in made : m_formatter[l] # Null
  /\ m_hasFormatter \in [Appenders -> BOOLEAN]
  /\ own \in [Appenders -> Formats \cup {Null}]

CallType ==
  /\ lock \in [Loggers -> Threads \cup {Null}]
  /\ pc \in [Threads -> {"idle", "event", "log", "iter", "done", "add",
                         "push", "dump", "dump_logger"}]
  /\ call \in [Threads -> [logger : Loggers \cup {Null},
                           what : Levels \cup Appenders \cup {Null}]]
  /\ at \in [Threads -> Loggers \cup {Null}]
  /\ idx \in [Threads -> Nat]
  /\ wrote \in [Threads -> Seq(Appenders)]
  /\ ops \in 0..MaxOps

(* Lists belong to loggers that exist, and do not share appenders. *)
ListInv ==
  /\ \A l \in Loggers \ made : Range(m_appenders[l]) = {}
  /\ \A l, k \in Loggers :
       l # k => Range(m_appenders[l]) \cap Range(m_appenders[k]) = {}

(* An appender's own formatter is one, and is the one it has. *)
OwnInv ==
  \A a \in Appenders :
    m_hasFormatter[a] => m_formatter[a] = own[a] /\ own[a] # Null

(* A thread in addAppender: its appender is in no list, and what the thread
   has found out about its formatter is still so. *)
AddInv(t) ==
  pc[t] \in AddPC =>
    /\ at[t] \in made /\ call[t].what \in Appenders
    /\ \A l \in Loggers : call[t].what \notin Range(m_appenders[l])
    /\ m_hasFormatter[call[t].what] \/ m_formatter[call[t].what] = Null
    /\ pc[t] = "push" => (idx[t] = 0 <=> m_formatter[call[t].what] = Null)

(* A thread in log(). *)
LogInv(t) ==
  pc[t] \in LogPC =>
    at[t] \in made /\ call[t].what \in Levels /\ idx[t] \in Nat \ {0}

(* Two threads add two appenders. *)
OneAdder ==
  \A t, u \in Threads : t # u /\ pc[t] \in AddPC /\ pc[u] \in AddPC =>
    call[t].what # call[u].what

IInv ==
  /\ ObjType /\ CallType
  /\ NothingBad
  /\ ListInv /\ OwnInv /\ FormattersFollow
  /\ OneAdder
  /\ \A t \in Threads : AddInv(t) /\ LogInv(t)

(* A thread with an event: what it has written so far, and the locks that
   keep the lists it has looked at. *)
WalkInv(t) ==
  /\ pc[t] = "push" => lock[at[t]] = t
  /\ pc[t] = "dump_logger" => at[t] \in made /\ lock[at[t]] = t
  /\ Logging(t) => at[t] \in made /\ call[t].logger \in made
  /\ pc[t] = "event" => at[t] = call[t].logger
  /\ pc[t] \in {"event", "log"} => idx[t] = 1 /\ wrote[t] = <<>>
  /\ Logging(t) /\ at[t] # call[t].logger =>
       /\ at[t] = Root
       /\ m_appenders[call[t].logger] = <<>> /\ lock[call[t].logger] = t
  /\ pc[t] = "iter" =>
       /\ lock[at[t]] = t /\ idx[t] <= Len(m_appenders[at[t]]) + 1
       /\ InOrder(wrote[t], m_appenders[at[t]],
                  Admitting(at[t], call[t].what, idx[t] - 1))
  /\ pc[t] = "done" =>
       /\ lock[at[t]] = t
       /\ InOrder(wrote[t], m_appenders[at[t]],
                  Admitting(at[t], call[t].what, Len(m_appenders[at[t]])))
       /\ at[t] = call[t].logger /\ m_appenders[at[t]] = <<>> =>
            m_root[at[t]] = Null \/ call[t].what < m_level[Root]

(* No list has an appender twice. *)
NoRepeat ==
  \A l \in Loggers : \A h, j \in DOMAIN m_appenders[l] :
    m_appenders[l][h] = m_appenders[l][j] => h = j

WInv ==
  /\ m_root[Root] = Null
  /\ NoRepeat
  /\ \A t \in Threads : WalkInv(t)

----------------------------------------------------------------------------
(* Lists: what an appender is added to, and taken from. *)
LEMMA RangeAppend ==
  ASSUME NEW S, NEW s \in Seq(S), NEW a \in S
  PROVE  Append(s, a) \in Seq(S) /\ Range(Append(s, a)) = Range(s) \cup {a}
<1>1. /\ Append(s, a) \in Seq(S) /\ Len(s) \in Nat
      /\ Len(Append(s, a)) = Len(s) + 1
      /\ \A h \in 1..Len(s) : Append(s, a)[h] = s[h]
      /\ Append(s, a)[Len(s) + 1] = a
      /\ DOMAIN s = 1..Len(s) /\ DOMAIN Append(s, a) = 1..(Len(s) + 1)
  OBVIOUS
<1>2. /\ \A h \in 1..(Len(s) + 1) : h \in 1..Len(s) \/ h = Len(s) + 1
      /\ \A h \in 1..Len(s) : h \in 1..(Len(s) + 1)
      /\ Len(s) + 1 \in 1..(Len(s) + 1)
  BY <1>1
<1> QED BY <1>1, <1>2, Zenon DEF Range

LEMMA DelElements ==
  ASSUME NEW S, NEW s \in Seq(S), NEW h \in DOMAIN s
  PROVE  LET d == SubSeq(s, 1, h - 1) \o SubSeq(s, h + 1, Len(s))
         IN  /\ d \in Seq(S) /\ DOMAIN d = 1..(Len(s) - 1)
             /\ \A j \in 1..(Len(s) - 1) :
                  d[j] = s[IF j <= h - 1 THEN j ELSE j + 1]
<1> DEFINE p == SubSeq(s, 1, h - 1)
           q == SubSeq(s, h + 1, Len(s))
<1>1. h \in 1..Len(s) /\ Len(s) \in Nat
  OBVIOUS
<1>2. /\ p \in Seq(S) /\ Len(p) = h - 1
      /\ \A j \in 1..(h - 1) : p[j] = s[j]
  BY <1>1
<1>3. /\ q \in Seq(S) /\ Len(q) = Len(s) - h
      /\ \A j \in 1..(Len(s) - h) : q[j] = s[j + h]
  BY <1>1
<1> HIDE DEF p, q
<1>4. /\ p \o q \in Seq(S) /\ DOMAIN (p \o q) = 1..(Len(p) + Len(q))
      /\ \A j \in 1..(Len(p) + Len(q)) :
           (p \o q)[j] = IF j <= Len(p) THEN p[j] ELSE q[j - Len(p)]
  BY <1>2, <1>3
<1>5. Len(p) + Len(q) = Len(s) - 1
  BY <1>1, <1>2, <1>3
<1>6. ASSUME NEW j \in 1..(Len(s) - 1)
      PROVE  (p \o q)[j] = s[IF j <= h - 1 THEN j ELSE j + 1]
  <2>1. CASE j <= h - 1
    BY <1>1, <1>2, <1>4, <1>5, <2>1
  <2>2. CASE ~(j <= h - 1)
    <3>1. j - (h - 1) \in 1..(Len(s) - h) /\ j - (h - 1) + h = j + 1
      BY <1>1, <2>2
    <3> QED BY <1>1, <1>2, <1>3, <1>4, <1>5, <2>2, <3>1
  <2> QED BY <2>1, <2>2
<1> QED BY <1>4, <1>5, <1>6 DEF p, q

LEMMA RangeDel ==
  ASSUME NEW S, NEW s \in Seq(S), NEW h \in DOMAIN s
  PROVE  LET d == SubSeq(s, 1, h - 1) \o SubSeq(s, h + 1, Len(s))
         IN  d \in Seq(S) /\ Range(d) \subseteq Range(s)
<1> DEFINE d == SubSeq(s, 1, h - 1) \o SubSeq(s, h + 1, Len(s))
<1>1. /\ d \in Seq(S) /\ DOMAIN d = 1..(Len(s) - 1)
      /\ \A j \in 1..(Len(s) - 1) : d[j] = s[IF j <= h - 1 THEN j ELSE j + 1]
  BY DelElements
<1> HIDE DEF d
<1>2. \A j \in 1..(Len(s) - 1) :
        (IF j <= h - 1 THEN j ELSE j + 1) \in DOMAIN s
  OBVIOUS
<1>3. Range(d) \subseteq Range(s)
  BY <1>1, <1>2, Zenon DEF Range
<1> QED BY <1>1, <1>3 DEF d

LEMMA AppendNoRepeat ==
  ASSUME NEW S, NEW s \in Seq(S), NEW a \in S, a \notin Range(s),
         \A h, j \in DOMAIN s : s[h] = s[j] => h = j
  PROVE  \A h, j \in DOMAIN Append(s, a) : Append(s, a)[h] = Append(s, a)[j] => h = j
<1>1. /\ Len(s) \in Nat /\ DOMAIN s = 1..Len(s)
      /\ DOMAIN Append(s, a) = 1..(Len(s) + 1)
      /\ \A h \in 1..Len(s) : Append(s, a)[h] = s[h]
      /\ Append(s, a)[Len(s) + 1] = a
  OBVIOUS
<1>2. \A h \in 1..(Len(s) + 1) : h \in 1..Len(s) \/ h = Len(s) + 1
  BY <1>1
<1>3. \A h \in 1..Len(s) : s[h] # a
  BY <1>1 DEF Range
<1> QED BY <1>1, <1>2, <1>3, Zenon

LEMMA DelNoRepeat ==
  ASSUME NEW S, NEW s \in Seq(S), NEW h \in DOMAIN s,
         \A j, k \in DOMAIN s : s[j] = s[k] => j = k
  PROVE  LET d == SubSeq(s, 1, h - 1) \o SubSeq(s, h + 1, Len(s))
         IN  \A j, k \in DOMAIN d : d[j] = d[k] => j = k
<1> DEFINE d == SubSeq(s, 1, h - 1) \o SubSeq(s, h + 1, Len(s))
           From(j) == IF j <= h - 1 THEN j ELSE j + 1
<1>1. h \in 1..Len(s) /\ Len(s) \in Nat /\ DOMAIN s = 1..Len(s)
  OBVIOUS
<1>2. DOMAIN d = 1..(Len(s) - 1) /\ \A j \in 1..(Len(s) - 1) : d[j] = s[From(j)]
  BY DelElements
<1> HIDE DEF d
<1>3. /\ \A j \in 1..(Len(s) - 1) : From(j) \in DOMAIN s
      /\ \A j, k \in 1..(Len(s) - 1) : From(j) = From(k) => j = k
  BY <1>1
<1> HIDE DEF From
<1>4. \A j, k \in DOMAIN d : d[j] = d[k] => j = k
  BY <1>2, <1>3, Zenon
<1> QED BY <1>4 DEF d

----------------------------------------------------------------------------
LEMMA InvType == ASSUME IInv PROVE ObjType /\ CallType /\ bad = "no"
BY DEF IInv, NothingBad

Still(u) == /\ pc'[u] = pc[u] /\ call'[u] = call[u]
            /\ at'[u] = at[u] /\ idx'[u] = idx[u] /\ wrote'[u] = wrote[u]

(* A step of thread t leaves the other threads where they are. *)
Others(t) == \A u \in Threads : u # t => Still(u)

(* The step leaves what another thread has found out while adding. *)
Spares(u) ==
  pc[u] \in AddPC =>
    /\ \A l \in Loggers : call[u].what \notin Range(m_appenders'[l])
    /\ m_hasFormatter'[call[u].what] = m_hasFormatter[call[u].what]
    /\ m_formatter'[call[u].what] = m_formatter[call[u].what]

LEMMA CallFrame ==
  ASSUME NEW u \in Threads, AddInv(u), LogInv(u), Still(u), Spares(u),
         made \subseteq made'
  PROVE  AddInv(u)' /\ LogInv(u)'
<1>1. AddInv(u)'
  BY DEF AddInv, Still, Spares
<1>2. LogInv(u)'
  BY DEF LogInv, Still
<1> QED BY <1>1, <1>2

(* A call that is one step. *)
LEMMA AtOnceInv ==
  ASSUME IInv, AtOnce, NEW t \in Threads, Idle(t),
         ObjType', bad' = "no", made \subseteq made',
         ListInv', OwnInv', FormattersFollow',
         \A u \in Threads : Spares(u)
  PROVE  IInv'
<1>1. UNCHANGED <<lock, pc, call, at, idx, wrote>> /\ ops' = ops + 1
  BY DEF AtOnce
<1>2. ops' \in 0..MaxOps
  BY <1>1, InvType, LoggerAssumption DEF CallType, Idle
<1>3. CallType'
  BY <1>1, <1>2, InvType DEF CallType
<1>4. OneAdder'
  BY <1>1 DEF IInv, OneAdder
<1>5. \A u \in Threads : AddInv(u)' /\ LogInv(u)'
  BY <1>1, CallFrame DEF IInv, Still
<1> QED BY <1>3, <1>4, <1>5 DEF IInv, NothingBad

(* A step inside a call that leaves loggers and appenders alone. *)
LEMMA MoveInv ==
  ASSUME IInv, NEW t \in Threads, Others(t), UNCHANGED objs, bad' = "no",
         CallType', AddInv(t)', LogInv(t)',
         \A u \in Threads : u # t /\ pc'[t] \in AddPC /\ pc[u] \in AddPC =>
           call'[t].what # call[u].what
  PROVE  IInv'
<1>1. UNCHANGED <<made, m_appenders, m_formatter, m_hasFormatter, own>>
  BY DEF objs
<1>2. ObjType'
  BY InvType DEF ObjType, objs
<1>3. ListInv' /\ OwnInv' /\ FormattersFollow'
  BY <1>1 DEF IInv, ListInv, OwnInv, FormattersFollow
<1>4. OneAdder'
  BY DEF IInv, OneAdder, Others, Still
<1>5. \A u \in Threads : Spares(u)
  BY <1>1 DEF Spares, IInv, AddInv
<1>6. \A u \in Threads : AddInv(u)' /\ LogInv(u)'
  BY <1>1, <1>5, CallFrame DEF IInv, Others
<1> QED BY <1>2, <1>3, <1>4, <1>6 DEF IInv, NothingBad

LEMMA BeginMoves ==
  ASSUME IInv, NEW t \in Threads, NEW where \in {"event", "add", "dump"},
         NEW l \in Loggers \cup {Null},
         NEW what \in Levels \cup Appenders \cup {Null},
         Idle(t), Begin(t, where, l, what), UNCHANGED lock
  PROVE  /\ Others(t) /\ CallType'
         /\ pc'[t] = where /\ call'[t].what = what
         /\ at'[t] = l /\ idx'[t] = 1
<1>1. /\ pc' = [pc EXCEPT ![t] = where]
      /\ call' = [call EXCEPT ![t] = [logger |-> l, what |-> what]]
      /\ at' = [at EXCEPT ![t] = l]
      /\ idx' = [idx EXCEPT ![t] = 1]
      /\ wrote' = [wrote EXCEPT ![t] = <<>>]
      /\ ops' = ops + 1
  BY DEF Begin
<1>2. CallType
  BY InvType
<1>3. ops' \in 0..MaxOps
  BY <1>1, <1>2, LoggerAssumption DEF CallType, Idle
<1>4. CallType'
  BY <1>1, <1>2, <1>3 DEF CallType
<1> QED BY <1>1, <1>2, <1>4 DEF CallType, Others, Still

LEMMA ReturnMoves ==
  ASSUME IInv, NEW t \in Threads, Return(t)
  PROVE  /\ Others(t) /\ CallType' /\ pc'[t] = "idle"
         /\ AddInv(t)' /\ LogInv(t)'
<1>1. /\ pc' = [pc EXCEPT ![t] = "idle"]
      /\ call' = [call EXCEPT ![t] = NoCall]
      /\ at' = [at EXCEPT ![t] = Null]
      /\ idx' = [idx EXCEPT ![t] = 0]
      /\ wrote' = [wrote EXCEPT ![t] = <<>>]
      /\ lock' = [l \in Loggers |-> IF lock[l] = t THEN Null ELSE lock[l]]
      /\ ops' = ops
  BY DEF Return
<1>2. CallType
  BY InvType
<1>3. CallType'
  BY <1>1, <1>2 DEF CallType, NoCall
<1>4. Others(t) /\ pc'[t] = "idle"
  BY <1>1, <1>2 DEF CallType, Others, Still
<1> QED BY <1>3, <1>4 DEF AddInv, LogInv, AddPC, LogPC

----------------------------------------------------------------------------
LEMMA InitInv == ASSUME Init PROVE IInv
<1>1. ObjType
  <2>1. <<Stdout>> \in Seq(Appenders) /\ <<>> \in Seq(Appenders)
    BY LoggerAssumption
  <2>2. m_appenders \in [Loggers -> Seq(Appenders)]
    BY <2>1 DEF Init
  <2>3. 1 \in Levels
    BY LoggerAssumption DEF Levels
  <2> QED BY <2>2, <2>3, LoggerAssumption DEF Init, ObjType, Objects
<1>2. CallType /\ bad = "no"
  BY LoggerAssumption DEF Init, CallType, NoCall
<1>3. \A l \in Loggers : Range(m_appenders[l]) = IF l = Root THEN {Stdout} ELSE {}
  BY DEF Init, Range
<1>4. ListInv
  BY <1>3 DEF Init, ListInv
<1>5. OwnInv
  BY DEF Init, OwnInv
<1>6. FormattersFollow
  BY <1>3, LoggerAssumption DEF Init, FormattersFollow, Objects
<1>7. OneAdder /\ \A t \in Threads : AddInv(t) /\ LogInv(t)
  BY DEF Init, OneAdder, AddInv, LogInv, AddPC, LogPC
<1> QED BY <1>1, <1>2, <1>4, <1>5, <1>6, <1>7 DEF IInv, NothingBad

----------------------------------------------------------------------------
(* A logger comes into being: no list and no appender is concerned. *)
LEMMA NewLoggerInv ==
  ASSUME IInv, NEW t \in Threads, NEW l \in Loggers, NEW root \in {Root, Null},
         Idle(t), l \notin made, NewLogger(l, root), AtOnce, UNCHANGED bad
  PROVE  IInv'
<1>1. /\ made' = made \cup {l}
      /\ m_root' = [m_root EXCEPT ![l] = root]
      /\ m_formatter' = [m_formatter EXCEPT ![l] = Pattern]
      /\ UNCHANGED <<m_level, m_appenders, m_hasFormatter, own>>
  BY DEF NewLogger
<1>2. ObjType /\ bad = "no"
  BY InvType
<1>3. /\ m_formatter'[l] = Pattern
      /\ \A o \in Objects : o # l => m_formatter'[o] = m_formatter[o]
  BY <1>1, <1>2 DEF ObjType, Objects
<1>4. ObjType'
  BY <1>1, <1>2, <1>3, LoggerAssumption DEF ObjType, Objects
<1>5. \A a \in Appenders : a \in Objects /\ a # l
  BY LoggerAssumption DEF Objects
<1>6. ListInv' /\ OwnInv'
  BY <1>1, <1>3, <1>5 DEF IInv, ListInv, OwnInv
<1>7. \A k \in Loggers : Range(m_appenders[k]) \subseteq Appenders
  BY <1>2 DEF ObjType, Range
<1>8. FormattersFollow'
  <2> SUFFICES ASSUME NEW k \in Loggers, NEW a \in Range(m_appenders[k]),
                      ~m_hasFormatter[a]
               PROVE  m_formatter'[a] = m_formatter'[k]
    BY <1>1 DEF FormattersFollow
  <2>1. k # l /\ k \in Objects
    BY DEF IInv, ListInv, Objects
  <2> QED BY <1>3, <1>5, <1>7, <2>1 DEF IInv, FormattersFollow
<1>9. ASSUME NEW u \in Threads PROVE Spares(u)
  BY <1>1, <1>3, <1>5 DEF Spares, IInv, AddInv
<1> QED BY <1>1, <1>2, <1>4, <1>6, <1>8, <1>9, AtOnceInv

(* A list loses appenders. *)
LEMMA ShrinkInv ==
  ASSUME IInv, AtOnce, NEW t \in Threads, Idle(t), bad' = "no",
         UNCHANGED <<made, m_root, m_level, m_formatter, m_hasFormatter, own>>,
         m_appenders' \in [Loggers -> Seq(Appenders)],
         \A l \in Loggers : Range(m_appenders'[l]) \subseteq Range(m_appenders[l])
  PROVE  IInv'
<1>1. ObjType'
  BY InvType DEF ObjType
<1>2. ListInv' /\ OwnInv' /\ FormattersFollow'
  BY DEF IInv, ListInv, OwnInv, FormattersFollow
<1>3. \A u \in Threads : Spares(u)
  BY DEF Spares, IInv, AddInv
<1> QED BY <1>1, <1>2, <1>3, AtOnceInv

LEMMA DelAppenderInv ==
  ASSUME IInv, NEW t \in Threads, NEW l \in Loggers, NEW a \in Appenders,
         DelAppender(t, l, a)
  PROVE  IInv'
<1>1. PICK h \in DOMAIN m_appenders[l] :
        m_appenders' = [m_appenders EXCEPT ![l] =
          SubSeq(m_appenders[l], 1, h - 1)
            \o SubSeq(m_appenders[l], h + 1, Len(m_appenders[l]))]
  BY DEF DelAppender
<1>2. /\ Idle(t) /\ AtOnce
      /\ UNCHANGED <<made, m_root, m_level, m_formatter, m_hasFormatter, own, bad>>
  BY DEF DelAppender
<1>3. m_appenders \in [Loggers -> Seq(Appenders)] /\ bad = "no"
  BY InvType DEF ObjType
<1> DEFINE d == SubSeq(m_appenders[l], 1, h - 1)
                  \o SubSeq(m_appenders[l], h + 1, Len(m_appenders[l]))
<1>4. d \in Seq(Appenders) /\ Range(d) \subseteq Range(m_appenders[l])
  BY <1>3, RangeDel
<1>5. m_appenders' = [m_appenders EXCEPT ![l] = d]
  BY <1>1
<1> HIDE DEF d
<1>6. m_appenders' \in [Loggers -> Seq(Appenders)]
  BY <1>3, <1>4, <1>5
<1>7. \A k \in Loggers : m_appenders'[k] = IF k = l THEN d ELSE m_appenders[k]
  BY <1>3, <1>5
<1> QED BY <1>2, <1>3, <1>4, <1>6, <1>7, ShrinkInv

LEMMA ClearAppenderInv ==
  ASSUME IInv, Contract = Clauses, NEW t \in Threads, NEW l \in Loggers,
         ClearAppender(t, l)
  PROVE  IInv'
<1>1. /\ Idle(t) /\ AtOnce /\ lock[l] = Null
      /\ m_appenders' = [m_appenders EXCEPT ![l] = <<>>] /\ bad' = bad
      /\ UNCHANGED <<made, m_root, m_level, m_formatter, m_hasFormatter, own>>
  BY DEF ClearAppender, Demand, Clauses
<1>2. m_appenders \in [Loggers -> Seq(Appenders)] /\ bad = "no"
  BY InvType DEF ObjType
<1>3. m_appenders' \in [Loggers -> Seq(Appenders)]
  BY <1>1, <1>2
<1>4. \A k \in Loggers : m_appenders'[k] = IF k = l THEN <<>> ELSE m_appenders[k]
  BY <1>1, <1>2
<1>5. Range(<<>>) = {}
  BY DEF Range
<1>6. \A k \in Loggers : Range(m_appenders'[k]) \subseteq Range(m_appenders[k])
  BY <1>4, <1>5
<1> QED BY <1>1, <1>2, <1>3, <1>6, ShrinkInv

LEMMA SetLevelInv ==
  ASSUME IInv, NEW t \in Threads, NEW o \in Objects, NEW level \in Levels,
         SetLevel(t, o, level)
  PROVE  IInv'
<1>1. /\ Idle(t) /\ AtOnce /\ m_level' = [m_level EXCEPT ![o] = level]
      /\ UNCHANGED <<made, m_root, m_appenders, m_formatter, m_hasFormatter,
                     own, bad>>
  BY DEF SetLevel
<1>2. ObjType' /\ bad' = "no"
  BY <1>1, InvType DEF ObjType
<1>3. ListInv' /\ OwnInv' /\ FormattersFollow'
  BY <1>1 DEF IInv, ListInv, OwnInv, FormattersFollow
<1>4. \A u \in Threads : Spares(u)
  BY <1>1 DEF Spares, IInv, AddInv
<1> QED BY <1>1, <1>2, <1>3, <1>4, AtOnceInv

(* The logger's formatter changes, and with it that of its appenders: of no
   other logger's, since lists share none. *)
LEMMA SetFormatterInv ==
  ASSUME IInv, Contract = Clauses, NEW t \in Threads, NEW l \in Loggers,
         NEW f \in Formats \cup {Null}, SetFormatter(t, l, f)
  PROVE  IInv'
<1>1. /\ Idle(t) /\ AtOnce /\ l \in made /\ f # Null
      /\ m_formatter' = [o \in Objects |->
           IF o = l \/ (o \in Range(m_appenders[l]) /\ ~m_hasFormatter[o])
           THEN f ELSE m_formatter[o]]
      /\ UNCHANGED <<made, m_root, m_level, m_appenders, m_hasFormatter, own, bad>>
  BY DEF SetFormatter, Demand, Clauses
<1>2. ObjType /\ bad = "no"
  BY InvType
<1>3. \A k \in Loggers : Range(m_appenders[k]) \subseteq Appenders
  BY <1>2 DEF ObjType, Range
<1>4. /\ \A k \in Loggers : m_formatter'[k] = IF k = l THEN f ELSE m_formatter[k]
      /\ \A a \in Appenders :
           m_formatter'[a] = IF a \in Range(m_appenders[l]) /\ ~m_hasFormatter[a]
                             THEN f ELSE m_formatter[a]
  BY <1>1, <1>3, LoggerAssumption DEF Objects
<1>5. ObjType'
  <2>1. m_formatter' \in [Objects -> Formats \cup {Null}]
    BY <1>1, <1>2 DEF ObjType
  <2>2. \A k \in made' : m_formatter'[k] # Null
    BY <1>1, <1>2, <1>4 DEF ObjType
  <2> QED BY <1>1, <1>2, <2>1, <2>2 DEF ObjType
<1>6. ListInv' /\ OwnInv'
  BY <1>1, <1>4 DEF IInv, ListInv, OwnInv
<1>7. FormattersFollow'
  <2> SUFFICES ASSUME NEW k \in Loggers, NEW a \in Range(m_appenders[k]),
                      ~m_hasFormatter[a]
               PROVE  m_formatter'[a] = m_formatter'[k]
    BY <1>1 DEF FormattersFollow
  <2>1. k # l => a \notin Range(m_appenders[l])
    BY DEF IInv, ListInv
  <2> QED BY <1>3, <1>4, <2>1 DEF IInv, FormattersFollow
<1>8. \A u \in Threads : Spares(u)
  BY <1>1, <1>4 DEF Spares, IInv, AddInv
<1> QED BY <1>1, <1>2, <1>5, <1>6, <1>7, <1>8, AtOnceInv

LEMMA SetOwnFormatterInv ==
  ASSUME IInv, Contract = Clauses, NEW t \in Threads, NEW a \in Appenders,
         NEW f \in Formats \cup {Null}, SetOwnFormatter(t, a, f)
  PROVE  IInv'
<1>1. /\ Idle(t) /\ AtOnce /\ f # Null
      /\ m_formatter' = [m_formatter EXCEPT ![a] = f]
      /\ m_hasFormatter' = [m_hasFormatter EXCEPT ![a] = f # Null]
      /\ own' = [own EXCEPT ![a] = f]
      /\ UNCHANGED <<made, m_root, m_level, m_appenders, bad>>
      /\ \A u \in Threads : ~Adding(u, a)
  BY DEF SetOwnFormatter, Demand, Clauses
<1>2. ObjType /\ bad = "no"
  BY InvType
<1>3. /\ m_formatter'[a] = f /\ m_hasFormatter'[a] /\ own'[a] = f
      /\ \A o \in Objects : o # a => m_formatter'[o] = m_formatter[o]
      /\ \A b \in Appenders : b # a => /\ m_hasFormatter'[b] = m_hasFormatter[b]
                                       /\ own'[b] = own[b]
      /\ a \in Objects
  BY <1>1, <1>2 DEF ObjType, Objects
<1>4. /\ \A k \in Loggers : k \in Objects /\ k # a
      /\ \A b \in Appenders : b \in Objects
  BY LoggerAssumption DEF Objects
<1>5. ObjType'
  <2>1. /\ m_formatter' \in [Objects -> Formats \cup {Null}]
        /\ m_hasFormatter' \in [Appenders -> BOOLEAN]
        /\ own' \in [Appenders -> Formats \cup {Null}]
    BY <1>1, <1>2 DEF ObjType
  <2>2. \A k \in made' : m_formatter'[k] # Null
    BY <1>1, <1>2, <1>3, <1>4 DEF ObjType
  <2> QED BY <1>1, <1>2, <2>1, <2>2 DEF ObjType
<1>6. ListInv' /\ OwnInv'
  BY <1>1, <1>3, <1>4 DEF IInv, ListInv, OwnInv
<1>7. \A k \in Loggers : Range(m_appenders[k]) \subseteq Appenders
  BY <1>2 DEF ObjType, Range
<1>8. FormattersFollow'
  BY <1>1, <1>3, <1>4, <1>7 DEF IInv, FormattersFollow
<1>9. ASSUME NEW u \in Threads PROVE Spares(u)
  <2>1. pc[u] \in AddPC => call[u].what # a
    BY <1>1 DEF Adding, AddPC
  <2> QED BY <1>1, <1>3, <1>4, <2>1 DEF Spares, IInv, AddInv
<1> QED BY <1>1, <1>2, <1>5, <1>6, <1>8, <1>9, AtOnceInv
----------------------------------------------------------------------------
(* log(): the thread walks a list whose appenders all have a formatter. *)
LEMMA LogMacroInv ==
  ASSUME IInv, NEW t \in Threads, NEW l \in Loggers, NEW level \in Levels,
         LogMacro(t, l, level)
  PROVE  IInv'
<1>1. /\ Idle(t) /\ l \in made /\ Begin(t, "event", l, level)
      /\ UNCHANGED <<lock, bad>> /\ UNCHANGED objs
  BY DEF LogMacro
<1>2. /\ Others(t) /\ CallType'
      /\ pc'[t] = "event" /\ call'[t].what = level /\ at'[t] = l /\ idx'[t] = 1
  BY <1>1, BeginMoves
<1>3. AddInv(t)' /\ LogInv(t)' /\ pc'[t] \notin AddPC
  BY <1>1, <1>2 DEF AddInv, LogInv, AddPC, LogPC, objs
<1> QED BY <1>1, <1>2, <1>3, MoveInv, InvType

LEMMA LogCheckInv ==
  ASSUME IInv, NEW t \in Threads, LogCheck(t)
  PROVE  IInv'
<1>1. pc[t] = "event" /\ UNCHANGED objs /\ bad' = bad
  BY DEF LogCheck
<1>2. CASE call[t].what >= m_level[at[t]]
  <2>1. /\ pc' = [pc EXCEPT ![t] = "log"]
        /\ UNCHANGED <<lock, call, at, idx, wrote, ops>>
    BY <1>2 DEF LogCheck
  <2>2. CallType' /\ Others(t) /\ pc'[t] = "log"
    BY <2>1, InvType DEF CallType, Others, Still
  <2>3. AddInv(t)' /\ LogInv(t)' /\ pc'[t] \notin AddPC
    BY <1>1, <2>1, <2>2 DEF IInv, AddInv, LogInv, AddPC, LogPC, objs
  <2> QED BY <1>1, <2>2, <2>3, MoveInv, InvType
<1>3. CASE ~(call[t].what >= m_level[at[t]])
  <2>1. Return(t)
    BY <1>3 DEF LogCheck
  <2>2. /\ Others(t) /\ CallType' /\ AddInv(t)' /\ LogInv(t)'
        /\ pc'[t] \notin AddPC
    BY <2>1, ReturnMoves DEF AddPC
  <2> QED BY <1>1, <2>2, MoveInv, InvType
<1> QED BY <1>2, <1>3

LEMMA LogLockInv ==
  ASSUME IInv, NEW t \in Threads, LogLock(t)
  PROVE  IInv'
<1>1. /\ pc[t] = "log" /\ lock' = [lock EXCEPT ![at[t]] = t]
      /\ pc' = [pc EXCEPT ![t] = "iter"]
      /\ UNCHANGED objs /\ UNCHANGED <<call, at, idx, wrote, ops, bad>>
  BY DEF LogLock
<1>2. CallType' /\ Others(t) /\ pc'[t] = "iter"
  BY <1>1, InvType DEF CallType, Others, Still
<1>3. AddInv(t)' /\ LogInv(t)' /\ pc'[t] \notin AddPC
  BY <1>1, <1>2 DEF IInv, AddInv, LogInv, AddPC, LogPC, objs
<1> QED BY <1>1, <1>2, <1>3, MoveInv, InvType

LEMMA LogNextInv ==
  ASSUME IInv, NEW t \in Threads, LogNext(t)
  PROVE  IInv'
<1> DEFINE a == m_appenders[at[t]][idx[t]]
<1>1. /\ pc[t] = "iter" /\ idx[t] <= Len(m_appenders[at[t]])
      /\ wrote' = wrote \/ wrote' = [wrote EXCEPT ![t] = Append(@, a)]
      /\ bad' = bad \/ m_formatter[a] = Null
      /\ idx' = [idx EXCEPT ![t] = @ + 1]
      /\ UNCHANGED objs /\ UNCHANGED <<lock, pc, call, at, ops>>
  BY DEF LogNext
<1>2. ObjType /\ CallType /\ bad = "no"
  BY InvType
<1>3. at[t] \in made /\ at[t] \in Loggers /\ idx[t] \in Nat \ {0}
  BY <1>1, <1>2 DEF IInv, LogInv, LogPC, ObjType
<1>4. m_appenders[at[t]] \in Seq(Appenders)
  BY <1>2, <1>3 DEF ObjType
<1>5. idx[t] \in DOMAIN m_appenders[at[t]]
  BY <1>1, <1>3, <1>4
<1>6. a \in Appenders /\ a \in Range(m_appenders[at[t]])
  BY <1>4, <1>5 DEF Range
<1> HIDE DEF a
<1>7. m_formatter[a] # Null
  BY <1>2, <1>3, <1>6 DEF IInv, OwnInv, FormattersFollow, ObjType
<1>8. idx[t] + 1 \in Nat \ {0}
  BY <1>3
<1>9. wrote' \in [Threads -> Seq(Appenders)]
  <2>1. wrote[t] \in Seq(Appenders)
    BY <1>2 DEF CallType
  <2>2. Append(wrote[t], a) \in Seq(Appenders)
    BY <1>6, <2>1
  <2> QED BY <1>1, <1>2, <2>2 DEF CallType
<1>10. /\ idx' \in [Threads -> Nat] /\ idx'[t] \in Nat \ {0}
       /\ \A u \in Threads : u # t => idx'[u] = idx[u]
  BY <1>1, <1>2, <1>8 DEF CallType
<1>11. CallType' /\ Others(t)
  BY <1>1, <1>2, <1>9, <1>10 DEF CallType, Others, Still
<1>12. AddInv(t)' /\ LogInv(t)' /\ pc'[t] \notin AddPC
  BY <1>1, <1>10 DEF IInv, AddInv, LogInv, AddPC, LogPC, objs
<1> QED BY <1>1, <1>2, <1>7, <1>11, <1>12, MoveInv

LEMMA LogRestInv ==
  ASSUME IInv, NEW t \in Threads, LogRest(t)
  PROVE  IInv'
<1>1. /\ pc[t] = "iter" /\ UNCHANGED objs
      /\ UNCHANGED <<lock, call, wrote, ops, bad>>
      /\ \/ /\ pc' = [pc EXCEPT ![t] = "log"]
            /\ at' = [at EXCEPT ![t] = Root]
            /\ idx' = [idx EXCEPT ![t] = 1]
         \/ pc' = [pc EXCEPT ![t] = "done"] /\ UNCHANGED <<at, idx>>
  BY DEF LogRest
<1>2. ObjType /\ CallType
  BY InvType
<1>3. CallType' /\ Others(t) /\ pc'[t] \notin AddPC
  <2>1. /\ pc' \in [Threads -> {"idle", "event", "log", "iter", "done", "add",
                               "push", "dump", "dump_logger"}]
        /\ at' \in [Threads -> Loggers \cup {Null}]
        /\ idx' \in [Threads -> Nat]
    <3>1. Root \in Loggers /\ 1 \in Nat
      BY LoggerAssumption
    <3>2. /\ pc \in [Threads -> {"idle", "event", "log", "iter", "done", "add",
                                "push", "dump", "dump_logger"}]
          /\ at \in [Threads -> Loggers \cup {Null}]
          /\ idx \in [Threads -> Nat]
      BY <1>2 DEF CallType
    <3> QED BY <1>1, <3>1, <3>2
  <2>2. CallType'
    BY <1>1, <1>2, <2>1 DEF CallType
  <2>3. Others(t) /\ pc'[t] \notin AddPC
    BY <1>1, <1>2 DEF CallType, Others, Still, AddPC
  <2> QED BY <2>2, <2>3
<1>4. AddInv(t)' /\ LogInv(t)'
  <2>1. \/ pc'[t] = "done"
        \/ pc'[t] = "log" /\ at'[t] = Root /\ idx'[t] = 1
    BY <1>1, <1>2 DEF CallType
  <2>2. Root \in made' /\ call'[t].what \in Levels
    BY <1>1, <1>2 DEF ObjType, objs, IInv, LogInv, LogPC
  <2> QED BY <2>1, <2>2 DEF AddInv, LogInv, AddPC, LogPC
<1> QED BY <1>1, <1>3, <1>4, MoveInv, InvType

LEMMA LogReturnInv ==
  ASSUME IInv, NEW t \in Threads, LogReturn(t)
  PROVE  IInv'
<1>1. Return(t) /\ UNCHANGED objs /\ bad' = bad
  BY DEF LogReturn
<1>2. /\ Others(t) /\ CallType' /\ AddInv(t)' /\ LogInv(t)'
      /\ pc'[t] \notin AddPC
  BY <1>1, ReturnMoves DEF AddPC
<1> QED BY <1>1, <1>2, MoveInv, InvType
----------------------------------------------------------------------------
(* addAppender: from the question to the answer nobody touches the appender. *)
LEMMA AddAppenderInv ==
  ASSUME IInv, Contract = Clauses, NEW t \in Threads, NEW l \in Loggers,
         NEW a \in Appenders, AddAppender(t, l, a)
  PROVE  IInv'
<1>1. /\ Idle(t) /\ l \in made /\ Begin(t, "add", l, a)
      /\ UNCHANGED <<lock, bad>> /\ UNCHANGED objs
      /\ ~Attached(a) /\ \A u \in Threads : ~Adding(u, a)
      /\ m_hasFormatter[a] \/ m_formatter[a] = Null
  BY DEF AddAppender, Demand, Clauses
<1>2. /\ Others(t) /\ CallType'
      /\ pc'[t] = "add" /\ call'[t].what = a /\ at'[t] = l /\ idx'[t] = 1
  BY <1>1, BeginMoves
<1>3. AddInv(t)' /\ LogInv(t)'
  BY <1>1, <1>2 DEF AddInv, LogInv, AddPC, LogPC, objs, Attached
<1>4. \A u \in Threads : pc[u] \in AddPC => call'[t].what # call[u].what
  BY <1>1, <1>2 DEF Adding, AddPC
<1> QED BY <1>1, <1>2, <1>3, <1>4, MoveInv, InvType

LEMMA AddCheckInv ==
  ASSUME IInv, NEW t \in Threads, AddCheck(t)
  PROVE  IInv'
<1>1. /\ pc[t] = "add" /\ lock' = [lock EXCEPT ![at[t]] = t]
      /\ idx' = [idx EXCEPT ![t] =
                   IF m_formatter[call[t].what] = Null THEN 0 ELSE 1]
      /\ pc' = [pc EXCEPT ![t] = "push"]
      /\ UNCHANGED objs /\ UNCHANGED <<call, at, wrote, ops, bad>>
  BY DEF AddCheck
<1>2. CallType
  BY InvType
<1>3. CallType' /\ Others(t)
  BY <1>1, <1>2 DEF CallType, Others, Still
<1>4. /\ pc'[t] = "push"
      /\ idx'[t] = IF m_formatter[call[t].what] = Null THEN 0 ELSE 1
  BY <1>1, <1>2 DEF CallType
<1>5. AddInv(t)' /\ LogInv(t)'
  BY <1>1, <1>4 DEF IInv, AddInv, LogInv, AddPC, LogPC, objs
<1>6. \A u \in Threads : u # t /\ pc[u] \in AddPC => call'[t].what # call[u].what
  BY <1>1 DEF IInv, OneAdder, AddPC
<1> QED BY <1>1, <1>3, <1>5, <1>6, MoveInv, InvType

LEMMA AddPushInv ==
  ASSUME IInv, NEW t \in Threads, AddPush(t)
  PROVE  IInv'
<1> DEFINE l == at[t]
           a == call[t].what
<1>1. /\ pc[t] = "push"
      /\ m_formatter' = IF idx[t] = 0
                        THEN [m_formatter EXCEPT ![a] = m_formatter[l]]
                        ELSE m_formatter
      /\ m_appenders' = [m_appenders EXCEPT ![l] = Append(@, a)]
      /\ Return(t)
      /\ UNCHANGED <<made, m_root, m_level, m_hasFormatter, own, bad>>
  BY DEF AddPush
<1>2. ObjType /\ CallType /\ bad = "no"
  BY InvType
<1>3. /\ l \in made /\ l \in Loggers /\ a \in Appenders
      /\ \A k \in Loggers : a \notin Range(m_appenders[k])
      /\ m_hasFormatter[a] \/ m_formatter[a] = Null
      /\ idx[t] = 0 <=> m_formatter[a] = Null
  BY <1>1, <1>2 DEF IInv, AddInv, AddPC, ObjType
<1>4. Others(t) /\ CallType' /\ pc'[t] = "idle" /\ AddInv(t)' /\ LogInv(t)'
  BY <1>1, ReturnMoves
<1>5. \A u \in Threads : u # t /\ pc[u] \in AddPC => call[u].what # a
  BY <1>1 DEF IInv, OneAdder, AddPC
<1> HIDE DEF l, a
<1>6. /\ Append(m_appenders[l], a) \in Seq(Appenders)
      /\ Range(Append(m_appenders[l], a)) = Range(m_appenders[l]) \cup {a}
  BY <1>2, <1>3, RangeAppend DEF ObjType
<1>7. /\ m_appenders' \in [Loggers -> Seq(Appenders)]
      /\ \A k \in Loggers : m_appenders'[k] = IF k = l
           THEN Append(m_appenders[l], a) ELSE m_appenders[k]
  BY <1>1, <1>2, <1>3, <1>6 DEF ObjType
<1>8. \A k \in Loggers : Range(m_appenders'[k]) =
        IF k = l THEN Range(m_appenders[l]) \cup {a} ELSE Range(m_appenders[k])
  BY <1>6, <1>7
<1>9. /\ \A k \in Loggers : k \in Objects /\ k # a
      /\ \A b \in Appenders : b \in Objects
  BY <1>3, LoggerAssumption DEF Objects
<1>10. /\ m_formatter' \in [Objects -> Formats \cup {Null}]
       /\ \A o \in Objects : o # a => m_formatter'[o] = m_formatter[o]
       /\ m_hasFormatter[a] => m_formatter'[a] = m_formatter[a]
       /\ ~m_hasFormatter[a] => m_formatter'[a] = m_formatter[l]
  <2>1. CASE idx[t] = 0
    <3>1. m_formatter' = [m_formatter EXCEPT ![a] = m_formatter[l]]
      BY <1>1, <2>1
    <3>2. ~m_hasFormatter[a]
      BY <1>3, <2>1 DEF IInv, OwnInv
    <3> QED BY <1>2, <1>3, <1>9, <3>1, <3>2 DEF ObjType
  <2>2. CASE idx[t] # 0
    BY <1>1, <1>2, <1>3, <2>2 DEF ObjType
  <2> QED BY <2>1, <2>2
<1>11. ObjType'
  <2>1. \A k \in made' : m_formatter'[k] # Null
    BY <1>1, <1>2, <1>9, <1>10 DEF ObjType
  <2> QED BY <1>1, <1>2, <1>7, <1>10, <2>1 DEF ObjType
<1>12. ListInv'
  <2>1. \A k \in Loggers \ made' : Range(m_appenders'[k]) = {}
    BY <1>1, <1>3, <1>8 DEF IInv, ListInv
  <2>2. ASSUME NEW k \in Loggers, NEW n \in Loggers, k # n
        PROVE  Range(m_appenders'[k]) \cap Range(m_appenders'[n]) = {}
    <3>1. Range(m_appenders[k]) \cap Range(m_appenders[n]) = {}
      BY <2>2 DEF IInv, ListInv
    <3> QED BY <1>3, <1>8, <2>2, <3>1
  <2> QED BY <2>1, <2>2 DEF ListInv
<1>13. OwnInv'
  BY <1>1, <1>9, <1>10 DEF IInv, OwnInv
<1>14. FormattersFollow'
  <2> SUFFICES ASSUME NEW k \in Loggers, NEW b \in Range(m_appenders'[k]),
                      ~m_hasFormatter[b]
               PROVE  m_formatter'[b] = m_formatter'[k]
    BY <1>1 DEF FormattersFollow
  <2>1. m_formatter'[k] = m_formatter[k]
    BY <1>9, <1>10
  <2>2. CASE b = a
    BY <1>3, <1>8, <1>10, <2>1, <2>2
  <2>3. CASE b # a
    <3>1. b \in Range(m_appenders[k])
      BY <1>8, <2>3
    <3>2. b \in Appenders
      BY <1>2, <3>1 DEF ObjType, Range
    <3> QED BY <1>9, <1>10, <2>1, <2>3, <3>1, <3>2 DEF IInv, FormattersFollow
  <2> QED BY <2>2, <2>3
<1>15. OneAdder'
  BY <1>4 DEF IInv, OneAdder, Others, Still, AddPC
<1>16. ASSUME NEW u \in Threads, u # t PROVE Spares(u)
  BY <1>1, <1>5, <1>8, <1>9, <1>10, <1>16 DEF Spares, IInv, AddInv
<1>17. ASSUME NEW u \in Threads PROVE AddInv(u)' /\ LogInv(u)'
  BY <1>1, <1>4, <1>16, CallFrame DEF IInv, Others
<1> QED BY <1>1, <1>2, <1>4, <1>11, <1>12, <1>13, <1>14, <1>15, <1>17 DEF IInv, NothingBad

(* toYamlString() changes no logger and no appender. *)
LEMMA DumpInv ==
  ASSUME IInv, NEW t \in Threads, Dump(t) \/ ContinueDump(t)
  PROVE  IInv'
<1> DEFINE Moved == /\ Others(t) /\ CallType'
                    /\ pc'[t] \in {"idle", "dump", "dump_logger"}
<1>1. UNCHANGED objs /\ bad' = "no"
  BY DEF Dump, ContinueDump, DumpLogger, DumpNext, DumpReturn, Idle
<1>2. Moved
  <2>1. CASE Dump(t)
    BY <2>1, BeginMoves DEF Dump
  <2>2. ASSUME NEW l \in Loggers, DumpLogger(t, l) PROVE Moved
    <3>1. /\ lock' = [lock EXCEPT ![l] = t] /\ at' = [at EXCEPT ![t] = l]
          /\ pc' = [pc EXCEPT ![t] = "dump_logger"]
          /\ UNCHANGED <<call, idx, wrote, ops>>
      BY <2>2 DEF DumpLogger
    <3> QED BY <3>1, InvType DEF CallType, Others, Still
  <2>3. CASE DumpNext(t)
    <3>1. /\ lock' = [lock EXCEPT ![at[t]] = Null]
          /\ at' = [at EXCEPT ![t] = Null]
          /\ pc' = [pc EXCEPT ![t] = "dump"]
          /\ UNCHANGED <<call, idx, wrote, ops>>
      BY <2>3 DEF DumpNext
    <3> QED BY <3>1, InvType DEF CallType, Others, Still
  <2>4. CASE DumpReturn(t)
    BY <2>4, ReturnMoves DEF DumpReturn
  <2> QED BY <2>1, <2>2, <2>3, <2>4 DEF ContinueDump
<1>3. AddInv(t)' /\ LogInv(t)' /\ pc'[t] \notin AddPC
  BY <1>2 DEF AddInv, LogInv, AddPC, LogPC
<1> QED BY <1>1, <1>2, <1>3, MoveInv
----------------------------------------------------------------------------
LEMMA NextInv ==
  ASSUME IInv, Contract = Clauses, [Next]_vars
  PROVE  IInv'
<1>1. CASE UNCHANGED vars
  <2>1. /\ UNCHANGED <<made, m_root, m_level, m_appenders, m_formatter,
                       m_hasFormatter, own>>
        /\ UNCHANGED <<lock, pc, call, at, idx, wrote, ops, bad>>
    BY <1>1 DEF vars, objs
  <2>2. ObjType' /\ CallType'
    BY <2>1, InvType DEF ObjType, CallType
  <2> QED BY <2>1, <2>2 DEF IInv, NothingBad, ListInv, OwnInv, FormattersFollow,
                            OneAdder, AddInv, LogInv
<1>2. CASE Next
  <2>1. PICK t \in Threads :
          Calls(t) \/ Continue(t) \/ Dump(t) \/ ContinueDump(t)
    BY <1>2 DEF Next, Inside
  <2>2. ASSUME NEW l \in Loggers, GetLogger(t, l) \/ OwnLogger(t, l)
        PROVE  IInv'
    BY <2>2, NewLoggerInv DEF GetLogger, OwnLogger
  <2>3. CASE Calls(t)
    BY <2>2, <2>3, LogMacroInv, AddAppenderInv, DelAppenderInv, ClearAppenderInv,
       SetLevelInv, SetFormatterInv, SetOwnFormatterInv DEF Calls
  <2>4. CASE Continue(t)
    BY <2>4, LogCheckInv, LogLockInv, LogNextInv, LogRestInv, LogReturnInv,
       AddCheckInv, AddPushInv DEF Continue
  <2> QED BY <2>1, <2>3, <2>4, DumpInv
<1> QED BY <1>1, <1>2

(* What a walk along a list writes: nothing at first, ... *)
LEMMA InOrderStart ==
  ASSUME NEW list
  PROVE  InOrder(<<>>, list, {})
<1>1. DOMAIN <<>> = {}
  OBVIOUS
<1>2. [h \in {} |-> h] \in Surjection({}, {})
  BY DEF Surjection
<1> QED BY <1>1, <1>2 DEF InOrder

(* ... and at the next position one more event, if the appender admits it. *)
LEMMA InOrderStep ==
  ASSUME NEW S, NEW w \in Seq(S), NEW list, NEW n \in Nat, NEW P \in SUBSET (1..n),
         InOrder(w, list, P)
  PROVE  InOrder(Append(w, list[n + 1]), list, P \cup {n + 1})
<1>1. PICK f \in Surjection(DOMAIN w, P) :
        /\ \A h, j \in DOMAIN w : h < j => f[h] < f[j]
        /\ \A h \in DOMAIN w : w[h] = list[f[h]]
  BY DEF InOrder
<1> DEFINE v == Append(w, list[n + 1])
           N == Len(w)
<1>2. /\ N \in Nat /\ DOMAIN w = 1..N /\ DOMAIN v = 1..(N + 1)
      /\ v[N + 1] = list[n + 1] /\ \A h \in 1..N : v[h] = w[h]
  OBVIOUS
<1>3. /\ \A h \in 1..N : f[h] \in P
      /\ \A p \in P : \E h \in 1..N : f[h] = p
  BY <1>1, <1>2 DEF Surjection
<1> HIDE DEF v, N
<1> DEFINE g == [h \in 1..(N + 1) |-> IF h = N + 1 THEN n + 1 ELSE f[h]]
<1>4. /\ \A h \in 1..(N + 1) : h \in 1..N \/ h = N + 1
      /\ \A h \in 1..N : h \in 1..(N + 1) /\ h # N + 1
      /\ N + 1 \in 1..(N + 1)
  BY <1>2
<1>5. g[N + 1] = n + 1 /\ \A h \in 1..N : g[h] = f[h]
  BY <1>4
<1>6. g \in [1..(N + 1) -> P \cup {n + 1}]
  BY <1>3, <1>4
<1> HIDE DEF g
<1>7. \A p \in P \cup {n + 1} : \E h \in 1..(N + 1) : g[h] = p
  BY <1>3, <1>4, <1>5
<1>8. \A h, j \in 1..(N + 1) : h < j => g[h] < g[j]
  <2> SUFFICES ASSUME NEW h \in 1..(N + 1), NEW j \in 1..(N + 1), h < j
               PROVE  g[h] < g[j]
    OBVIOUS
  <2>1. h \in 1..N
    BY <1>2
  <2>2. f[h] \in 1..n
    BY <1>3, <2>1
  <2>3. CASE j = N + 1
    BY <1>5, <2>1, <2>2, <2>3
  <2>4. CASE j \in 1..N
    BY <1>1, <1>2, <1>5, <2>1, <2>4
  <2> QED BY <1>4, <2>3, <2>4
<1>9. \A h \in 1..(N + 1) : v[h] = list[g[h]]
  BY <1>1, <1>2, <1>4, <1>5
<1>10. g \in Surjection(DOMAIN v, P \cup {n + 1})
  BY <1>2, <1>6, <1>7 DEF Surjection
<1>11. InOrder(v, list, P \cup {n + 1})
  BY <1>2, <1>8, <1>9, <1>10 DEF InOrder
<1> QED BY <1>11 DEF v

LEMMA InOrderNone ==
  ASSUME NEW S, NEW w \in Seq(S), NEW list, InOrder(w, list, {})
  PROVE  w = <<>>
<1>1. PICK f : f \in Surjection(DOMAIN w, {})
  BY DEF InOrder
<1>2. \A h \in DOMAIN w : f[h] \in {}
  BY <1>1 DEF Surjection
<1>3. Len(w) \in Nat /\ DOMAIN w = 1..Len(w)
  OBVIOUS
<1>4. Len(w) = 0
  BY <1>2, <1>3
<1> QED BY <1>4

(* A list without repetitions writes nothing twice. *)
LEMMA InOrderOnce ==
  ASSUME NEW S, NEW w \in Seq(S), NEW list \in Seq(S), NEW P \in SUBSET DOMAIN list,
         InOrder(w, list, P),
         \A h, j \in DOMAIN list : list[h] = list[j] => h = j
  PROVE  \A h, j \in DOMAIN w : w[h] = w[j] => h = j
<1>1. PICK f \in Surjection(DOMAIN w, P) :
        /\ \A h, j \in DOMAIN w : h < j => f[h] < f[j]
        /\ \A h \in DOMAIN w : w[h] = list[f[h]]
  BY DEF InOrder
<1>2. SUFFICES ASSUME NEW h \in DOMAIN w, NEW j \in DOMAIN w, w[h] = w[j]
               PROVE  h = j
  OBVIOUS
<1>3. f[h] \in DOMAIN list /\ f[j] \in DOMAIN list
  BY <1>1 DEF Surjection
<1>4. f[h] = f[j]
  BY <1>1, <1>2, <1>3
<1>5. f[h] \in Int /\ f[j] \in Int /\ h \in Int /\ j \in Int
  BY <1>3
<1>6. ~(h < j) /\ ~(j < h)
  BY <1>1, <1>4, <1>5
<1> QED BY <1>5, <1>6

LEMMA AdmittingNext ==
  ASSUME NEW l, NEW level, NEW n \in Nat
  PROVE  /\ Admitting(l, level, 0) = {} /\ Admitting(l, level, n) \subseteq 1..n
         /\ Admitting(l, level, n + 1) =
              IF level >= m_level[m_appenders[l][n + 1]]
              THEN Admitting(l, level, n) \cup {n + 1}
              ELSE Admitting(l, level, n)
<1>1. 1..0 = {} /\ 1..(n + 1) = 1..n \cup {n + 1}
  OBVIOUS
<1> QED BY <1>1, Zenon DEF Admitting

----------------------------------------------------------------------------
(* What a thread relies on from the lists it has locked, and the levels. *)
Calm(u) ==
  /\ \A l \in Loggers : lock[l] = u =>
       lock'[l] = u /\ m_appenders'[l] = m_appenders[l]
  /\ \A l \in made : l \in made' /\ m_root'[l] = m_root[l]
  /\ Logging(u) => m_level' = m_level

LEMMA WalkFrame ==
  ASSUME IInv, NEW u \in Threads, WalkInv(u), Still(u), Calm(u)
  PROVE  WalkInv(u)'
<1>1. /\ pc'[u] = pc[u] /\ call'[u] = call[u] /\ at'[u] = at[u]
      /\ idx'[u] = idx[u] /\ wrote'[u] = wrote[u]
  BY DEF Still
<1>2. made \subseteq Loggers
  BY InvType DEF ObjType
<1>3. CASE Logging(u)
  <2>1. at[u] \in made /\ at[u] \in Loggers /\ call[u].logger \in Loggers
    BY <1>2, <1>3 DEF WalkInv
  <2>2. m_level' = m_level /\ m_root'[at[u]] = m_root[at[u]]
    BY <1>3, <2>1 DEF Calm
  <2>3. pc[u] \notin {"push", "dump_logger"} /\ Logging(u)'
    BY <1>1, <1>3 DEF Logging
  <2>4. made \subseteq made'
    BY DEF Calm
  <2>5. CASE pc[u] \in {"event", "log"}
    BY <1>1, <1>3, <2>1, <2>3, <2>4, <2>5 DEF WalkInv, Calm
  <2>6. CASE pc[u] \in {"iter", "done"}
    <3>1. lock[at[u]] = u
      BY <2>6 DEF WalkInv
    <3>2. lock'[at[u]] = u /\ m_appenders'[at[u]] = m_appenders[at[u]]
      BY <2>1, <3>1 DEF Calm
    <3>3. \A n \in Int : Admitting(at[u], call[u].what, n)' =
                         Admitting(at[u], call[u].what, n)
      BY <1>1, <2>2, <3>2 DEF Admitting
    <3>4. idx[u] - 1 \in Int /\ Len(m_appenders[at[u]]) \in Int
      BY <2>1, InvType DEF ObjType, CallType
    <3>5. CASE pc[u] = "iter"
      <4>1. /\ idx[u] <= Len(m_appenders[at[u]]) + 1
            /\ InOrder(wrote[u], m_appenders[at[u]],
                       Admitting(at[u], call[u].what, idx[u] - 1))
        BY <3>5 DEF WalkInv
      <4>2. InOrder(wrote[u], m_appenders[at[u]],
                    Admitting(at[u], call[u].what, idx[u] - 1))'
        BY <1>1, <3>2, <3>3, <3>4, <4>1
      <4> QED BY <1>1, <1>3, <2>1, <2>3, <2>4, <3>2, <3>5, <4>1, <4>2
              DEF WalkInv, Calm
    <3>6. CASE pc[u] = "done"
      <4>1. InOrder(wrote[u], m_appenders[at[u]],
              Admitting(at[u], call[u].what, Len(m_appenders[at[u]])))
        BY <3>6 DEF WalkInv
      <4>2. InOrder(wrote[u], m_appenders[at[u]],
              Admitting(at[u], call[u].what, Len(m_appenders[at[u]])))'
        BY <1>1, <3>2, <3>3, <3>4, <4>1
      <4> QED BY <1>1, <1>3, <2>1, <2>2, <2>3, <2>4, <3>2, <3>6, <4>2
              DEF WalkInv, Calm
    <3> QED BY <2>6, <3>5, <3>6
  <2> QED BY <1>3, <2>5, <2>6 DEF Logging
<1>4. CASE ~Logging(u)
  <2>1. ~Logging(u)' /\ pc[u] \notin {"event", "log", "iter", "done"}
    BY <1>1, <1>4 DEF Logging
  <2>2. pc[u] \in {"push", "dump_logger"} => at[u] \in Loggers
    BY <1>2 DEF IInv, AddInv, AddPC, WalkInv
  <2> QED BY <1>1, <2>1, <2>2 DEF WalkInv, Calm
<1> QED BY <1>3, <1>4

(* A call that is one step, and a step of thread t inside a call. *)
LEMMA AtOnceWalk ==
  ASSUME IInv, WInv, AtOnce, m_root'[Root] = Null, NoRepeat',
         \A u \in Threads : Calm(u)
  PROVE  WInv'
<1>1. \A u \in Threads : Still(u)
  BY DEF AtOnce, Still
<1> QED BY <1>1, WalkFrame DEF WInv

LEMMA MoveWalk ==
  ASSUME IInv, WInv, NEW t \in Threads, Others(t), m_root'[Root] = Null, NoRepeat',
         \A u \in Threads : u # t => Calm(u),
         WalkInv(t)'
  PROVE  WInv'
BY WalkFrame DEF WInv, Others

LEMMA ReturnWalk ==
  ASSUME IInv, WInv, NEW t \in Threads, Return(t), UNCHANGED <<made, m_root, m_level>>,
         NoRepeat',
         \A l \in Loggers : lock[l] # t => m_appenders'[l] = m_appenders[l]
  PROVE  WInv'
<1>1. Others(t) /\ pc'[t] = "idle"
  BY ReturnMoves
<1>2. \A l \in Loggers : lock[l] # t => lock'[l] = lock[l]
  BY DEF Return
<1>3. \A u \in Threads : u # t => Calm(u)
  BY <1>2 DEF Calm
<1>4. WalkInv(t)'
  BY <1>1 DEF WalkInv, Logging
<1> QED BY <1>1, <1>3, <1>4, MoveWalk DEF WInv

----------------------------------------------------------------------------
LEMMA InitWalk == ASSUME Init PROVE WInv
<1>1. NoRepeat
  BY DEF Init, NoRepeat
<1>2. m_root[Root] = Null
  BY LoggerAssumption DEF Init
<1>3. \A t \in Threads : WalkInv(t)
  BY DEF Init, WalkInv, Logging
<1> QED BY <1>1, <1>2, <1>3 DEF WInv

LEMMA NewLoggerWalk ==
  ASSUME IInv, WInv, NEW l \in Loggers, NEW root \in {Root, Null},
         l \notin made, NewLogger(l, root), AtOnce
  PROVE  WInv'
<1>1. /\ made' = made \cup {l} /\ m_root' = [m_root EXCEPT ![l] = root]
      /\ UNCHANGED <<m_level, m_appenders, lock>>
  BY DEF NewLogger, AtOnce
<1>2. ObjType
  BY InvType
<1>3. \A k \in made : m_root'[k] = m_root[k]
  BY <1>1, <1>2 DEF ObjType
<1>4. m_root'[Root] = Null
  BY <1>2, <1>3 DEF ObjType, WInv
<1>5. NoRepeat'
  BY <1>1 DEF WInv, NoRepeat
<1>6. \A u \in Threads : Calm(u)
  BY <1>1, <1>3 DEF Calm
<1> QED BY <1>4, <1>5, <1>6, AtOnceWalk

LEMMA DelAppenderWalk ==
  ASSUME IInv, WInv, NEW t \in Threads, NEW l \in Loggers, NEW a \in Appenders,
         DelAppender(t, l, a)
  PROVE  WInv'
<1>1. PICK h \in DOMAIN m_appenders[l] :
        m_appenders' = [m_appenders EXCEPT ![l] =
          SubSeq(m_appenders[l], 1, h - 1)
            \o SubSeq(m_appenders[l], h + 1, Len(m_appenders[l]))]
  BY DEF DelAppender
<1>2. /\ lock[l] = Null /\ AtOnce /\ UNCHANGED <<made, m_root, m_level, lock>>
  BY DEF DelAppender, AtOnce
<1>3. m_appenders \in [Loggers -> Seq(Appenders)]
  BY InvType DEF ObjType
<1> DEFINE s == m_appenders[l]
           d == SubSeq(s, 1, h - 1) \o SubSeq(s, h + 1, Len(s))
<1>4. s \in Seq(Appenders) /\ \A j, k \in DOMAIN s : s[j] = s[k] => j = k
  BY <1>3 DEF WInv, NoRepeat
<1>5. \A j, k \in DOMAIN d : d[j] = d[k] => j = k
  BY <1>4, DelNoRepeat
<1>6. m_appenders' = [m_appenders EXCEPT ![l] = d]
  BY <1>1
<1> HIDE DEF d, s
<1>7. \A k \in Loggers : m_appenders'[k] = IF k = l THEN d ELSE m_appenders[k]
  BY <1>3, <1>6
<1>8. NoRepeat'
  BY <1>5, <1>7 DEF WInv, NoRepeat
<1>9. \A u \in Threads : Calm(u)
  BY <1>2, <1>7, LoggerAssumption DEF Calm
<1> QED BY <1>2, <1>8, <1>9, AtOnceWalk DEF WInv

LEMMA ClearAppenderWalk ==
  ASSUME IInv, WInv, Contract = Clauses, NEW t \in Threads, NEW l \in Loggers,
         ClearAppender(t, l)
  PROVE  WInv'
<1>1. /\ lock[l] = Null /\ AtOnce /\ UNCHANGED <<made, m_root, m_level, lock>>
      /\ m_appenders' = [m_appenders EXCEPT ![l] = <<>>]
  BY DEF ClearAppender, Demand, Clauses, AtOnce
<1>2. \A k \in Loggers : m_appenders'[k] = IF k = l THEN <<>> ELSE m_appenders[k]
  BY <1>1, InvType DEF ObjType
<1>3. NoRepeat'
  BY <1>2 DEF WInv, NoRepeat
<1>4. \A u \in Threads : Calm(u)
  BY <1>1, <1>2, LoggerAssumption DEF Calm
<1> QED BY <1>1, <1>3, <1>4, AtOnceWalk DEF WInv

(* A level changes while no event is on its way, a formatter at any time. *)
LEMMA SetterWalk ==
  ASSUME IInv, WInv, AtOnce, UNCHANGED <<made, m_root, m_appenders>>,
         m_level' = m_level \/ \A u \in Threads : ~Logging(u)
  PROVE  WInv'
<1>1. NoRepeat'
  BY DEF WInv, NoRepeat
<1>2. \A u \in Threads : Calm(u)
  BY DEF Calm, AtOnce
<1> QED BY <1>1, <1>2, AtOnceWalk DEF WInv

LEMMA BeginWalk ==
  ASSUME IInv, WInv, NEW t \in Threads, NEW where \in {"event", "add"},
         NEW l \in made, NEW what \in Levels \cup Appenders,
         Idle(t), Begin(t, where, l, what), UNCHANGED lock, UNCHANGED objs
  PROVE  WInv'
<1>1. l \in Loggers /\ CallType
  BY InvType DEF ObjType
<1>2. Others(t) /\ pc'[t] = where /\ at'[t] = l /\ idx'[t] = 1
  BY <1>1, BeginMoves
<1>3. call'[t].logger = l /\ wrote'[t] = <<>>
  BY <1>1 DEF Begin, CallType
<1>4. UNCHANGED <<made, m_root, m_level, m_appenders>>
  BY DEF objs
<1>5. NoRepeat' /\ \A u \in Threads : Calm(u)
  BY <1>4 DEF WInv, NoRepeat, Calm
<1>6. WalkInv(t)'
  BY <1>2, <1>3, <1>4 DEF WalkInv, Logging
<1> QED BY <1>2, <1>4, <1>5, <1>6, MoveWalk DEF WInv

LEMMA LogCheckWalk ==
  ASSUME IInv, WInv, NEW t \in Threads, LogCheck(t)
  PROVE  WInv'
<1>1. pc[t] = "event" /\ UNCHANGED <<made, m_root, m_level, m_appenders>>
  BY DEF LogCheck, objs
<1>2. NoRepeat'
  BY <1>1 DEF WInv, NoRepeat
<1>3. CASE call[t].what >= m_level[at[t]]
  <2>1. /\ pc' = [pc EXCEPT ![t] = "log"]
        /\ UNCHANGED <<lock, call, at, idx, wrote>>
    BY <1>3 DEF LogCheck
  <2>2. Others(t) /\ pc'[t] = "log"
    BY <2>1, InvType DEF CallType, Others, Still
  <2>3. \A u \in Threads : Calm(u)
    BY <1>1, <2>1 DEF Calm
  <2>4. /\ at[t] \in made /\ at[t] = call[t].logger
        /\ idx[t] = 1 /\ wrote[t] = <<>>
    BY <1>1 DEF WInv, WalkInv, Logging
  <2>5. WalkInv(t)'
    BY <1>1, <2>1, <2>2, <2>4 DEF WalkInv, Logging
  <2> QED BY <1>1, <1>2, <2>2, <2>3, <2>5, MoveWalk DEF WInv
<1>4. CASE ~(call[t].what >= m_level[at[t]])
  BY <1>1, <1>2, <1>4, ReturnWalk DEF LogCheck
<1> QED BY <1>3, <1>4

LEMMA LogLockWalk ==
  ASSUME IInv, WInv, NEW t \in Threads, LogLock(t)
  PROVE  WInv'
<1>1. /\ pc[t] = "log" /\ lock[at[t]] = Null
      /\ lock' = [lock EXCEPT ![at[t]] = t] /\ pc' = [pc EXCEPT ![t] = "iter"]
      /\ UNCHANGED <<made, m_root, m_level, m_appenders>>
      /\ UNCHANGED <<call, at, idx, wrote>>
  BY DEF LogLock, objs
<1>2. Others(t) /\ pc'[t] = "iter" /\ CallType /\ ObjType
  BY <1>1, InvType DEF CallType, Others, Still
<1>3. /\ at[t] \in made /\ call[t].logger \in made
      /\ idx[t] = 1 /\ wrote[t] = <<>>
      /\ at[t] # call[t].logger =>
           /\ at[t] = Root
           /\ m_appenders[call[t].logger] = <<>> /\ lock[call[t].logger] = t
  BY <1>1 DEF WInv, WalkInv, Logging
<1>4. made \subseteq Loggers /\ Len(m_appenders[at[t]]) \in Nat
  BY <1>2, <1>3 DEF ObjType
<1>5. /\ lock'[at[t]] = t
      /\ \A l \in Loggers : l # at[t] => lock'[l] = lock[l]
  BY <1>1, <1>2, <1>3, <1>4 DEF CallType
<1>6. NoRepeat' /\ \A u \in Threads : u # t => Calm(u)
  BY <1>1, <1>5, LoggerAssumption DEF WInv, NoRepeat, Calm
<1>7. InOrder(wrote[t], m_appenders[at[t]],
              Admitting(at[t], call[t].what, idx[t] - 1))'
  <2>1. Admitting(at[t], call[t].what, idx[t] - 1)' = {}
    BY <1>1, <1>3, AdmittingNext DEF Admitting
  <2> QED BY <1>1, <1>3, <2>1, InOrderStart
<1>8. idx'[t] <= Len(m_appenders'[at'[t]]) + 1
  BY <1>1, <1>3, <1>4
<1>9. WalkInv(t)'
  BY <1>1, <1>2, <1>3, <1>4, <1>5, <1>7, <1>8 DEF WalkInv, Logging
<1> QED BY <1>1, <1>2, <1>6, <1>9, MoveWalk DEF WInv

LEMMA LogNextWalk ==
  ASSUME IInv, WInv, NEW t \in Threads, LogNext(t)
  PROVE  WInv'
<1> DEFINE l == at[t]
           n == idx[t] - 1
           a == m_appenders[l][idx[t]]
           level == call[t].what
<1>1. /\ pc[t] = "iter" /\ idx[t] <= Len(m_appenders[l])
      /\ wrote' = IF level >= m_level[a]
                  THEN [wrote EXCEPT ![t] = Append(@, a)] ELSE wrote
      /\ idx' = [idx EXCEPT ![t] = @ + 1]
      /\ UNCHANGED <<made, m_root, m_level, m_appenders>>
      /\ UNCHANGED <<lock, pc, call, at>>
  BY DEF LogNext, objs
<1>2. ObjType /\ CallType
  BY InvType
<1>3. /\ at[t] \in made /\ call[t].logger \in made /\ lock[l] = t
      /\ InOrder(wrote[t], m_appenders[l], Admitting(l, level, n))
      /\ at[t] # call[t].logger =>
           /\ at[t] = Root
           /\ m_appenders[call[t].logger] = <<>> /\ lock[call[t].logger] = t
  BY <1>1 DEF WInv, WalkInv, Logging
<1>4. /\ idx[t] \in Nat \ {0} /\ n \in Nat /\ n + 1 = idx[t]
      /\ Len(m_appenders[l]) \in Nat /\ idx'[t] = idx[t] + 1
      /\ idx'[t] - 1 = idx[t]
      /\ \A u \in Threads : u # t => idx'[u] = idx[u]
  BY <1>1, <1>2, <1>3 DEF IInv, LogInv, LogPC, ObjType, CallType
<1>5. wrote[t] \in Seq(Appenders)
  BY <1>2 DEF CallType
<1>6. wrote'[t] = IF level >= m_level[a] THEN Append(wrote[t], a) ELSE wrote[t]
  BY <1>1, <1>2 DEF CallType
<1>7. Others(t)
  BY <1>1, <1>2, <1>4 DEF Others, Still, CallType
<1>8. NoRepeat' /\ \A u \in Threads : Calm(u)
  BY <1>1 DEF WInv, NoRepeat, Calm
<1>9. InOrder(wrote'[t], m_appenders[l], Admitting(l, level, idx[t]))
  <2>0. a = m_appenders[l][n + 1]
    BY <1>4
  <2> HIDE DEF l, n, a, level
  <2>1. n \in Nat /\ n + 1 = idx[t]
    BY <1>4
  <2>2. /\ Admitting(l, level, n) \subseteq 1..n
        /\ Admitting(l, level, n + 1) = IF level >= m_level[m_appenders[l][n + 1]]
             THEN Admitting(l, level, n) \cup {n + 1} ELSE Admitting(l, level, n)
    BY <2>1, AdmittingNext
  <2>3. InOrder(Append(wrote[t], m_appenders[l][n + 1]), m_appenders[l],
                Admitting(l, level, n) \cup {n + 1})
    BY <1>3, <1>5, <2>1, <2>2, InOrderStep
  <2> QED BY <1>3, <1>6, <2>0, <2>1, <2>2, <2>3
<1>10. InOrder(wrote[t], m_appenders[at[t]],
               Admitting(at[t], call[t].what, idx[t] - 1))'
  <2>1. Admitting(at[t], call[t].what, idx[t] - 1)' = Admitting(l, level, idx[t])
    BY <1>1, <1>4 DEF Admitting
  <2> QED BY <1>1, <1>9, <2>1
<1>11. idx'[t] <= Len(m_appenders'[at'[t]]) + 1
  BY <1>1, <1>4
<1> HIDE DEF l, n, a, level
<1>12. WalkInv(t)'
  BY <1>1, <1>3, <1>10, <1>11 DEF WalkInv, Logging, l
<1> QED BY <1>1, <1>7, <1>8, <1>12, MoveWalk DEF WInv

LEMMA LogRestWalk ==
  ASSUME IInv, WInv, NEW t \in Threads, LogRest(t)
  PROVE  WInv'
<1>1. /\ pc[t] = "iter" /\ idx[t] > Len(m_appenders[at[t]])
      /\ UNCHANGED <<made, m_root, m_level, m_appenders>>
      /\ UNCHANGED <<lock, call, wrote>>
  BY DEF LogRest, objs
<1>2. ObjType /\ CallType
  BY InvType
<1>3. /\ at[t] \in made /\ call[t].logger \in made /\ lock[at[t]] = t
      /\ idx[t] <= Len(m_appenders[at[t]]) + 1
      /\ InOrder(wrote[t], m_appenders[at[t]],
                 Admitting(at[t], call[t].what, idx[t] - 1))
      /\ at[t] # call[t].logger =>
           /\ at[t] = Root
           /\ m_appenders[call[t].logger] = <<>> /\ lock[call[t].logger] = t
  BY <1>1 DEF WInv, WalkInv, Logging
<1>4. idx[t] - 1 = Len(m_appenders[at[t]])
  <2>1. Len(m_appenders[at[t]]) \in Nat /\ idx[t] \in Nat
    BY <1>2, <1>3 DEF ObjType, CallType
  <2> QED BY <1>1, <1>3, <2>1
<1>5. InOrder(wrote[t], m_appenders[at[t]],
              Admitting(at[t], call[t].what, Len(m_appenders[at[t]])))
  BY <1>3, <1>4
<1>6. NoRepeat' /\ \A u \in Threads : Calm(u)
  BY <1>1 DEF WInv, NoRepeat, Calm
<1> DEFINE ToRoot == /\ m_appenders[at[t]] = <<>> /\ m_root[at[t]] # Null
                     /\ call[t].what >= m_level[Root]
<1>7. CASE ToRoot
  <2>1. /\ pc' = [pc EXCEPT ![t] = "log"] /\ at' = [at EXCEPT ![t] = Root]
        /\ idx' = [idx EXCEPT ![t] = 1]
    BY <1>7 DEF LogRest
  <2>2. Others(t) /\ pc'[t] = "log" /\ at'[t] = Root /\ idx'[t] = 1
    BY <1>1, <1>2, <2>1 DEF CallType, Others, Still
  <2>3. at[t] = call[t].logger
    BY <1>3, <1>7 DEF WInv
  <2>4. wrote[t] = <<>>
    <3>1. Admitting(at[t], call[t].what, Len(m_appenders[at[t]])) = {}
      BY <1>7, AdmittingNext
    <3>2. wrote[t] \in Seq(Appenders)
      BY <1>2 DEF CallType
    <3> QED BY <1>5, <3>1, <3>2, InOrderNone
  <2>5. WalkInv(t)'
    BY <1>1, <1>2, <1>3, <1>7, <2>2, <2>3, <2>4 DEF WalkInv, Logging, ObjType
  <2> QED BY <1>1, <1>6, <2>2, <2>5, MoveWalk DEF WInv
<1>8. CASE ~ToRoot
  <2>1. pc' = [pc EXCEPT ![t] = "done"] /\ UNCHANGED <<at, idx>>
    BY <1>8 DEF LogRest
  <2>2. Others(t) /\ pc'[t] = "done"
    BY <1>1, <1>2, <2>1 DEF CallType, Others, Still
  <2>3. m_appenders[at[t]] = <<>> =>
          m_root[at[t]] = Null \/ call[t].what < m_level[Root]
    <3>1. call[t].what \in Int /\ m_level[Root] \in Int
      BY <1>1, <1>2, LoggerAssumption
         DEF IInv, LogInv, LogPC, ObjType, Objects, Levels
    <3> QED BY <1>8, <3>1
  <2>4. InOrder(wrote[t], m_appenders[at[t]],
                Admitting(at[t], call[t].what, Len(m_appenders[at[t]])))'
    <3>1. Admitting(at[t], call[t].what, Len(m_appenders[at[t]]))' =
          Admitting(at[t], call[t].what, Len(m_appenders[at[t]]))
      BY <1>1, <2>1 DEF Admitting
    <3> QED BY <1>1, <1>5, <2>1, <3>1
  <2>5. WalkInv(t)'
    BY <1>1, <1>3, <2>1, <2>2, <2>3, <2>4 DEF WalkInv, Logging
  <2> QED BY <1>1, <1>6, <2>2, <2>5, MoveWalk DEF WInv
<1> QED BY <1>7, <1>8

LEMMA AddCheckWalk ==
  ASSUME IInv, WInv, NEW t \in Threads, AddCheck(t)
  PROVE  WInv'
<1>1. /\ pc[t] = "add" /\ lock[at[t]] = Null
      /\ lock' = [lock EXCEPT ![at[t]] = t]
      /\ idx' = [idx EXCEPT ![t] =
                   IF m_formatter[call[t].what] = Null THEN 0 ELSE 1]
      /\ pc' = [pc EXCEPT ![t] = "push"]
      /\ UNCHANGED <<made, m_root, m_level, m_appenders>>
      /\ UNCHANGED <<call, at, wrote>>
  BY DEF AddCheck, objs
<1>2. ObjType /\ CallType /\ at[t] \in Loggers
  BY <1>1, InvType DEF IInv, AddInv, AddPC, ObjType
<1>3. Others(t) /\ pc'[t] = "push"
  BY <1>1, <1>2 DEF CallType, Others, Still
<1>4. lock'[at[t]] = t /\ \A l \in Loggers : l # at[t] => lock'[l] = lock[l]
  BY <1>1, <1>2 DEF CallType
<1>5. NoRepeat' /\ \A u \in Threads : u # t => Calm(u)
  BY <1>1, <1>4, LoggerAssumption DEF WInv, NoRepeat, Calm
<1>6. WalkInv(t)'
  BY <1>1, <1>3, <1>4 DEF WalkInv, Logging
<1> QED BY <1>1, <1>3, <1>5, <1>6, MoveWalk DEF WInv

LEMMA AddPushWalk ==
  ASSUME IInv, WInv, NEW t \in Threads, AddPush(t)
  PROVE  WInv'
<1> DEFINE l == at[t]
           a == call[t].what
<1>1. /\ pc[t] = "push" /\ Return(t)
      /\ m_appenders' = [m_appenders EXCEPT ![l] = Append(@, a)]
      /\ UNCHANGED <<made, m_root, m_level>>
  BY DEF AddPush
<1>2. /\ l \in Loggers /\ a \in Appenders /\ a \notin Range(m_appenders[l])
      /\ lock[l] = t /\ m_appenders \in [Loggers -> Seq(Appenders)]
  BY <1>1, InvType DEF IInv, AddInv, AddPC, ObjType, WInv, WalkInv
<1> HIDE DEF l, a
<1>3. \A k \in Loggers : m_appenders'[k] = IF k = l
        THEN Append(m_appenders[l], a) ELSE m_appenders[k]
  BY <1>1, <1>2
<1>4. \A h, j \in DOMAIN Append(m_appenders[l], a) :
        Append(m_appenders[l], a)[h] = Append(m_appenders[l], a)[j] => h = j
  BY <1>2, AppendNoRepeat DEF WInv, NoRepeat
<1>5. NoRepeat'
  BY <1>3, <1>4 DEF WInv, NoRepeat
<1> QED BY <1>1, <1>2, <1>3, <1>5, ReturnWalk

----------------------------------------------------------------------------
(* toYamlString() takes free locks only, and releases its own. *)
LEMMA DumpWalk ==
  ASSUME IInv, WInv, NEW t \in Threads, Dump(t) \/ ContinueDump(t)
  PROVE  WInv'
<1>1. /\ UNCHANGED <<made, m_root, m_level, m_appenders>>
      /\ CallType /\ made \subseteq Loggers /\ NoRepeat'
  BY InvType DEF Dump, ContinueDump, DumpLogger, DumpNext, DumpReturn, objs,
                 ObjType, WInv, NoRepeat
<1>2. CASE Dump(t)
  <2>1. Others(t) /\ pc'[t] = "dump" /\ UNCHANGED lock
    BY <1>2, BeginMoves DEF Dump
  <2>2. \A u \in Threads : Calm(u)
    BY <1>1, <2>1 DEF Calm
  <2>3. WalkInv(t)'
    BY <2>1 DEF WalkInv, Logging
  <2> QED BY <1>1, <2>1, <2>2, <2>3, MoveWalk DEF WInv
<1>3. ASSUME NEW l \in Loggers, DumpLogger(t, l) PROVE WInv'
  <2>1. /\ lock' = [lock EXCEPT ![l] = t] /\ at' = [at EXCEPT ![t] = l]
        /\ pc' = [pc EXCEPT ![t] = "dump_logger"]
        /\ UNCHANGED <<call, idx, wrote, ops>>
        /\ lock[l] = Null /\ l \in made
    BY <1>3 DEF DumpLogger, Managed
  <2>2. Others(t) /\ pc'[t] = "dump_logger" /\ at'[t] = l /\ lock'[l] = t
    BY <1>1, <2>1 DEF CallType, Others, Still
  <2>3. \A u \in Threads : u # t => Calm(u)
    BY <1>1, <2>1, LoggerAssumption DEF Calm, CallType
  <2>4. WalkInv(t)'
    BY <1>1, <2>1, <2>2 DEF WalkInv, Logging
  <2> QED BY <1>1, <2>2, <2>3, <2>4, MoveWalk DEF WInv
<1>4. CASE DumpNext(t)
  <2>1. /\ lock' = [lock EXCEPT ![at[t]] = Null]
        /\ at' = [at EXCEPT ![t] = Null]
        /\ pc' = [pc EXCEPT ![t] = "dump"]
        /\ UNCHANGED <<call, idx, wrote, ops>>
        /\ pc[t] = "dump_logger"
    BY <1>4 DEF DumpNext
  <2>2. at[t] \in made /\ lock[at[t]] = t
    BY <2>1 DEF WInv, WalkInv
  <2>3. Others(t) /\ pc'[t] = "dump"
    BY <1>1, <2>1 DEF CallType, Others, Still
  <2>4. \A u \in Threads : u # t => Calm(u)
    BY <1>1, <2>1, <2>2 DEF Calm, CallType
  <2>5. WalkInv(t)'
    BY <2>3 DEF WalkInv, Logging
  <2> QED BY <1>1, <2>3, <2>4, <2>5, MoveWalk DEF WInv
<1>5. CASE DumpReturn(t)
  BY <1>1, <1>5, ReturnWalk DEF DumpReturn
<1> QED BY <1>2, <1>3, <1>4, <1>5 DEF ContinueDump

LEMMA NextWalk ==
  ASSUME IInv, WInv, Contract = Clauses, [Next]_vars
  PROVE  WInv'
<1>1. CASE UNCHANGED vars
  BY <1>1 DEF vars, objs, WInv, NoRepeat, WalkInv, Logging, Admitting
<1>2. CASE Next
  <2>1. PICK t \in Threads :
          Calls(t) \/ Continue(t) \/ Dump(t) \/ ContinueDump(t)
    BY <1>2 DEF Next, Inside
  <2>2. ASSUME NEW l \in Loggers, GetLogger(t, l) \/ OwnLogger(t, l)
        PROVE  WInv'
    BY <2>2, NewLoggerWalk DEF GetLogger, OwnLogger
  <2>3. ASSUME NEW l \in Loggers, NEW level \in Levels, LogMacro(t, l, level)
        PROVE  WInv'
    BY <2>3, BeginWalk DEF LogMacro
  <2>4. ASSUME NEW l \in Loggers, NEW a \in Appenders, AddAppender(t, l, a)
        PROVE  WInv'
    BY <2>4, BeginWalk DEF AddAppender
  <2>5. ASSUME NEW o \in Objects, NEW level \in Levels, SetLevel(t, o, level)
        PROVE  WInv'
    BY <2>5, SetterWalk DEF SetLevel, Demand, Clauses
  <2>6. ASSUME NEW l \in Loggers, NEW f, SetFormatter(t, l, f)
        PROVE  WInv'
    BY <2>6, SetterWalk DEF SetFormatter
  <2>7. ASSUME NEW a \in Appenders, NEW f, SetOwnFormatter(t, a, f)
        PROVE  WInv'
    BY <2>7, SetterWalk DEF SetOwnFormatter
  <2>8. CASE Calls(t)
    BY <2>2, <2>3, <2>4, <2>5, <2>6, <2>7, <2>8, DelAppenderWalk,
       ClearAppenderWalk DEF Calls
  <2>9. ASSUME LogReturn(t) PROVE WInv'
    <3>1. Return(t) /\ UNCHANGED <<made, m_root, m_level, m_appenders>>
      BY <2>9 DEF LogReturn, objs
    <3>2. NoRepeat'
      BY <3>1 DEF WInv, NoRepeat
    <3> QED BY <3>1, <3>2, ReturnWalk
  <2>10. CASE Continue(t)
    BY <2>9, <2>10, LogCheckWalk, LogLockWalk, LogNextWalk, LogRestWalk,
       AddCheckWalk, AddPushWalk DEF Continue
  <2> QED BY <2>1, <2>8, <2>10, DumpWalk
<1> QED BY <1>1, <1>2

(* Together with IInv it says that events are written as they should. *)
LEMMA WalkDone ==
  ASSUME IInv, WInv
  PROVE  WrittenOnce
<1> SUFFICES ASSUME NEW t \in Threads, pc[t] = "done"
    PROVE  LET l == call[t].logger
               level == call[t].what
           IN
           /\ InOrder(wrote[t], m_appenders[at[t]],
                      Admitting(at[t], level, Len(m_appenders[at[t]])))
           /\ \A h, j \in DOMAIN wrote[t] : wrote[t][h] = wrote[t][j] => h = j
           /\ IF at[t] # l THEN m_appenders[l] = <<>>
              ELSE m_appenders[l] = <<>> =>
                     m_root[l] = Null \/ level < m_level[Root]
  BY DEF WrittenOnce
<1>1. WalkInv(t) /\ Logging(t)
  BY DEF WInv, Logging
<1>2. at[t] \in Loggers
  BY <1>1, InvType DEF WalkInv, ObjType
<1> DEFINE list == m_appenders[at[t]]
           P == Admitting(at[t], call[t].what, Len(list))
<1>3. /\ wrote[t] \in Seq(Appenders) /\ list \in Seq(Appenders)
      /\ \A h, j \in DOMAIN list : list[h] = list[j] => h = j
  BY <1>2, InvType DEF ObjType, CallType, WInv, NoRepeat
<1>4. P \in SUBSET DOMAIN list
  BY <1>3 DEF Admitting
<1>5. InOrder(wrote[t], list, P)
  BY <1>1 DEF WalkInv
<1>6. \A h, j \in DOMAIN wrote[t] : wrote[t][h] = wrote[t][j] => h = j
  <2> HIDE DEF list, P
  <2> QED BY <1>3, <1>4, <1>5, InOrderOnce
<1> QED BY <1>1, <1>5, <1>6 DEF WalkInv

----------------------------------------------------------------------------
(* The inductive invariant holds throughout, if callers keep the contract. *)
THEOREM Invariant ==
  ASSUME Contract = Clauses
  PROVE  Spec => [](IInv /\ WInv)
<1>1. Init => IInv /\ WInv
  BY InitInv, InitWalk
<1>2. IInv /\ WInv /\ [Next]_vars => IInv' /\ WInv'
  BY NextInv, NextWalk
<1> QED BY <1>1, <1>2, PTL DEF Spec

(* Every field of a logger, an appender or a call keeps its type; a logger
   that exists has a formatter. *)
THEOREM TypeCorrect ==
  ASSUME Contract = Clauses
  PROVE  Spec => []TypeOK
<1> DEFINE DumpType == manager \in Threads \cup {Null} /\ dumped \subseteq Loggers
<1>1. Init => DumpType
  BY DEF Init
<1>2. IInv /\ WInv /\ DumpType /\ [Next]_vars => DumpType'
  <2> SUFFICES ASSUME IInv, WInv, DumpType, [Next]_vars PROVE DumpType'
    OBVIOUS
  <2>1. CASE UNCHANGED mgr
    BY <2>1 DEF mgr
  <2>2. ASSUME NEW t \in Threads, Dump(t) \/ ContinueDump(t) PROVE DumpType'
    <3>1. at[t] \in Loggers \/ pc[t] # "dump_logger"
      BY InvType DEF ObjType, WInv, WalkInv
    <3> QED BY <2>2, <3>1 DEF Dump, ContinueDump, DumpLogger, DumpNext,
                              DumpReturn, mgr
  <2> QED BY <2>1, <2>2 DEF Next, Inside, vars
<1>3. IInv /\ DumpType => TypeOK
  BY DEF IInv, NothingBad, ObjType, CallType, TypeOK
<1> HIDE DEF DumpType
<1> QED BY <1>1, <1>2, <1>3, Invariant, PTL DEF Spec

(* No list of appenders changes under the thread that walks or extends it,
   and no event reaches an appender without a formatter, with any number of
   threads logging and reconfiguring. *)
THEOREM NeverBad ==
  ASSUME Contract = Clauses
  PROVE  Spec => []NothingBad
<1>1. IInv => NothingBad
  BY DEF IInv
<1> QED BY <1>1, Invariant, PTL

(* An appender without a formatter of its own formats as its logger does:
   what the comment at log.cc:532 asks of Logger::setFormatter. *)
THEOREM AppendersFollow ==
  ASSUME Contract = Clauses
  PROVE  Spec => []FormattersFollow
<1>1. IInv => FormattersFollow
  BY DEF IInv
<1> QED BY <1>1, Invariant, PTL

(* Neither addAppender nor Logger::setFormatter replaces a formatter that was
   given to the appender itself. *)
THEOREM OwnStays ==
  ASSUME Contract = Clauses
  PROVE  Spec => []OwnFormatterKept
<1>1. IInv => OwnFormatterKept
  BY DEF IInv, OwnInv, OwnFormatterKept
<1> QED BY <1>1, Invariant, PTL

(* An event is written once by each appender of one logger that admits it, in
   the order of its list; the root's appenders write it only if the logger
   has none: with any number of threads logging and changing the loggers. *)
THEOREM EventsWrittenOnce ==
  ASSUME Contract = Clauses
  PROVE  Spec => []WrittenOnce
<1>1. IInv /\ WInv => WrittenOnce
  BY WalkDone
<1> QED BY <1>1, Invariant, PTL

----------------------------------------------------------------------------
(* The formatters themselves: LogFormatter::init(), which decides whether    *)
(* Logger::setFormatter takes a pattern.  Its state is apart from the        *)
(* loggers'.                                                                 *)

(* Numbers have a least one. *)
LEMMA LeastNumber ==
  ASSUME NEW S \in SUBSET Nat, S # {}
  PROVE  \E k \in S : \A j \in S : k <= j
<1> DEFINE R == {ss \in Nat \X Nat : ss[1] < ss[2]}
<1>1. IsWellFoundedOn(R, Nat)
  BY NatLessThanWellFounded DEF OpToRel
<1>2. PICK k \in S : \A j \in S : ~(<<j, k>> \in R)
  BY <1>1, WFMin, Zenon
<1>3. \A j \in S : j < k => <<j, k>> \in R
  OBVIOUS
<1>4. k \in Nat /\ \A j \in S : j \in Nat
  OBVIOUS
<1> HIDE DEF R
<1>5. \A j \in S : ~(j < k)
  BY <1>2, <1>3, Zenon
<1>6. \A j \in S : k <= j
  BY <1>4, <1>5
<1> QED BY <1>6, Zenon

(* The sequences of s up to each position, one behind the other. *)
Joins(f, s, n) ==
  \A k \in 1..n : f[k] = IF k = 1 THEN s[k] ELSE f[k - 1] \o s[k]

(* FlattenSeq is a recursive function.  That there is one such, and only one,
   follows from the least position where there would be none or two. *)
LEMMA JoinsUnique ==
  ASSUME NEW s, NEW n \in Nat, NEW f, NEW g, Joins(f, s, n), Joins(g, s, n)
  PROVE  \A k \in 1..n : f[k] = g[k]
<1> SUFFICES ASSUME NEW b \in 1..n, f[b] # g[b] PROVE FALSE
  OBVIOUS
<1> DEFINE S == {k \in 1..n : f[k] # g[k]}
<1>1. PICK k \in S : \A j \in S : k <= j
  <2>1. S \in SUBSET Nat /\ S # {}
    OBVIOUS
  <2> QED BY <2>1, LeastNumber, Zenon
<1>2. k \in 1..n /\ f[k] # g[k]
  OBVIOUS
<1>3. CASE k = 1
  BY <1>2, <1>3 DEF Joins
<1>4. CASE k # 1
  <2>1. k - 1 \in 1..n /\ k - 1 \notin S
    BY <1>1, <1>2, <1>4
  <2>2. f[k - 1] = g[k - 1]
    BY <2>1
  <2> QED BY <1>2, <1>4, <2>2 DEF Joins
<1> QED BY <1>3, <1>4

LEMMA JoinsExists ==
  ASSUME NEW C, NEW s \in Seq(Seq(C))
  PROVE  \E f \in [1..Len(s) -> Seq(C)] : Joins(f, s, Len(s))
<1> DEFINE P(n) == \E f \in [1..n -> Seq(C)] : Joins(f, s, n)
<1> SUFFICES ASSUME ~P(Len(s)) PROVE FALSE
  OBVIOUS
<1> DEFINE S == {n \in 0..Len(s) : ~P(n)}
<1>1. PICK n \in S : \A j \in S : n <= j
  <2>1. S \in SUBSET Nat /\ Len(s) \in S
    OBVIOUS
  <2> QED BY <2>1, LeastNumber, Zenon
<1>2. n \in 0..Len(s) /\ ~P(n)
  OBVIOUS
<1>3. P(0)
  <2>1. [k \in 1..0 |-> <<>>] \in [1..0 -> Seq(C)]
    OBVIOUS
  <2>2. Joins([k \in 1..0 |-> <<>>], s, 0)
    BY DEF Joins
  <2> QED BY <2>1, <2>2
<1>4. n # 0
  BY <1>2, <1>3
<1>5. P(n - 1)
  <2> HIDE DEF P
  <2>1. n - 1 \in 0..Len(s) /\ ~(n <= n - 1)
    BY <1>2, <1>4
  <2>2. n - 1 \notin S
    <3> HIDE DEF S
    <3> QED BY <1>1, <2>1
  <2> QED BY <2>1, <2>2
<1>6. PICK f \in [1..(n - 1) -> Seq(C)] : Joins(f, s, n - 1)
  BY <1>5
<1> DEFINE g == [k \in 1..n |-> IF k < n THEN f[k]
                               ELSE IF k = 1 THEN s[k] ELSE f[k - 1] \o s[k]]
<1>7. \A k \in 1..n : s[k] \in Seq(C)
  BY <1>2
<1>8. g \in [1..n -> Seq(C)]
  <2> SUFFICES ASSUME NEW k \in 1..n
               PROVE  (IF k < n THEN f[k] ELSE IF k = 1 THEN s[k] ELSE f[k - 1] \o s[k])
                        \in Seq(C)
    OBVIOUS
  <2>1. CASE k < n
    BY <1>2, <2>1
  <2>2. CASE k >= n /\ k = 1
    BY <1>2, <1>7, <2>2
  <2>3. CASE k >= n /\ k # 1
    <3>1. f[k - 1] \in Seq(C) /\ s[k] \in Seq(C)
      BY <1>2, <1>7, <2>3
    <3> QED BY <2>3, <3>1
  <2> QED BY <1>2, <2>1, <2>2, <2>3
<1>9. Joins(g, s, n)
  <2> SUFFICES ASSUME NEW k \in 1..n
               PROVE  g[k] = IF k = 1 THEN s[k] ELSE g[k - 1] \o s[k]
    BY DEF Joins
  <2>1. k # 1 => g[k - 1] = f[k - 1]
    BY <1>2
  <2>2. ASSUME k < n PROVE f[k] = IF k = 1 THEN s[k] ELSE f[k - 1] \o s[k]
    <3>1. k \in 1..(n - 1)
      BY <1>2, <2>2
    <3> QED BY <1>6, <3>1, Zenon DEF Joins
  <2> QED BY <1>2, <2>1, <2>2
<1> HIDE DEF g
<1> QED BY <1>2, <1>8, <1>9

LEMMA FlattenIsJoin ==
  ASSUME NEW C, NEW s \in Seq(Seq(C)), s # <<>>,
         NEW f \in [1..Len(s) -> Seq(C)], Joins(f, s, Len(s))
  PROVE  FlattenSeq(s) = f[Len(s)]
<1> DEFINE Is(g) == g = [k \in 1..Len(s) |-> IF k = 1 THEN s[k] ELSE g[k - 1] \o s[k]]
           h == CHOOSE g : Is(g)
<1>1. Len(s) # 0 /\ Len(s) \in Nat
  OBVIOUS
<1>2. FlattenSeq(s) = h[Len(s)]
  BY <1>1 DEF FlattenSeq
<1>3. Is(f)
  BY DEF Joins
<1>4. Is(h)
  <2> HIDE DEF Is
  <2> QED BY <1>3, Zenon
<1>5. Joins(h, s, Len(s))
  <2> HIDE DEF h
  <2> QED BY <1>4 DEF Joins
<1> HIDE DEF h
<1>6. h[Len(s)] = f[Len(s)]
  BY <1>1, <1>5, JoinsUnique
<1> QED BY <1>2, <1>6

(* So FlattenSeq can be read from the end. *)
LEMMA FlattenAppend ==
  ASSUME NEW C, NEW s \in Seq(Seq(C)), NEW x \in Seq(C)
  PROVE  /\ FlattenSeq(s) \in Seq(C)
         /\ FlattenSeq(Append(s, x)) = FlattenSeq(s) \o x
<1> DEFINE S == Append(s, x)
           n == Len(s)
<1>1. S \in Seq(Seq(C)) /\ S # <<>> /\ Len(S) = n + 1 /\ n \in Nat
      /\ (\A k \in 1..n : S[k] = s[k]) /\ S[n + 1] = x
  BY AppendProperties
<1>2. PICK g \in [1..Len(S) -> Seq(C)] : Joins(g, S, Len(S))
  BY <1>1, JoinsExists
<1>3. FlattenSeq(S) = g[n + 1]
  BY <1>1, <1>2, FlattenIsJoin
<1>4. CASE s = <<>>
  <2>1. n = 0 /\ g[1] = x
    BY <1>1, <1>2, <1>4 DEF Joins
  <2>2. FlattenSeq(s) = <<>>
    BY <1>4, <2>1 DEF FlattenSeq
  <2> QED BY <1>3, <2>1, <2>2, ConcatEmptySeq
<1>5. CASE s # <<>>
  <2> DEFINE f == [k \in 1..n |-> g[k]]
  <2>1. f \in [1..n -> Seq(C)]
    BY <1>1
  <2>2. Joins(f, s, n)
    <3> SUFFICES ASSUME NEW k \in 1..n
                 PROVE  f[k] = IF k = 1 THEN s[k] ELSE f[k - 1] \o s[k]
      BY DEF Joins
    <3>1. k \in 1..Len(S) /\ S[k] = s[k] /\ f[k] = g[k]
          /\ (k # 1 => f[k - 1] = g[k - 1])
      BY <1>1
    <3>2. g[k] = IF k = 1 THEN S[k] ELSE g[k - 1] \o S[k]
      BY <1>2, <3>1, Zenon DEF Joins
    <3> QED BY <3>1, <3>2, Zenon
  <2>3. FlattenSeq(s) = f[n]
    BY <1>5, <2>1, <2>2, FlattenIsJoin
  <2>4. n > 0 /\ f[n] = g[n] /\ g[n] \in Seq(C)
    BY <1>1, <1>5
  <2>5. g[n + 1] = g[n] \o x
    <3>1. n + 1 \in 1..Len(S) /\ n + 1 # 1 /\ (n + 1) - 1 = n
      BY <1>1, <2>4
    <3> HIDE DEF S, n
    <3>2. g[n + 1] = g[(n + 1) - 1] \o S[n + 1]
      BY <1>2, <3>1 DEF Joins
    <3> QED BY <1>1, <3>1, <3>2
  <2> QED BY <1>3, <2>3, <2>4, <2>5
<1> QED BY <1>4, <1>5
----------------------------------------------------------------------------
(* Where the inner loop of init() and the words of a pattern end. *)
LEMMA LeastOr ==
  ASSUME NEW S \in SUBSET Nat, NEW d
  PROVE  IF S = {} THEN Min0(S, d) = d
         ELSE Min0(S, d) \in S /\ \A k \in S : Min0(S, d) <= k
<1>1. CASE S = {}
  BY <1>1 DEF Min0
<1>2. CASE S # {}
  <2>1. PICK k \in S : \A j \in S : k <= j
    BY <1>2, LeastNumber
  <2>2. Min(S) \in S /\ \A j \in S : Min(S) <= j
    BY <2>1, Zenon DEF Min
  <2> QED BY <1>2, <2>2 DEF Min0
<1> QED BY <1>1, <1>2

LEMMA PatternShape ==
  ASSUME Patterns \subseteq Seq(Chars), ParserTypeOK
  PROVE  /\ m_pattern \in Seq(Chars) /\ Len(m_pattern) \in Nat
         /\ DOMAIN m_pattern = 1..Len(m_pattern)
         /\ \A k \in 1..Len(m_pattern) : m_pattern[k] \in Chars
         /\ i \in Nat /\ i >= 1 /\ i <= Len(m_pattern) + 1
<1>1. m_pattern \in Seq(Chars)
  BY DEF ParserTypeOK
<1> QED BY <1>1 DEF ParserTypeOK

(* The inner loop leaves the % behind and stays in the pattern. *)
LEMMA ScanStays ==
  ASSUME Patterns \subseteq Seq(Chars), ParserTypeOK, i <= Len(m_pattern)
  PROVE  /\ Scan.n \in (i + 1)..(Len(m_pattern) + 1)
         /\ Scan.fmt \in Seq(Chars)
<1> DEFINE L == Len(m_pattern)
           end == WordEnd(i + 1)
           open == Find({"{"}, i + 1, end)
           close == Find({"}"}, open + 1, end)
<1>1. L \in Nat /\ i \in 1..L /\ \A k \in 1..L : m_pattern[k] \in Chars
  BY PatternShape
<1>2. end \in (i + 1)..(L + 1)
  <2> DEFINE S == {k \in (i + 1)..L : m_pattern[k] \notin Letters \cup {"{", "}"}}
  <2>1. end = Min0(S, L + 1)
    BY DEF WordEnd
  <2>2. S \subseteq (i + 1)..L
    BY Zenon
  <2>a. (i + 1)..L \subseteq Nat
    BY <1>1
  <2> HIDE DEF S, end, L
  <2>3. end = L + 1 \/ end \in S
    <3>1. S \in SUBSET Nat
      BY <2>2, <2>a, Zenon
    <3> QED BY <2>1, <3>1, LeastOr
  <2>4. end = L + 1 \/ end \in (i + 1)..L
    BY <2>2, <2>3, Zenon
  <2> QED BY <1>1, <2>4
<1> HIDE DEF L, end
<1>3. open \in (i + 1)..end
  <2> DEFINE S == {k \in (i + 1)..(end - 1) : m_pattern[k] \in {"{"}}
  <2>1. open = Min0(S, end)
    BY DEF Find
  <2>2. S \subseteq (i + 1)..(end - 1)
    BY Zenon
  <2>a. (i + 1)..(end - 1) \subseteq Nat
    BY <1>1, <1>2
  <2> HIDE DEF S, open
  <2>3. open = end \/ open \in S
    <3>1. S \in SUBSET Nat
      BY <2>2, <2>a, Zenon
    <3> QED BY <2>1, <3>1, LeastOr
  <2>4. open = end \/ open \in (i + 1)..(end - 1)
    BY <2>2, <2>3, Zenon
  <2> QED BY <1>1, <1>2, <2>4
<1> HIDE DEF open
<1>4. close = end \/ close \in (open + 1)..(end - 1)
  <2> DEFINE S == {k \in (open + 1)..(end - 1) : m_pattern[k] \in {"}"}}
  <2>1. close = Min0(S, end)
    BY DEF Find
  <2>2. S \subseteq (open + 1)..(end - 1)
    BY Zenon
  <2>a. (open + 1)..(end - 1) \subseteq Nat
    BY <1>1, <1>2, <1>3
  <2> HIDE DEF S, close
  <2>3. close = end \/ close \in S
    <3>1. S \in SUBSET Nat
      BY <2>2, <2>a, Zenon
    <3> QED BY <2>1, <3>1, LeastOr
  <2> QED BY <2>2, <2>3, Zenon
<1> HIDE DEF close
<1>5. Scan =
        IF open = end THEN [n |-> end, fmt_status |-> 0, fmt |-> <<>>]
        ELSE IF close = end THEN [n |-> end, fmt_status |-> 1, fmt |-> <<>>]
        ELSE [n |-> close + 1, fmt_status |-> 0,
              fmt |-> SubSeq(m_pattern, open + 2,
                             IF close = open + 1 THEN Len(m_pattern) ELSE close - 1)]
  BY DEF Scan, end, open, close
<1>6. CASE open = end \/ close = end
  <2>1. Scan.n = end /\ Scan.fmt = <<>>
    BY <1>5, <1>6
  <2> QED BY <1>2, <2>1 DEF L
<1>7. CASE open # end /\ close # end
  <2> DEFINE last == IF close = open + 1 THEN L ELSE close - 1
  <2>1. Scan.n = close + 1 /\ Scan.fmt = SubSeq(m_pattern, open + 2, last)
    BY <1>5, <1>7 DEF L
  <2>2. last \in Int /\ open + 2 \in Int /\ open + 2 >= 1 /\ last <= L
    BY <1>1, <1>2, <1>3, <1>4, <1>7
  <2>3. \A k \in (open + 2)..last : m_pattern[k] \in Chars
    BY <1>1, <2>2
  <2>4. SubSeq(m_pattern, open + 2, last) \in Seq(Chars)
    <3> HIDE DEF last
    <3> QED BY <2>2, <2>3, SubSeqProperties
  <2>5. close + 1 \in (i + 1)..(L + 1)
    BY <1>1, <1>2, <1>3, <1>4, <1>7
  <2> QED BY <2>1, <2>4, <2>5 DEF L
<1> QED BY <1>6, <1>7
LEMMA IsSeq ==
  ASSUME NEW S, NEW n \in Nat, NEW f \in [1..n -> S]
  PROVE  f \in Seq(S) /\ Len(f) = n
<1>1. f \in Seq(S)
  BY SeqDef, Zenon
<1> QED BY <1>1

(* The parser keeps its types. *)
LEMMA EntryTyped ==
  ASSUME NEW str \in Seq(Chars \cup {"pattern_error"}), NEW fmt \in Seq(Chars),
         NEW type \in {0, 1}
  PROVE  Entry(str, fmt, type) \in Entries
BY DEF Entry, Entries

LEMMA FlushedTyped ==
  ASSUME ParserTypeOK
  PROVE  Flushed \in Seq(Entries)
<1>1. nstr \in Seq(Chars \cup {"pattern_error"}) /\ <<>> \in Seq(Chars)
  BY SeqMonotonic DEF ParserTypeOK
<1>2. Entry(nstr, <<>>, 0) \in Entries
  BY <1>1, EntryTyped
<1> QED BY <1>2 DEF Flushed, ParserTypeOK

LEMMA WordTyped ==
  ASSUME NEW p \in Seq(Chars), NEW a \in Nat, a >= 1, NEW b \in Int, b <= Len(p)
  PROVE  SubSeq(p, a, b) \in Seq(Chars)
<1>1. \A k \in a..b : p[k] \in Chars
  OBVIOUS
<1> QED BY <1>1, SubSeqProperties

LEMMA ItemTyped ==
  ASSUME NEW e \in Entries
  PROVE  ItemOf(e) \in Items
<1>1. /\ e.str \in Seq(Chars \cup {"pattern_error"}) /\ e.fmt \in Seq(Chars)
      /\ <<>> \in Seq(Chars)
  BY DEF Entries
<1> QED BY <1>1 DEF ItemOf, Items

LEMMA ParserTypes ==
  ASSUME Patterns \subseteq Seq(Chars), ParserTypeOK, ParserNext
  PROVE  ParserTypeOK'
<1>1. /\ m_pattern \in Seq(Chars) /\ Len(m_pattern) \in Nat
      /\ \A k \in 1..Len(m_pattern) : m_pattern[k] \in Chars
      /\ i \in Nat /\ i >= 1 /\ i <= Len(m_pattern) + 1
  BY PatternShape
<1> USE DEF ParserTypeOK
<1>2. CASE Literal
  <2>1. i <= Len(m_pattern)
    BY <1>2 DEF Literal, Reading
  <2>2. m_pattern[i] \in Chars
    BY <1>1, <2>1
  <2>3. nstr' \in Seq(Chars)
    BY <1>2, <2>2 DEF Literal
  <2>4. i' \in 1..(Len(m_pattern') + 1)
    BY <1>1, <1>2, <2>1 DEF Literal
  <2> QED BY <1>2, <2>3, <2>4 DEF Literal
<1>3. CASE Escape
  <2>1. i <= Len(m_pattern) /\ m_pattern[i] = "%"
    BY <1>3 DEF Escape, Reading, Escaped
  <2>2. "%" \in Chars
    BY <1>1, <2>1
  <2>3. nstr' \in Seq(Chars)
    BY <1>3, <2>2 DEF Escape
  <2>4. i' \in 1..(Len(m_pattern') + 1)
    BY <1>1, <1>3, <2>1 DEF Escape
  <2> QED BY <1>3, <2>3, <2>4 DEF Escape
<1>4. CASE Item
  <2>1. i <= Len(m_pattern)
    BY <1>4 DEF Item, Reading
  <2>2. Scan.n \in (i + 1)..(Len(m_pattern) + 1) /\ Scan.fmt \in Seq(Chars)
    BY <2>1, ScanStays
  <2>3. SubSeq(m_pattern, i + 1, Scan.n - 1) \in Seq(Chars)
    BY <1>1, <2>2, WordTyped
  <2>4. Entry(SubSeq(m_pattern, i + 1, Scan.n - 1), Scan.fmt, 1) \in Entries
    BY <2>2, <2>3, SeqMonotonic, EntryTyped
  <2>5. vec' \in Seq(Entries)
    BY <1>4, <2>4, FlushedTyped DEF Item
  <2>6. i' \in 1..(Len(m_pattern') + 1)
    BY <1>1, <1>4, <2>2 DEF Item
  <2>7. nstr' \in Seq(Chars)
    BY <1>4 DEF Item
  <2> QED BY <1>4, <2>5, <2>6, <2>7 DEF Item
<1>5. CASE Unclosed
  <2>1. i <= Len(m_pattern)
    BY <1>5 DEF Unclosed, Reading
  <2>2. Scan.fmt \in Seq(Chars)
    BY <2>1, ScanStays
  <2>3. <<"pattern_error">> \in Seq(Chars \cup {"pattern_error"})
    OBVIOUS
  <2>4. Entry(<<"pattern_error">>, Scan.fmt, 0) \in Entries
    BY <2>2, <2>3, EntryTyped
  <2>5. vec' \in Seq(Entries)
    BY <1>5, <2>4 DEF Unclosed
  <2>6. i' \in 1..(Len(m_pattern') + 1)
    BY <1>1, <1>5, <2>1 DEF Unclosed
  <2> QED BY <1>5, <2>5, <2>6 DEF Unclosed
<1>6. CASE LastText
  <2>1. vec' \in Seq(Entries) /\ nstr' \in Seq(Chars)
    BY <1>6, FlushedTyped DEF LastText
  <2> QED BY <1>6, <2>1 DEF LastText
<1>7. CASE MakeItems
  <2>1. \A k \in DOMAIN vec : ItemOf(vec[k]) \in Items
    BY ItemTyped
  <2>2. m_items' \in Seq(Items)
    <3>1. Len(vec) \in Nat /\ DOMAIN vec = 1..Len(vec)
      OBVIOUS
    <3>2. m_items' \in [1..Len(vec) -> Items]
      BY <1>7, <2>1, <3>1 DEF MakeItems
    <3> QED BY <3>1, <3>2, IsSeq
  <2>3. m_error' \in BOOLEAN
    BY <1>7 DEF MakeItems
  <2> QED BY <1>7, <2>2, <2>3 DEF MakeItems
<1> QED BY <1>2, <1>3, <1>4, <1>5, <1>6, <1>7 DEF ParserNext

----------------------------------------------------------------------------
(* What init() read to get an entry of vec. *)
Read(e) == IF e.type = 0 THEN e.str ELSE <<"%">> \o e.str
ReadAll(v) == FlattenSeq([k \in DOMAIN v |-> Read(v[k])])
Symbols == Chars \cup {"pattern_error", "%"}

LEMMA ReadTyped ==
  ASSUME NEW e \in Entries
  PROVE  Read(e) \in Seq(Symbols)
<1>1. e.str \in Seq(Symbols)
  <2>1. e.str \in Seq(Chars \cup {"pattern_error"})
    BY DEF Entries
  <2> QED BY <2>1, SeqMonotonic DEF Symbols
<1>2. <<"%">> \in Seq(Symbols)
  BY DEF Symbols
<1> QED BY <1>1, <1>2, ConcatProperties DEF Read

(* What f makes of the elements of v, one behind the other. *)
FlatMap(f, v) == FlattenSeq([k \in DOMAIN v |-> f[v[k]]])

LEMMA FlatMapAppend ==
  ASSUME NEW E, NEW C, NEW f \in [E -> Seq(C)], NEW v \in Seq(E), NEW e \in E
  PROVE  /\ FlatMap(f, v) \in Seq(C)
         /\ FlatMap(f, Append(v, e)) = FlatMap(f, v) \o f[e]
<1> DEFINE s == [k \in DOMAIN v |-> f[v[k]]]
           w == Append(v, e)
           r == [k \in DOMAIN w |-> f[w[k]]]
<1>1. /\ Len(v) \in Nat /\ DOMAIN v = 1..Len(v)
      /\ \A k \in 1..Len(v) : v[k] \in E
  OBVIOUS
<1>2. w \in Seq(E) /\ Len(w) = Len(v) + 1 /\ DOMAIN w = 1..(Len(v) + 1)
      /\ (\A k \in 1..Len(v) : w[k] = v[k]) /\ w[Len(v) + 1] = e
      /\ \A k \in 1..(Len(v) + 1) : w[k] \in E
  BY AppendProperties
<1> HIDE DEF w
<1>3. s \in Seq(Seq(C)) /\ Len(s) = Len(v) /\ f[e] \in Seq(C)
  <2>1. s \in [1..Len(v) -> Seq(C)]
    BY <1>1
  <2> HIDE DEF s
  <2> QED BY <1>1, <2>1, IsSeq
<1>4. r \in Seq(Seq(C)) /\ Len(r) = Len(v) + 1
  <2>1. r \in [1..(Len(v) + 1) -> Seq(C)]
    BY <1>2
  <2>2. Len(v) + 1 \in Nat
    BY <1>1
  <2> HIDE DEF r
  <2> QED BY <2>1, <2>2, IsSeq
<1>5. r = Append(s, f[e])
  <2>1. /\ Append(s, f[e]) \in Seq(Seq(C)) /\ Len(Append(s, f[e])) = Len(v) + 1
        /\ \A k \in 1..Len(v) : Append(s, f[e])[k] = s[k]
        /\ Append(s, f[e])[Len(v) + 1] = f[e]
    <3> HIDE DEF s
    <3> QED BY <1>3, AppendProperties
  <2>2. \A k \in 1..Len(v) : r[k] = f[v[k]] /\ s[k] = f[v[k]]
    BY <1>1, <1>2
  <2>3. r[Len(v) + 1] = f[e]
    BY <1>1, <1>2
  <2> HIDE DEF s, r
  <2>4. \A k \in 1..(Len(v) + 1) : r[k] = Append(s, f[e])[k]
    BY <1>1, <2>1, <2>2, <2>3
  <2> QED BY <1>4, <2>1, <2>4, SeqEqual
<1> HIDE DEF s, r
<1>6. FlattenSeq(s) \in Seq(C) /\ FlattenSeq(r) = FlattenSeq(s) \o f[e]
  BY <1>3, <1>5, FlattenAppend
<1> QED BY <1>6 DEF FlatMap, s, r, w

LEMMA ReadAppend ==
  ASSUME NEW v \in Seq(Entries), NEW e \in Entries
  PROVE  /\ ReadAll(v) \in Seq(Symbols)
         /\ ReadAll(Append(v, e)) = ReadAll(v) \o Read(e)
<1> DEFINE f == [x \in Entries |-> Read(x)]
<1>1. f \in [Entries -> Seq(Symbols)]
  BY ReadTyped
<1>2. f[e] = Read(e) /\ \A x \in Entries : f[x] = Read(x)
  OBVIOUS
<1>3. Append(v, e) \in Seq(Entries)
  OBVIOUS
<1> HIDE DEF f
<1>4. ASSUME NEW w \in Seq(Entries) PROVE ReadAll(w) = FlatMap(f, w)
  <2>1. \A k \in DOMAIN w : f[w[k]] = Read(w[k])
    BY <1>2
  <2>2. [k \in DOMAIN w |-> f[w[k]]] = [k \in DOMAIN w |-> Read(w[k])]
    BY <2>1, Zenon
  <2> QED BY <2>2 DEF ReadAll, FlatMap
<1>5. FlatMap(f, v) \in Seq(Symbols) /\ FlatMap(f, Append(v, e)) = FlatMap(f, v) \o f[e]
  <2>1. PICK E, C : E = Entries /\ C = Symbols
    OBVIOUS
  <2>2. f \in [E -> Seq(C)] /\ v \in Seq(E) /\ e \in E
    BY <1>1, <2>1, Zenon
  <2>3. FlatMap(f, v) \in Seq(C) /\ FlatMap(f, Append(v, e)) = FlatMap(f, v) \o f[e]
    BY <2>2, FlatMapAppend, SMT
  <2> QED BY <2>1, <2>3
<1> QED BY <1>2, <1>3, <1>4, <1>5

(* The items of an accepted pattern are what this parser read, %% or not. *)
ItemsReadBack ==
  stage = "done" /\ ~m_error =>
    /\ \A k \in DOMAIN m_items : m_items[k].kind # "error"
    /\ FlattenSeq([k \in DOMAIN m_items |-> Source(m_items[k])]) = m_pattern

(* What init() has read: of a pattern without a fault, all of it up to i.    *)
WholeInv ==
  /\ stage = "items" => i = Len(m_pattern) + 1 /\ nstr = <<>>
  /\ stage # "done" /\ ~m_error =>
       ReadAll(vec) \o nstr = SubSeq(m_pattern, 1, i - 1)
  /\ ItemsReadBack

LEMMA FlushedReads ==
  ASSUME ParserTypeOK
  PROVE  ReadAll(Flushed) = ReadAll(vec) \o nstr
<1>1. nstr \in Seq(Chars) /\ vec \in Seq(Entries)
  BY DEF ParserTypeOK
<1>2. Entry(nstr, <<>>, 0) \in Entries
  <2>1. nstr \in Seq(Chars \cup {"pattern_error"}) /\ <<>> \in Seq(Chars)
    BY <1>1, SeqMonotonic
  <2> QED BY <2>1, EntryTyped
<1>3. Read(Entry(nstr, <<>>, 0)) = nstr
  BY DEF Read, Entry
<1>4. CASE nstr = <<>>
  <2>1. ReadAll(vec) \in Seq(Symbols)
    BY <1>1, <1>2, ReadAppend
  <2> QED BY <1>4, <2>1, ConcatEmptySeq DEF Flushed
<1>5. CASE nstr # <<>>
  BY <1>1, <1>2, <1>3, <1>5, ReadAppend DEF Flushed
<1> QED BY <1>4, <1>5

(* One more character, ... *)
LEMMA OneMore ==
  ASSUME NEW p \in Seq(Chars), NEW k \in 1..Len(p)
  PROVE  SubSeq(p, 1, k) = SubSeq(p, 1, k - 1) \o <<p[k]>>
<1>1. 1 \in 1..Len(p)
  OBVIOUS
<1> QED BY <1>1, SubSeqRecursiveSecond

(* ... and a % with the word behind it. *)
LEMMA WordMore ==
  ASSUME NEW p \in Seq(Chars), NEW k \in 1..Len(p), p[k] = "%",
         NEW n \in (k + 1)..(Len(p) + 1)
  PROVE  SubSeq(p, 1, n - 1) =
           SubSeq(p, 1, k - 1) \o (<<"%">> \o SubSeq(p, k + 1, n - 1))
<1>1. n - 1 \in k..Len(p) /\ 1 \in 1..(Len(p) + 1) /\ k - 1 \in (1 - 1)..Len(p)
      /\ n - 1 \in (k - 1)..Len(p) /\ (k - 1) + 1 = k
  OBVIOUS
<1>2. SubSeq(p, k, n - 1) = <<"%">> \o SubSeq(p, k + 1, n - 1)
  BY <1>1, SubSeqRecursiveFirst
<1>3. SubSeq(p, 1, k - 1) \o SubSeq(p, (k - 1) + 1, n - 1) = SubSeq(p, 1, n - 1)
  BY <1>1, ConcatAdjacentSubSeq
<1> QED BY <1>1, <1>2, <1>3
(* Each step of init() reads what it takes from the pattern. *)
LEMMA WholeNext ==
  ASSUME Patterns \subseteq Seq(Chars), ParserTypeOK, WholeInv, ParserNext
  PROVE  WholeInv'
<1>1. /\ m_pattern \in Seq(Chars) /\ Len(m_pattern) \in Nat
      /\ \A k \in 1..Len(m_pattern) : m_pattern[k] \in Chars
      /\ i \in Nat /\ i >= 1 /\ i <= Len(m_pattern) + 1
  BY PatternShape
<1>2. nstr \in Seq(Symbols) /\ vec \in Seq(Entries)
  BY SeqMonotonic DEF ParserTypeOK, Symbols
<1>3. ReadAll(vec) \in Seq(Symbols)
  <2>1. Entry(<<>>, <<>>, 0) \in Entries
    <3>1. <<>> \in Seq(Chars \cup {"pattern_error"}) /\ <<>> \in Seq(Chars)
      OBVIOUS
    <3> QED BY <3>1, EntryTyped
  <2> QED BY <1>2, <2>1, ReadAppend
<1>4. ASSUME Literal \/ Escape PROVE WholeInv'
  <2>1. /\ i <= Len(m_pattern) /\ stage = "loop"
        /\ nstr' = Append(nstr, m_pattern[i]) /\ i' = i + 1
        /\ UNCHANGED <<m_pattern, vec, m_items, m_error, stage>>
    BY <1>4 DEF Literal, Escape, Reading, Escaped
  <2>2. i \in 1..Len(m_pattern) /\ i' - 1 = i /\ m_pattern[i] \in Symbols
    BY <1>1, <2>1 DEF Symbols
  <2>3. nstr' = nstr \o <<m_pattern[i]>> /\ <<m_pattern[i]>> \in Seq(Symbols)
    BY <1>2, <2>1, <2>2, AppendIsConcat
  <2>4. ReadAll(vec) \o nstr' = (ReadAll(vec) \o nstr) \o <<m_pattern[i]>>
    <3>1. PICK read, last : read = ReadAll(vec) /\ last = <<m_pattern[i]>>
      OBVIOUS
    <3>2. read \in Seq(Symbols) /\ nstr \in Seq(Symbols) /\ last \in Seq(Symbols)
      BY <1>2, <1>3, <2>3, <3>1
    <3>3. (read \o nstr) \o last = read \o (nstr \o last)
      BY <3>2, ConcatAssociative
    <3> QED BY <2>3, <3>1, <3>3
  <2>5. SubSeq(m_pattern, 1, i) = SubSeq(m_pattern, 1, i - 1) \o <<m_pattern[i]>>
    BY <1>1, <2>2, OneMore
  <2>6. ~m_error => ReadAll(vec) \o nstr' = SubSeq(m_pattern, 1, i' - 1)
    BY <2>1, <2>2, <2>4, <2>5 DEF WholeInv
  <2>7. ReadAll(vec') = ReadAll(vec)
    BY <2>1
  <2> QED BY <2>1, <2>6, <2>7 DEF WholeInv, ItemsReadBack
<1>5. CASE Item
  <2>1. /\ i <= Len(m_pattern) /\ stage = "loop" /\ m_pattern[i] = "%"
        /\ vec' = Append(Flushed,
                    Entry(SubSeq(m_pattern, i + 1, Scan.n - 1), Scan.fmt, 1))
        /\ nstr' = <<>> /\ i' = Scan.n
        /\ UNCHANGED <<m_pattern, m_items, m_error, stage>>
    BY <1>5 DEF Item, Reading
  <2>2. PICK n, word, fmt : n = Scan.n /\ fmt = Scan.fmt
                            /\ word = SubSeq(m_pattern, i + 1, n - 1)
    OBVIOUS
  <2>3. n \in (i + 1)..(Len(m_pattern) + 1) /\ fmt \in Seq(Chars)
    BY <2>1, <2>2, ScanStays
  <2>4. word \in Seq(Chars) /\ word \in Seq(Symbols) /\ <<"%">> \in Seq(Symbols)
    <3>1. word \in Seq(Chars)
      BY <1>1, <2>2, <2>3, WordTyped
    <3> QED BY <3>1, SeqMonotonic DEF Symbols
  <2>5. Entry(word, fmt, 1) \in Entries
    <3>1. word \in Seq(Chars \cup {"pattern_error"})
      BY <2>4, SeqMonotonic
    <3> QED BY <2>3, <3>1, EntryTyped
  <2>6. Read(Entry(word, fmt, 1)) = <<"%">> \o word
    BY DEF Read, Entry
  <2>7. ReadAll(vec') = (ReadAll(vec) \o nstr) \o (<<"%">> \o word)
    BY <2>1, <2>2, <2>5, <2>6, ReadAppend, FlushedTyped, FlushedReads
  <2>8. ReadAll(vec') \o nstr' = ReadAll(vec')
    <3>1. ReadAll(vec) \o nstr \in Seq(Symbols) /\ <<"%">> \o word \in Seq(Symbols)
      BY <1>2, <1>3, <2>4, ConcatProperties
    <3>2. ReadAll(vec') \in Seq(Symbols)
      BY <2>7, <3>1, ConcatProperties
    <3> QED BY <2>1, <3>2, ConcatEmptySeq
  <2>9. SubSeq(m_pattern, 1, n - 1) =
          SubSeq(m_pattern, 1, i - 1) \o (<<"%">> \o word)
    <3>1. i \in 1..Len(m_pattern)
      BY <1>1, <2>1
    <3> QED BY <1>1, <2>1, <2>2, <2>3, <3>1, WordMore
  <2>10. ~m_error => ReadAll(vec') \o nstr' = SubSeq(m_pattern, 1, i' - 1)
    BY <2>1, <2>2, <2>7, <2>8, <2>9 DEF WholeInv
  <2> QED BY <2>1, <2>10 DEF WholeInv, ItemsReadBack
<1>6. CASE Unclosed
  BY <1>6 DEF Unclosed, Reading, WholeInv, ItemsReadBack
<1>7. CASE LastText
  <2>1. /\ i = Len(m_pattern) + 1 /\ stage = "loop"
        /\ vec' = Flushed /\ nstr' = <<>> /\ stage' = "items"
        /\ UNCHANGED <<m_pattern, i, m_items, m_error>>
    BY <1>1, <1>7 DEF LastText
  <2>2. ReadAll(vec') \o nstr' = ReadAll(vec) \o nstr
    <3>1. ReadAll(vec) \o nstr \in Seq(Symbols)
      BY <1>2, <1>3, ConcatProperties
    <3>2. (ReadAll(vec) \o nstr) \o <<>> = ReadAll(vec) \o nstr
      BY <3>1, ConcatEmptySeq
    <3> QED BY <2>1, <3>2, FlushedReads
  <2> QED BY <2>1, <2>2 DEF WholeInv, ItemsReadBack
<1>8. CASE MakeItems
  <2>1. /\ stage = "items" /\ stage' = "done" /\ m_pattern' = m_pattern
        /\ m_items' = [k \in DOMAIN vec |-> ItemOf(vec[k])]
        /\ m_error' = (m_error \/ \E k \in DOMAIN vec :
                                    vec[k].type = 1 /\ ~Known(vec[k].str))
    BY <1>8 DEF MakeItems
  <2> SUFFICES ASSUME ~m_error' PROVE ItemsReadBack'
    BY <2>1 DEF WholeInv, ItemsReadBack
  <2>2. ~m_error /\ \A k \in DOMAIN vec : ~(vec[k].type = 1 /\ ~Known(vec[k].str))
    BY <2>1, Zenon
  <2>3. \A k \in DOMAIN vec : vec[k] \in Entries
    BY <1>2
  <2>4. \A k \in DOMAIN vec : /\ ItemOf(vec[k]).kind # "error"
                              /\ Source(ItemOf(vec[k])) = Read(vec[k])
    BY <2>2, <2>3 DEF ItemOf, Source, Read, Entries
  <2>5. DOMAIN m_items' = DOMAIN vec
        /\ \A k \in DOMAIN vec : m_items'[k] = ItemOf(vec[k])
    BY <2>1
  <2>6. [k \in DOMAIN m_items' |-> Source(m_items'[k])]
        = [k \in DOMAIN vec |-> Read(vec[k])]
    BY <2>4, <2>5
  <2>7. ReadAll(vec) = m_pattern
    <3>1. ReadAll(vec) \o <<>> = SubSeq(m_pattern, 1, Len(m_pattern))
      <4>1. nstr = <<>> /\ i - 1 = Len(m_pattern)
        BY <1>1, <2>1 DEF WholeInv
      <4>2. ReadAll(vec) \o nstr = SubSeq(m_pattern, 1, i - 1)
        BY <2>1, <2>2 DEF WholeInv
      <4> QED BY <4>1, <4>2
    <3>2. ReadAll(vec) \o <<>> = ReadAll(vec)
      BY <1>3, ConcatEmptySeq
    <3>3. SubSeq(m_pattern, 1, Len(m_pattern)) = m_pattern
      BY <1>1, SubSeqFull
    <3> QED BY <3>1, <3>2, <3>3
  <2> QED BY <2>1, <2>4, <2>5, <2>6, <2>7 DEF ItemsReadBack, ReadAll
<1> QED BY <1>4, <1>5, <1>6, <1>7, <1>8 DEF ParserNext

LEMMA WholeInit ==
  ASSUME Patterns \subseteq Seq(Chars), ParserInit
  PROVE  ParserTypeOK /\ WholeInv
<1>1. m_pattern \in Seq(Chars) /\ Len(m_pattern) \in Nat
  BY DEF ParserInit
<1>2. ParserTypeOK
  <2>1. 1 \in 1..(Len(m_pattern) + 1)
    BY <1>1
  <2>2. <<>> \in Seq(Chars) /\ <<>> \in Seq(Entries) /\ <<>> \in Seq(Items)
    OBVIOUS
  <2>3. stage = "loop" /\ m_error = FALSE /\ nstr = <<>> /\ vec = <<>> /\ m_items = <<>>
        /\ i = 1 /\ m_pattern \in Patterns
    BY DEF ParserInit
  <2> QED BY <2>1, <2>2, <2>3 DEF ParserTypeOK
<1>3. ReadAll(<<>>) = <<>>
  <2>1. [k \in DOMAIN <<>> |-> Read(<<>>[k])] = <<>>
    OBVIOUS
  <2>2. FlattenSeq(<<>>) = <<>>
    BY DEF FlattenSeq
  <2> QED BY <2>1, <2>2 DEF ReadAll
<1>4. SubSeq(m_pattern, 1, 1 - 1) = <<>> /\ <<>> \o <<>> = <<>>
  BY SubSeqEmpty, ConcatEmptySeq
<1> QED BY <1>2, <1>3, <1>4 DEF ParserInit, WholeInv, ItemsReadBack

(* A pattern that init() accepts, and that setFormatter puts to use, is printed
   whole: none of its items is an error text and, without %%, they account for
   every character (log.cc:705), whatever its length and characters. *)
THEOREM AcceptedPrintsWhole ==
  ParserSpec => []AcceptedIsWhole
<1>1. Patterns \subseteq Seq(Chars)
  BY LogFormatterAssumption
<1>2. ParserInit => ParserTypeOK /\ WholeInv
  BY <1>1, WholeInit
<1>3. ParserTypeOK /\ WholeInv /\ [ParserNext]_parserVars => ParserTypeOK' /\ WholeInv'
  <2>1. CASE ParserNext
    BY <1>1, <2>1, WholeNext, ParserTypes
  <2>2. CASE UNCHANGED parserVars
    BY <2>2 DEF parserVars, ParserTypeOK, WholeInv, ItemsReadBack
  <2> QED BY <2>1, <2>2
<1>4. WholeInv => AcceptedIsWhole
  BY DEF WholeInv, ItemsReadBack, AcceptedIsWhole
<1> QED BY <1>2, <1>3, <1>4, PTL DEF ParserSpec

----------------------------------------------------------------------------
(* What p means from each position on. *)
MeansFrom(p) == CHOOSE f : f = [k \in 1..(Len(p) + 1) |-> MeaningAt(p, f, k)]

(* The position behind the letters that follow position k. *)
Behind(p, k) ==
  Min0({n \in (k + 1)..Len(p) : p[n] \notin Letters}, Len(p) + 1)

LEMMA BehindStays ==
  ASSUME NEW p \in Seq(Chars), NEW k \in 1..Len(p)
  PROVE  Behind(p, k) \in (k + 1)..(Len(p) + 1)
<1> DEFINE S == {n \in (k + 1)..Len(p) : p[n] \notin Letters}
<1>1. Behind(p, k) = Min0(S, Len(p) + 1)
  BY DEF Behind
<1>2. S \subseteq (k + 1)..Len(p)
  BY Zenon
<1>3. Len(p) \in Nat /\ k \in Nat /\ k <= Len(p) /\ (k + 1)..Len(p) \subseteq Nat
  OBVIOUS
<1> HIDE DEF S
<1>4. S \in SUBSET Nat
  BY <1>2, <1>3, Zenon
<1>5. Behind(p, k) = Len(p) + 1 \/ Behind(p, k) \in S
  <2>1. PICK d : d = Len(p) + 1
    OBVIOUS
  <2>2. IF S = {} THEN Min0(S, d) = d
        ELSE Min0(S, d) \in S /\ \A j \in S : Min0(S, d) <= j
    BY <1>4, LeastOr
  <2> QED BY <1>1, <2>1, <2>2, Zenon
<1>6. Behind(p, k) = Len(p) + 1 \/ Behind(p, k) \in (k + 1)..Len(p)
  BY <1>2, <1>5, Zenon
<1> QED BY <1>3, <1>6

(* These letters. *)
Word(p, k) == SubSeq(p, k + 1, Behind(p, k) - 1)

LEMMA MeaningCases ==
  ASSUME NEW p \in Seq(Chars), NEW g, NEW k \in 1..(Len(p) + 1)
  PROVE  MeaningAt(p, g, k) =
           IF k > Len(p) THEN <<>>
           ELSE IF p[k] # "%" THEN One("text", <<p[k]>>) \o g[k + 1]
           ELSE IF k < Len(p) /\ p[k + 1] = "%" THEN One("text", <<"%">>) \o g[k + 2]
           ELSE One(IF Known(Word(p, k)) THEN "item" ELSE "error", Word(p, k))
                  \o g[Behind(p, k)]
BY Zenon DEF MeaningAt, Word, Behind

LEMMA OneTyped ==
  ASSUME NEW kind \in {"text", "item", "error"}, NEW str \in Seq(Chars)
  PROVE  One(kind, str) \in Seq(Items)
<1>1. str \in Seq(Chars \cup {"pattern_error"}) /\ <<>> \in Seq(Chars)
  BY SeqMonotonic
<1>2. [kind |-> kind, str |-> str, fmt |-> <<>>] \in Items
  BY <1>1 DEF Items
<1> QED BY <1>2 DEF One

(* What a pattern means from k on depends on what it means behind k only. *)
LEMMA MeaningDepends ==
  ASSUME NEW p \in Seq(Chars), NEW k \in 1..(Len(p) + 1), NEW g, NEW h,
         \A j \in (k + 1)..(Len(p) + 1) : g[j] = h[j] /\ g[j] \in Seq(Items)
  PROVE  /\ MeaningAt(p, g, k) = MeaningAt(p, h, k)
         /\ MeaningAt(p, g, k) \in Seq(Items)
<1>1. CASE k > Len(p)
  <2>1. MeaningAt(p, g, k) = <<>> /\ MeaningAt(p, h, k) = <<>>
    BY <1>1, MeaningCases
  <2> QED BY <2>1
<1>2. CASE ~(k > Len(p))
  <2>1. Len(p) \in Nat /\ k \in 1..Len(p) /\ k + 1 \in (k + 1)..(Len(p) + 1)
        /\ p[k] \in Chars
    BY <1>2
  <2>2. CASE p[k] # "%"
    <3>1. /\ MeaningAt(p, g, k) = One("text", <<p[k]>>) \o g[k + 1]
          /\ MeaningAt(p, h, k) = One("text", <<p[k]>>) \o h[k + 1]
      BY <1>2, <2>2, MeaningCases
    <3>2. One("text", <<p[k]>>) \in Seq(Items)
      <4>1. <<p[k]>> \in Seq(Chars)
        BY <2>1
      <4> QED BY <4>1, OneTyped
    <3>3. g[k + 1] = h[k + 1] /\ g[k + 1] \in Seq(Items)
      BY <2>1
    <3> QED BY <3>1, <3>2, <3>3, ConcatProperties
  <2>3. CASE p[k] = "%" /\ k < Len(p) /\ p[k + 1] = "%"
    <3>1. /\ MeaningAt(p, g, k) = One("text", <<"%">>) \o g[k + 2]
          /\ MeaningAt(p, h, k) = One("text", <<"%">>) \o h[k + 2]
      BY <1>2, <2>3, MeaningCases
    <3>2. One("text", <<"%">>) \in Seq(Items)
      <4>1. <<"%">> \in Seq(Chars)
        BY <2>1, <2>3
      <4> QED BY <4>1, OneTyped
    <3>3. g[k + 2] = h[k + 2] /\ g[k + 2] \in Seq(Items)
      <4>1. k + 2 \in (k + 1)..(Len(p) + 1)
        BY <2>1, <2>3
      <4> QED BY <4>1
    <3> QED BY <3>1, <3>2, <3>3, ConcatProperties
  <2>4. CASE p[k] = "%" /\ ~(k < Len(p) /\ p[k + 1] = "%")
    <3>1. PICK kind \in {"item", "error"} :
            kind = IF Known(Word(p, k)) THEN "item" ELSE "error"
      OBVIOUS
    <3>2. /\ MeaningAt(p, g, k) = One(kind, Word(p, k)) \o g[Behind(p, k)]
          /\ MeaningAt(p, h, k) = One(kind, Word(p, k)) \o h[Behind(p, k)]
      BY <1>2, <2>4, <3>1, MeaningCases
    <3>3. Behind(p, k) \in (k + 1)..(Len(p) + 1)
      BY <2>1, BehindStays
    <3>4. One(kind, Word(p, k)) \in Seq(Items)
      <4>1. Word(p, k) \in Seq(Chars)
        <5>1. k + 1 \in Nat /\ k + 1 >= 1 /\ Behind(p, k) - 1 \in Int
              /\ Behind(p, k) - 1 <= Len(p)
          BY <2>1, <3>3
        <5> QED BY <5>1, WordTyped DEF Word
      <4> QED BY <4>1, OneTyped
    <3>5. g[Behind(p, k)] = h[Behind(p, k)] /\ g[Behind(p, k)] \in Seq(Items)
      BY <3>3
    <3> QED BY <3>2, <3>4, <3>5, ConcatProperties
  <2> QED BY <2>2, <2>3, <2>4
<1> QED BY <1>1, <1>2

(* f is the meaning from a on. *)
Means(f, p, a) == \A k \in a..(Len(p) + 1) : f[k] = MeaningAt(p, f, k)

(* Meaning is a recursive function too, which goes backwards. *)
LEMMA MeansExists ==
  ASSUME NEW p \in Seq(Chars)
  PROVE  \E f \in [1..(Len(p) + 1) -> Seq(Items)] : Means(f, p, 1)
<1> DEFINE L == Len(p)
           P(n) == \E f \in [(L + 1 - n)..(L + 1) -> Seq(Items)] :
                     Means(f, p, L + 1 - n)
<1>1. L \in Nat
  OBVIOUS
<1> HIDE DEF L
<1> SUFFICES ASSUME ~P(L) PROVE FALSE
  <2>1. L + 1 - L = 1
    BY <1>1
  <2> QED BY <2>1 DEF L
<1> DEFINE S == {n \in 0..L : ~P(n)}
<1>2. PICK n \in S : \A j \in S : n <= j
  <2> HIDE DEF P
  <2>1. S \in SUBSET Nat /\ L \in S
    BY <1>1
  <2> QED BY <2>1, LeastNumber, Zenon
<1>3. n \in 0..L /\ ~P(n)
  OBVIOUS
<1>4. CASE n = 0
  <2> DEFINE f == [k \in (L + 1)..(L + 1) |-> <<>>]
  <2>1. L + 1 - 0 = L + 1
    BY <1>1
  <2>2. f \in [(L + 1)..(L + 1) -> Seq(Items)]
    OBVIOUS
  <2>3. Means(f, p, L + 1)
    <3> SUFFICES ASSUME NEW k \in (L + 1)..(L + 1) PROVE f[k] = MeaningAt(p, f, k)
      BY DEF Means, L
    <3>1. k = L + 1 /\ f[k] = <<>> /\ k \in 1..(L + 1) /\ k > L
      BY <1>1
    <3> HIDE DEF f
    <3> QED BY <3>1, MeaningCases DEF L
  <2> HIDE DEF f
  <2> QED BY <1>3, <1>4, <2>1, <2>2, <2>3
<1>5. CASE n # 0
  <2>1. n - 1 \in 0..L /\ ~(n <= n - 1)
    BY <1>1, <1>3, <1>5
  <2>2. P(n - 1)
    <3> HIDE DEF P
    <3>1. n - 1 \notin S
      <4> HIDE DEF S
      <4> QED BY <1>2, <2>1
    <3> QED BY <2>1, <3>1
  <2>3. PICK a : a = L + 1 - n
    OBVIOUS
  <2>4. a \in 1..L /\ L + 1 - (n - 1) = a + 1 /\ L + 1 - n = a
    BY <1>1, <1>3, <1>5, <2>3
  <2>5. PICK f \in [(a + 1)..(L + 1) -> Seq(Items)] : Means(f, p, a + 1)
    BY <2>2, <2>4
  <2> DEFINE g == [k \in a..(L + 1) |-> IF k = a THEN MeaningAt(p, f, a) ELSE f[k]]
  <2>6. /\ g[a] = MeaningAt(p, f, a)
        /\ \A k \in (a + 1)..(L + 1) : g[k] = f[k] /\ f[k] \in Seq(Items)
    BY <1>1, <2>4
  <2>7. MeaningAt(p, f, a) \in Seq(Items)
    <3>1. a \in 1..(Len(p) + 1) /\ \A k \in (a + 1)..(Len(p) + 1) : f[k] \in Seq(Items)
      <4>1. a \in 1..(L + 1) /\ \A k \in (a + 1)..(L + 1) : f[k] \in Seq(Items)
        <5> HIDE DEF g
        <5> QED BY <1>1, <2>4, <2>6
      <4> QED BY <4>1, Zenon DEF L
    <3> QED BY <3>1, MeaningDepends
  <2>8. g \in [a..(L + 1) -> Seq(Items)]
    BY <1>1, <2>4, <2>7
  <2> HIDE DEF g
  <2>9. Means(g, p, a)
    <3> SUFFICES ASSUME NEW k \in a..(L + 1) PROVE g[k] = MeaningAt(p, g, k)
      BY DEF Means, L
    <3>1. k \in 1..(Len(p) + 1) /\ \A j \in (k + 1)..(Len(p) + 1) : j \in (a + 1)..(L + 1)
      BY <1>1, <2>4 DEF L
    <3>2. MeaningAt(p, f, k) = MeaningAt(p, g, k)
      BY <2>6, <3>1, MeaningDepends
    <3>3. g[k] = MeaningAt(p, f, k)
      <4>1. CASE k = a
        BY <2>6, <4>1
      <4>2. CASE k # a
        <5>1. k \in (a + 1)..(L + 1)
          BY <1>1, <2>4, <4>2
        <5> QED BY <2>5, <2>6, <5>1 DEF Means, L
      <4> QED BY <4>1, <4>2
    <3> QED BY <3>2, <3>3
  <2> QED BY <1>3, <2>4, <2>8, <2>9
<1> QED BY <1>4, <1>5

(* Meaning, position by position. *)
LEMMA Meanings ==
  ASSUME NEW p \in Seq(Chars)
  PROVE  /\ Meaning(p) = MeansFrom(p)[1]
         /\ \A k \in 1..(Len(p) + 1) :
              /\ MeansFrom(p)[k] = MeaningAt(p, MeansFrom(p), k)
              /\ MeansFrom(p)[k] \in Seq(Items)
<1> DEFINE L == Len(p)
           Is(f) == f = [k \in 1..(L + 1) |-> MeaningAt(p, f, k)]
<1>1. Meaning(p) = MeansFrom(p)[1]
  BY DEF Meaning, MeansFrom
<1>2. PICK f \in [1..(L + 1) -> Seq(Items)] : Means(f, p, 1)
  BY MeansExists
<1>3. Is(f)
  BY <1>2 DEF Means
<1>4. MeansFrom(p) = CHOOSE g : Is(g)
  BY DEF MeansFrom
<1>5. Is(MeansFrom(p))
  <2> HIDE DEF Is
  <2> QED BY <1>3, <1>4, Zenon
<1>6. L \in Nat
  OBVIOUS
<1>7. PICK h : h = MeansFrom(p)
  OBVIOUS
<1>8. \A k \in 1..(L + 1) : h[k] = MeaningAt(p, h, k)
  BY <1>5, <1>7
<1>9. ASSUME NEW b \in 1..(L + 1), h[b] # f[b] PROVE FALSE
  <2> DEFINE S == {n \in 0..L : h[L + 1 - n] # f[L + 1 - n]}
  <2> HIDE DEF L
  <2>1. PICK n \in S : \A j \in S : n <= j
    <3>1. S \in SUBSET Nat
      OBVIOUS
    <3>2. L + 1 - b \in 0..L /\ L + 1 - (L + 1 - b) = b
      BY <1>6
    <3>3. S # {}
      BY <1>9, <3>2
    <3> HIDE DEF S
    <3> QED BY <3>1, <3>3, LeastNumber, Zenon
  <2>2. n \in 0..L /\ h[L + 1 - n] # f[L + 1 - n]
    OBVIOUS
  <2>3. PICK a : a = L + 1 - n
    OBVIOUS
  <2>4. a \in 1..(L + 1)
    BY <1>6, <2>2, <2>3
  <2>5. \A j \in (a + 1)..(L + 1) : f[j] = h[j] /\ f[j] \in Seq(Items)
    <3> SUFFICES ASSUME NEW j \in (a + 1)..(L + 1)
                 PROVE  f[j] = h[j] /\ f[j] \in Seq(Items)
      OBVIOUS
    <3>1. L + 1 - j \in 0..L /\ ~(n <= L + 1 - j) /\ L + 1 - (L + 1 - j) = j
          /\ j \in 1..(L + 1)
      BY <1>6, <2>2, <2>3, <2>4
    <3>2. L + 1 - j \notin S
      <4> HIDE DEF S
      <4> QED BY <2>1, <3>1
    <3> QED BY <3>1, <3>2
  <2>6. MeaningAt(p, f, a) = MeaningAt(p, h, a)
    BY <2>4, <2>5, MeaningDepends DEF L
  <2>7. f[a] = MeaningAt(p, f, a)
    BY <1>2, <2>4 DEF Means, L
  <2> QED BY <1>8, <2>2, <2>3, <2>4, <2>6, <2>7
<1>10. \A k \in 1..(L + 1) : h[k] \in Seq(Items)
  BY <1>2, <1>9
<1> QED BY <1>1, <1>7, <1>8, <1>10

----------------------------------------------------------------------------
(* The items of an entry and of a text, texts cut into characters. *)
CutEntry(e) == CutItem(ItemOf(e))
CutAll(v) == FlattenSeq([k \in DOMAIN v |-> CutEntry(v[k])])
CutText(s) ==
  [c \in DOMAIN s |-> [kind |-> "text", str |-> <<s[c]>>, fmt |-> <<>>]]

LEMMA CutTyped ==
  ASSUME NEW e \in Entries
  PROVE  CutEntry(e) \in Seq(Items)
<1>1. PICK item : item = ItemOf(e)
  OBVIOUS
<1>2. item \in Items
  BY <1>1, ItemTyped
<1>3. CASE item.kind = "text"
  <2>1. CutEntry(e) = [c \in DOMAIN item.str |-> [item EXCEPT !.str = <<item.str[c]>>]]
    BY <1>1, <1>3 DEF CutEntry, CutItem
  <2>2. item.str \in Seq(Chars \cup {"pattern_error"})
    BY <1>2 DEF Items
  <2>3. \A c \in DOMAIN item.str : <<item.str[c]>> \in Seq(Chars \cup {"pattern_error"})
    BY <2>2
  <2>4. \A c \in DOMAIN item.str : [item EXCEPT !.str = <<item.str[c]>>] \in Items
    BY <1>2, <2>3 DEF Items
  <2>5. Len(item.str) \in Nat /\ DOMAIN item.str = 1..Len(item.str)
    BY <2>2
  <2>6. CutEntry(e) \in [1..Len(item.str) -> Items]
    BY <2>1, <2>4, <2>5
  <2> QED BY <2>5, <2>6, IsSeq
<1>4. CASE item.kind # "text"
  <2>1. CutEntry(e) = <<item>>
    BY <1>1, <1>4 DEF CutEntry, CutItem
  <2> QED BY <1>2, <2>1
<1> QED BY <1>3, <1>4

LEMMA CutAppend ==
  ASSUME NEW v \in Seq(Entries), NEW e \in Entries
  PROVE  /\ CutAll(v) \in Seq(Items)
         /\ CutAll(Append(v, e)) = CutAll(v) \o CutEntry(e)
<1> DEFINE f == [x \in Entries |-> CutEntry(x)]
<1>1. f \in [Entries -> Seq(Items)]
  BY CutTyped
<1>2. f[e] = CutEntry(e) /\ \A x \in Entries : f[x] = CutEntry(x)
  OBVIOUS
<1>3. Append(v, e) \in Seq(Entries)
  OBVIOUS
<1> HIDE DEF f
<1>4. ASSUME NEW w \in Seq(Entries) PROVE CutAll(w) = FlatMap(f, w)
  <2>1. \A k \in DOMAIN w : f[w[k]] = CutEntry(w[k])
    BY <1>2
  <2>2. [k \in DOMAIN w |-> f[w[k]]] = [k \in DOMAIN w |-> CutEntry(w[k])]
    BY <2>1, Zenon
  <2> QED BY <2>2 DEF CutAll, FlatMap
<1>5. FlatMap(f, v) \in Seq(Items) /\ FlatMap(f, Append(v, e)) = FlatMap(f, v) \o f[e]
  <2>1. PICK E, C : E = Entries /\ C = Items
    OBVIOUS
  <2>2. f \in [E -> Seq(C)] /\ v \in Seq(E) /\ e \in E
    BY <1>1, <2>1, Zenon
  <2>3. FlatMap(f, v) \in Seq(C) /\ FlatMap(f, Append(v, e)) = FlatMap(f, v) \o f[e]
    BY <2>2, FlatMapAppend, SMT
  <2> QED BY <2>1, <2>3
<1> QED BY <1>2, <1>3, <1>4, <1>5

LEMMA TextCut ==
  ASSUME NEW s \in Seq(Chars)
  PROVE  /\ CutText(s) \in Seq(Items) /\ Len(CutText(s)) = Len(s)
         /\ CutEntry(Entry(s, <<>>, 0)) = CutText(s)
<1>1. Len(s) \in Nat /\ DOMAIN s = 1..Len(s)
  OBVIOUS
<1>2. \A c \in 1..Len(s) : [kind |-> "text", str |-> <<s[c]>>, fmt |-> <<>>] \in Items
  <2> SUFFICES ASSUME NEW c \in 1..Len(s)
               PROVE  [kind |-> "text", str |-> <<s[c]>>, fmt |-> <<>>] \in Items
    OBVIOUS
  <2>1. <<s[c]>> \in Seq(Chars \cup {"pattern_error"}) /\ <<>> \in Seq(Chars)
    OBVIOUS
  <2> QED BY <2>1 DEF Items
<1>3. CutText(s) \in [1..Len(s) -> Items]
  BY <1>1, <1>2 DEF CutText
<1>4. ItemOf(Entry(s, <<>>, 0)) = [kind |-> "text", str |-> s, fmt |-> <<>>]
  BY DEF ItemOf, Entry
<1>5. CutEntry(Entry(s, <<>>, 0)) = CutText(s)
  <2>1. PICK item : item = [kind |-> "text", str |-> s, fmt |-> <<>>]
    OBVIOUS
  <2>2. item.kind = "text" /\ item.str = s
    BY <2>1
  <2>3. \A c \in DOMAIN s : [item EXCEPT !.str = <<item.str[c]>>] =
                              [kind |-> "text", str |-> <<s[c]>>, fmt |-> <<>>]
    BY <2>1
  <2>4. CutEntry(Entry(s, <<>>, 0)) =
          [c \in DOMAIN s |-> [item EXCEPT !.str = <<item.str[c]>>]]
    BY <1>4, <2>1, <2>2 DEF CutEntry, CutItem
  <2> QED BY <2>3, <2>4, Zenon DEF CutText
<1> QED BY <1>1, <1>3, <1>5, IsSeq

LEMMA TextAppend ==
  ASSUME NEW s \in Seq(Chars), NEW c \in Chars
  PROVE  CutText(Append(s, c)) = CutText(s) \o One("text", <<c>>)
<1>1. /\ Append(s, c) \in Seq(Chars) /\ Len(Append(s, c)) = Len(s) + 1 /\ Len(s) \in Nat
      /\ (\A k \in 1..Len(s) : Append(s, c)[k] = s[k]) /\ Append(s, c)[Len(s) + 1] = c
  BY AppendProperties
<1>2. PICK r : r = [kind |-> "text", str |-> <<c>>, fmt |-> <<>>]
  OBVIOUS
<1>3. One("text", <<c>>) = <<r>> /\ r \in Items /\ <<r>> \in Seq(Items)
  <2>1. <<c>> \in Seq(Chars \cup {"pattern_error"}) /\ <<>> \in Seq(Chars)
    OBVIOUS
  <2>2. r \in Items
    BY <1>2, <2>1 DEF Items
  <2> QED BY <1>2, <2>2 DEF One
<1>4. /\ CutText(s) \in Seq(Items) /\ Len(CutText(s)) = Len(s)
      /\ CutText(Append(s, c)) \in Seq(Items) /\ Len(CutText(Append(s, c))) = Len(s) + 1
  BY <1>1, TextCut
<1>5. /\ \A k \in 1..Len(s) : CutText(Append(s, c))[k] = CutText(s)[k]
      /\ CutText(Append(s, c))[Len(s) + 1] = r
  BY <1>1, <1>2 DEF CutText
<1>6. CutText(Append(s, c)) = Append(CutText(s), r)
  <2>1. /\ Append(CutText(s), r) \in Seq(Items)
        /\ Len(Append(CutText(s), r)) = Len(s) + 1
        /\ \A k \in 1..Len(s) : Append(CutText(s), r)[k] = CutText(s)[k]
        /\ Append(CutText(s), r)[Len(s) + 1] = r
    BY <1>3, <1>4, AppendProperties
  <2>2. \A k \in 1..(Len(s) + 1) : CutText(Append(s, c))[k] = Append(CutText(s), r)[k]
    BY <1>1, <1>5, <2>1
  <2> QED BY <1>4, <2>1, <2>2, SeqEqual
<1> QED BY <1>3, <1>4, <1>6, AppendIsConcat

LEMMA FlushedCut ==
  ASSUME ParserTypeOK
  PROVE  CutAll(Flushed) = CutAll(vec) \o CutText(nstr)
<1>1. nstr \in Seq(Chars) /\ vec \in Seq(Entries)
  BY DEF ParserTypeOK
<1>2. Entry(nstr, <<>>, 0) \in Entries
  <2>1. nstr \in Seq(Chars \cup {"pattern_error"}) /\ <<>> \in Seq(Chars)
    BY <1>1, SeqMonotonic
  <2> QED BY <2>1, EntryTyped
<1>3. CutEntry(Entry(nstr, <<>>, 0)) = CutText(nstr)
  BY <1>1, TextCut
<1>4. CASE nstr = <<>>
  <2>1. CutAll(vec) \in Seq(Items)
    BY <1>1, <1>2, CutAppend
  <2>2. CutText(nstr) = <<>>
    BY <1>4 DEF CutText
  <2> QED BY <1>4, <2>1, <2>2, ConcatEmptySeq DEF Flushed
<1>5. CASE nstr # <<>>
  BY <1>1, <1>2, <1>3, <1>5, CutAppend DEF Flushed
<1> QED BY <1>4, <1>5

(* Without braces the inner loop reads the letters behind the %. *)
LEMMA ScanPlain ==
  ASSUME Patterns \subseteq Seq(Chars), ParserTypeOK, i <= Len(m_pattern),
         PatternContract = PatternClauses, Respects(m_pattern)
  PROVE  Scan = [n |-> Behind(m_pattern, i), fmt_status |-> 0, fmt |-> <<>>]
<1>1. Len(m_pattern) \in Nat /\ i \in 1..Len(m_pattern)
      /\ DOMAIN m_pattern = 1..Len(m_pattern)
  BY PatternShape
<1>2. \A k \in 1..Len(m_pattern) : m_pattern[k] # "{" /\ m_pattern[k] # "}"
  BY <1>1 DEF Respects, NoEscape, PatternClauses
<1>3. WordEnd(i + 1) = Behind(m_pattern, i)
  <2>1. {n \in (i + 1)..Len(m_pattern) : m_pattern[n] \notin Letters \cup {"{", "}"}}
        = {n \in (i + 1)..Len(m_pattern) : m_pattern[n] \notin Letters}
    <3>1. \A n \in (i + 1)..Len(m_pattern) : n \in 1..Len(m_pattern)
      BY <1>1
    <3>2. \A n \in (i + 1)..Len(m_pattern) :
            m_pattern[n] \notin Letters \cup {"{", "}"} <=> m_pattern[n] \notin Letters
      BY <1>2, <3>1, Zenon
    <3> QED BY <3>2, Zenon
  <2> QED BY <2>1 DEF WordEnd, Behind
<1>4. Behind(m_pattern, i) \in (i + 1)..(Len(m_pattern) + 1)
  BY <1>1, PatternShape, BehindStays
<1>5. Find({"{"}, i + 1, Behind(m_pattern, i)) = Behind(m_pattern, i)
  <2>1. \A n \in (i + 1)..(Behind(m_pattern, i) - 1) : n \in 1..Len(m_pattern)
    BY <1>1, <1>4
  <2>2. {n \in (i + 1)..(Behind(m_pattern, i) - 1) : m_pattern[n] \in {"{"}} = {}
    BY <1>2, <2>1, Zenon
  <2> QED BY <2>2 DEF Find, Min0
<1> QED BY <1>3, <1>5 DEF Scan

(* Of a pattern that respects the contract, what init() has made of the part
   before i, with what the rest means, is what the pattern means. *)
MeantInv ==
  /\ stage # "done" /\ Respects(m_pattern) =>
       (CutAll(vec) \o CutText(nstr)) \o MeansFrom(m_pattern)[i] = Meaning(m_pattern)
  /\ ParsedAsMeant

(* Each step of init() makes of what it reads what that means. *)
LEMMA MeantNext ==
  ASSUME Patterns \subseteq Seq(Chars), PatternContract = PatternClauses,
         ParserTypeOK, WholeInv, MeantInv, ParserNext
  PROVE  MeantInv'
<1>1. /\ m_pattern \in Seq(Chars) /\ Len(m_pattern) \in Nat
      /\ \A k \in 1..Len(m_pattern) : m_pattern[k] \in Chars
      /\ i \in Nat /\ i >= 1 /\ i <= Len(m_pattern) + 1
      /\ DOMAIN m_pattern = 1..Len(m_pattern)
  BY PatternShape
<1>2. nstr \in Seq(Chars) /\ vec \in Seq(Entries)
  BY DEF ParserTypeOK
<1>3. CutAll(vec) \in Seq(Items) /\ CutText(nstr) \in Seq(Items)
      /\ CutAll(vec) \o CutText(nstr) \in Seq(Items)
  <2>1. Entry(<<>>, <<>>, 0) \in Entries
    <3>1. <<>> \in Seq(Chars \cup {"pattern_error"}) /\ <<>> \in Seq(Chars)
      OBVIOUS
    <3> QED BY <3>1, EntryTyped
  <2>2. CutAll(vec) \in Seq(Items) /\ CutText(nstr) \in Seq(Items)
    BY <1>2, <2>1, CutAppend, TextCut
  <2> QED BY <2>2, ConcatProperties
<1>4. PICK from : from = MeansFrom(m_pattern)
  OBVIOUS
<1>5. /\ Meaning(m_pattern) = from[1]
      /\ \A k \in 1..(Len(m_pattern) + 1) :
           from[k] = MeaningAt(m_pattern, from, k) /\ from[k] \in Seq(Items)
  BY <1>1, <1>4, Meanings
<1>6. m_pattern' = m_pattern
  BY DEF ParserNext, Literal, Escape, Item, Unclosed, LastText, MakeItems
<1>7. ASSUME ~Respects(m_pattern) PROVE MeantInv'
  BY <1>6, <1>7 DEF MeantInv, ParsedAsMeant
<1> SUFFICES ASSUME Respects(m_pattern) PROVE MeantInv'
  BY <1>7
<1>8. stage # "done" =>
        (CutAll(vec) \o CutText(nstr)) \o from[i] = Meaning(m_pattern)
  BY <1>4 DEF MeantInv
<1>9. ASSUME stage' # "done",
             (CutAll(vec') \o CutText(nstr')) \o from[i'] = Meaning(m_pattern)
      PROVE  MeantInv'
  BY <1>4, <1>6, <1>9 DEF MeantInv, ParsedAsMeant
<1>10. CASE Literal
  <2>1. /\ i <= Len(m_pattern) /\ stage = "loop" /\ m_pattern[i] # "%"
        /\ nstr' = Append(nstr, m_pattern[i]) /\ i' = i + 1
        /\ vec' = vec /\ stage' = stage
    BY <1>10 DEF Literal, Reading
  <2>2. PICK c, one : c = m_pattern[i] /\ one = One("text", <<c>>)
    OBVIOUS
  <2>3. c \in Chars /\ i \in 1..(Len(m_pattern) + 1)
        /\ i + 1 \in 1..(Len(m_pattern) + 1) /\ ~(i > Len(m_pattern))
    BY <1>1, <2>1, <2>2
  <2>4. from[i] = one \o from[i + 1]
    BY <1>1, <1>5, <2>1, <2>2, <2>3, MeaningCases
  <2>5. CutText(nstr') = CutText(nstr) \o one
    BY <1>2, <2>1, <2>2, <2>3, TextAppend
  <2>6. one \in Seq(Items) /\ from[i + 1] \in Seq(Items)
    <3>1. <<c>> \in Seq(Chars)
      BY <2>3
    <3> QED BY <1>5, <2>2, <2>3, <3>1, OneTyped
  <2>7. CutAll(vec) \o CutText(nstr') = (CutAll(vec) \o CutText(nstr)) \o one
    <3>1. PICK before, text : before = CutAll(vec) /\ text = CutText(nstr)
      OBVIOUS
    <3>2. before \in Seq(Items) /\ text \in Seq(Items) /\ one \in Seq(Items)
      BY <1>3, <2>6, <3>1
    <3>3. (before \o text) \o one = before \o (text \o one)
      BY <3>2, ConcatAssociative
    <3> QED BY <2>5, <3>1, <3>3
  <2>8. ((CutAll(vec) \o CutText(nstr)) \o one) \o from[i + 1] =
          (CutAll(vec) \o CutText(nstr)) \o from[i]
    <3>1. PICK so, rest : so = CutAll(vec) \o CutText(nstr) /\ rest = from[i + 1]
      OBVIOUS
    <3>2. so \in Seq(Items) /\ one \in Seq(Items) /\ rest \in Seq(Items)
      BY <1>3, <2>6, <3>1
    <3>3. (so \o one) \o rest = so \o (one \o rest)
      BY <3>2, ConcatAssociative
    <3> QED BY <2>4, <3>1, <3>3
  <2> QED BY <1>8, <1>9, <2>1, <2>7, <2>8
<1>11. CASE Escape
  <2>1. /\ i <= Len(m_pattern) /\ m_pattern[i] = "%"
        /\ i + 1 <= Len(m_pattern) /\ m_pattern[i + 1] = "%"
    BY <1>11 DEF Escape, Reading, Escaped
  <2>2. i \in 1..(Len(m_pattern) - 1)
    BY <1>1, <2>1
  <2> QED BY <2>1, <2>2 DEF Respects, NoEscape, PatternClauses
<1>12. CASE Item
  <2>1. /\ i <= Len(m_pattern) /\ stage = "loop" /\ m_pattern[i] = "%"
        /\ ~Escaped
        /\ vec' = Append(Flushed,
                    Entry(SubSeq(m_pattern, i + 1, Scan.n - 1), Scan.fmt, 1))
        /\ nstr' = <<>> /\ i' = Scan.n /\ stage' = stage
    BY <1>12 DEF Item, Reading
  <2>2. PICK n, word : n = Behind(m_pattern, i) /\ word = Word(m_pattern, i)
    OBVIOUS
  <2>3. Scan.n = n /\ Scan.fmt = <<>>
    BY <2>1, <2>2, ScanPlain
  <2>4. vec' = Append(Flushed, Entry(word, <<>>, 1)) /\ i' = n
    BY <2>1, <2>2, <2>3 DEF Word
  <2>5. i \in 1..Len(m_pattern) /\ n \in (i + 1)..(Len(m_pattern) + 1)
        /\ i \in 1..(Len(m_pattern) + 1) /\ ~(i > Len(m_pattern))
        /\ n \in 1..(Len(m_pattern) + 1)
    BY <1>1, <2>1, <2>2, BehindStays
  <2>6. word \in Seq(Chars)
    BY <1>1, <2>2, <2>5, WordTyped DEF Word
  <2>7. PICK one : one = One(IF Known(word) THEN "item" ELSE "error", word)
    OBVIOUS
  <2>8. one \in Seq(Items)
    BY <2>6, <2>7, OneTyped
  <2>9. from[i] = one \o from[n]
    <3>1. ~(i < Len(m_pattern) /\ m_pattern[i + 1] = "%")
      BY <1>1, <2>1 DEF Escaped
    <3>2. MeaningAt(m_pattern, from, i) =
            One(IF Known(word) THEN "item" ELSE "error", word) \o from[n]
      BY <1>1, <2>1, <2>2, <2>5, <3>1, MeaningCases
    <3> QED BY <1>5, <2>5, <2>7, <3>2
  <2>10. Entry(word, <<>>, 1) \in Entries
    <3>1. word \in Seq(Chars \cup {"pattern_error"}) /\ <<>> \in Seq(Chars)
      BY <2>6, SeqMonotonic
    <3> QED BY <3>1, EntryTyped
  <2>11. CutEntry(Entry(word, <<>>, 1)) = one
    <3>1. Entry(word, <<>>, 1) = [str |-> word, fmt |-> <<>>, type |-> 1]
      BY DEF Entry
    <3>2. CASE Known(word)
      <4>1. ItemOf(Entry(word, <<>>, 1)) =
              [kind |-> "item", str |-> word, fmt |-> <<>>]
        BY <3>1, <3>2 DEF ItemOf
      <4> QED BY <2>7, <3>2, <4>1 DEF CutEntry, CutItem, One
    <3>3. CASE ~Known(word)
      <4>1. ItemOf(Entry(word, <<>>, 1)) =
              [kind |-> "error", str |-> word, fmt |-> <<>>]
        BY <3>1, <3>3 DEF ItemOf
      <4> QED BY <2>7, <3>3, <4>1 DEF CutEntry, CutItem, One
    <3> QED BY <3>2, <3>3
  <2>12. CutAll(vec') = (CutAll(vec) \o CutText(nstr)) \o one
    BY <2>4, <2>10, <2>11, CutAppend, FlushedTyped, FlushedCut
  <2>13. CutAll(vec') \o CutText(nstr') = CutAll(vec')
    <3>1. CutText(nstr') = <<>>
      BY <2>1 DEF CutText
    <3>2. CutAll(vec') \in Seq(Items)
      BY <1>3, <2>8, <2>12, ConcatProperties
    <3> QED BY <3>1, <3>2, ConcatEmptySeq
  <2>14. from[n] \in Seq(Items)
    BY <1>5, <2>5
  <2>15. ((CutAll(vec) \o CutText(nstr)) \o one) \o from[n] =
           (CutAll(vec) \o CutText(nstr)) \o from[i]
    <3>1. PICK so, rest : so = CutAll(vec) \o CutText(nstr) /\ rest = from[n]
      OBVIOUS
    <3>2. so \in Seq(Items) /\ one \in Seq(Items) /\ rest \in Seq(Items)
      BY <1>3, <2>8, <2>14, <3>1
    <3>3. (so \o one) \o rest = so \o (one \o rest)
      BY <3>2, ConcatAssociative
    <3> QED BY <2>9, <3>1, <3>3
  <2> QED BY <1>8, <1>9, <2>1, <2>4, <2>12, <2>13, <2>15
<1>13. CASE Unclosed
  <2>1. i <= Len(m_pattern) /\ Scan.fmt_status = 1
    BY <1>13 DEF Unclosed, Reading
  <2>2. Scan.fmt_status = 0
    BY <2>1, ScanPlain
  <2> QED BY <2>1, <2>2
<1>14. CASE LastText
  <2>1. /\ stage = "loop" /\ vec' = Flushed /\ nstr' = <<>> /\ stage' = "items"
        /\ i' = i
    BY <1>14 DEF LastText
  <2>2. CutText(nstr') = <<>>
    BY <2>1 DEF CutText
  <2>3. CutAll(vec') \o CutText(nstr') = CutAll(vec) \o CutText(nstr)
    BY <1>3, <2>1, <2>2, FlushedCut, ConcatEmptySeq
  <2> QED BY <1>8, <1>9, <2>1, <2>3
<1>15. CASE MakeItems
  <2>1. /\ stage = "items" /\ stage' = "done"
        /\ m_items' = [k \in DOMAIN vec |-> ItemOf(vec[k])]
    BY <1>15 DEF MakeItems
  <2>2. nstr = <<>> /\ i = Len(m_pattern) + 1
    BY <2>1 DEF WholeInv
  <2>3. CutText(nstr) = <<>>
    BY <2>2 DEF CutText
  <2>4. from[i] = <<>>
    <3>1. i \in 1..(Len(m_pattern) + 1) /\ i > Len(m_pattern)
      BY <1>1, <2>2
    <3> QED BY <1>1, <1>5, <3>1, MeaningCases
  <2>5. CutAll(vec) = Meaning(m_pattern)
    <3>1. (CutAll(vec) \o <<>>) \o <<>> = Meaning(m_pattern)
      BY <1>8, <2>1, <2>3, <2>4
    <3> QED BY <1>3, <3>1, ConcatEmptySeq
  <2>6. DOMAIN m_items' = DOMAIN vec
        /\ \A k \in DOMAIN vec : CutItem(m_items'[k]) = CutEntry(vec[k])
    BY <2>1 DEF CutEntry
  <2>7. [k \in DOMAIN m_items' |-> CutItem(m_items'[k])]
        = [k \in DOMAIN vec |-> CutEntry(vec[k])]
    BY <2>6
  <2>8. Cut(m_items') = Meaning(m_pattern)
    BY <2>5, <2>7 DEF Cut, CutAll
  <2> QED BY <1>6, <2>1, <2>8 DEF MeantInv, ParsedAsMeant
<1> QED BY <1>10, <1>11, <1>12, <1>13, <1>14, <1>15 DEF ParserNext

LEMMA MeantInit ==
  ASSUME Patterns \subseteq Seq(Chars), ParserInit
  PROVE  MeantInv
<1>1. m_pattern \in Seq(Chars) /\ Len(m_pattern) \in Nat
      /\ 1 \in 1..(Len(m_pattern) + 1)
  BY DEF ParserInit
<1>2. CutAll(<<>>) = <<>>
  <2>1. [k \in DOMAIN <<>> |-> CutEntry(<<>>[k])] = <<>>
    OBVIOUS
  <2>2. FlattenSeq(<<>>) = <<>>
    BY DEF FlattenSeq
  <2> QED BY <2>1, <2>2 DEF CutAll
<1>3. CutText(<<>>) = <<>>
  BY DEF CutText
<1>4. PICK m : m = MeansFrom(m_pattern)[1]
  OBVIOUS
<1>5. m = Meaning(m_pattern) /\ m \in Seq(Items)
  BY <1>1, <1>4, Meanings
<1>6. (<<>> \o <<>>) \o m = m
  <2>1. <<>> \in Seq(Items)
    OBVIOUS
  <2> QED BY <1>5, <2>1, ConcatEmptySeq
<1>7. stage = "loop" /\ i = 1 /\ nstr = <<>> /\ vec = <<>>
  BY DEF ParserInit
<1> QED BY <1>2, <1>3, <1>4, <1>5, <1>6, <1>7 DEF MeantInv, ParsedAsMeant

(* The items of a pattern without escapes and braces are what it means,
   whatever its length (log.cc:705). *)
THEOREM PatternsParse ==
  ASSUME PatternContract = PatternClauses
  PROVE  ParserSpec => []ParsedAsMeant
<1>1. Patterns \subseteq Seq(Chars)
  BY LogFormatterAssumption
<1>2. ParserInit => ParserTypeOK /\ WholeInv /\ MeantInv
  BY <1>1, WholeInit, MeantInit
<1>3. ParserTypeOK /\ WholeInv /\ MeantInv /\ [ParserNext]_parserVars
        => ParserTypeOK' /\ WholeInv' /\ MeantInv'
  <2>1. CASE ParserNext
    BY <1>1, <2>1, WholeNext, MeantNext, ParserTypes
  <2>2. CASE UNCHANGED parserVars
    BY <2>2 DEF parserVars, ParserTypeOK, WholeInv, ItemsReadBack, MeantInv, ParsedAsMeant
  <2> QED BY <2>1, <2>2
<1>4. MeantInv => ParsedAsMeant
  BY DEF MeantInv
<1> QED BY <1>2, <1>3, <1>4, PTL DEF ParserSpec
=============================================================================
