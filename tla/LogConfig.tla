----------------------------- MODULE LogConfig -----------------------------
(***************************************************************************)
(* The configuration of the loggers (sylar/log.cc): the variable `logs'    *)
(* with its conversion from and to YAML, and the listener LogIniter adds   *)
(* to it, which rebuilds the loggers named in the old and the new value    *)
(* while other threads log.                                                *)
(*                                                                         *)
(* A document is the list of entries under `logs', as YAML::Load reads it; *)
(* None stands for a key that is not there, Bad for a node that is not a   *)
(* text.  A name is a number, its place in the order of std::set.          *)
(* setValue is as in ConfigVar, with this one listener; log() is as in     *)
(* Logger, without the single writes.  The line the listener logs itself   *)
(* is an event of its own thread and changes nothing.                      *)
(***************************************************************************)
EXTENDS Integers, Sequences, FiniteSets

CONSTANTS
  Threads,
  Names,         \* names of loggers
  Root,
  ValidPatterns, \* the formatters LogFormatter accepts
  Empty,         \* the empty text, which stands for no formatter
  Pattern,       \* the one every logger starts with
  Texts,         \* texts of formatters and names of files
  Docs,          \* documents that are loaded
  EventLevels,   \* levels of events
  None,
  Bad,
  Contract,      \* what callers and documents respect
  MaxOps         \* bound: loads and events in one run

Clauses ==
  { "all_change",    \* no entry repeats what the value has for its name
    "serial_load",   \* one load at a time
    "quiet_clear" }  \* clearAppender meets no event in its logger

UNKNOW == 0
DEBUG == 1
Removed == 100
LevelNames == <<"DEBUG", "INFO", "WARN", "ERROR", "FATAL">>
LowerNames == <<"debug", "info", "warn", "error", "fatal">>
Levels == DOMAIN LevelNames

ASSUME LogConfigAssumption ==
  /\ Names \subseteq Nat /\ IsFiniteSet(Names) /\ Root \in Names
  /\ Pattern \in ValidPatterns /\ ValidPatterns \subseteq Texts
  /\ Empty \in Texts \ ValidPatterns
  /\ None # Bad
  /\ \A x \in {None, Bad} :
       /\ x \notin Names /\ x \notin Texts /\ x \notin Threads
       /\ x \notin {"FileLogAppender", "StdoutLogAppender", "UNKNOW"}
       /\ \A i \in Levels : x \notin {LevelNames[i], LowerNames[i]}
  /\ EventLevels \subseteq 1..5
  /\ Contract \subseteq Clauses
  /\ MaxOps \in Nat

(* What a document may hold: the list under `logs'. *)
RawAppenders ==
  [type : STRING \cup {None, Bad}, file : Texts \cup {None, Bad},
   level : STRING \cup {None, Bad}, formatter : Texts \cup {None, Bad}]

Entries ==
  [name : Names \cup {None, Bad}, level : STRING \cup {None, Bad},
   formatter : Texts \cup {None, Bad}, appenders : Seq(RawAppenders)]

ASSUME DocsAssumption == Docs \subseteq Seq(Entries)

VARIABLES
  m_val,        \* the value of `logs', a set of definitions
  made,         \* the loggers LoggerManager has
  m_root,       \* the root of each logger, or None
  m_level,
  m_formatter,
  m_appenders,
  lock,         \* the thread in the logger's critical section, or None
  pc,           \* where each thread stands
  new,          \* load: the value that is set
  todo,         \* load: the names the loop has still to visit
  cur,          \* load: the logger being rebuilt; log: the logger in turn
  idx,          \* load: the next appender
  ops,          \* loads and events so far
  bad           \* "no", or what went wrong first

loggers == <<made, m_root, m_level, m_formatter, m_appenders>>
vars == <<loggers, m_val, lock, pc, new, todo, cur, idx, ops, bad>>

(* LogAppenderDefine and LogDefine, as far as documents produce them, and the
   appenders of loggers. *)
AppenderDefs ==
  [type : {1}, level : {UNKNOW}, formatter : Texts, file : Texts]
  \cup
  [type : {2}, level : {UNKNOW}, formatter : Texts, file : {Empty}]

Defs ==
  [name : Names, level : {UNKNOW} \cup Levels, formatter : Texts,
   appenders : Seq(AppenderDefs)]

Appenders ==
  [type : {1, 2}, level : {UNKNOW, DEBUG}, formatter : ValidPatterns,
   file : Texts, has : BOOLEAN]

TypeOK ==
  /\ m_val \in SUBSET Defs
  /\ made \subseteq Names /\ Root \in made
  /\ m_root \in [Names -> {Root, None}]
  /\ m_level \in [Names -> {UNKNOW, Removed} \cup Levels]
  /\ m_formatter \in [Names -> ValidPatterns]
  /\ m_appenders \in [Names -> Seq(Appenders)]
  /\ lock \in [Names -> Threads \cup {None}]
  /\ pc \in [Threads -> {"idle", "new", "format", "clear", "add", "gone",
                         "assign", "log", "walk"}]
  /\ new \in [Threads -> SUBSET Defs]
  /\ todo \in [Threads -> SUBSET Names]
  /\ cur \in [Threads -> Names \cup {None}]
  /\ idx \in [Threads -> Nat]
  /\ ops \in 0..MaxOps
  /\ bad \in {"no", "null logger", "list race"}

----------------------------------------------------------------------------
(* Conversions.                                                            *)

(* LogLevel::FromString. *)
FromString(s) ==
  IF \E i \in Levels : s \in {LevelNames[i], LowerNames[i]}
  THEN CHOOSE i \in Levels : s \in {LevelNames[i], LowerNames[i]}
  ELSE UNKNOW

(* LogLevel::ToString. *)
ToString(level) == IF level \in Levels THEN LevelNames[level] ELSE "UNKNOW"

Map(s, Op(_)) == [i \in DOMAIN s |-> Op(s[i])]
NamesOf(v) == {d.name : d \in v}
Def(v, n) == CHOOSE d \in v : d.name = n

(* The k-th name of a set, in the order of std::set and std::map. *)
Nth(S, k) == CHOOSE n \in S : Cardinality({m \in S : m < n}) = k - 1

(* An appender with a type the code knows and, for a file, a key `file'. *)
Usable(a) ==
  \/ a.type = "FileLogAppender" /\ a.file # None
  \/ a.type = "StdoutLogAppender"

(* A formatter that is not given is an empty one. *)
FormatterOf(f) == IF f = None THEN Empty ELSE f

(* The key `level' of an appender is not read. *)
AppenderOf(a) ==
  [type |-> IF a.type = "FileLogAppender" THEN 1 ELSE 2,
   level |-> UNKNOW,
   formatter |-> FormatterOf(a.formatter),
   file |-> IF a.type = "FileLogAppender" THEN a.file ELSE Empty]

DefineOf(e) ==
  LET kept == {i \in DOMAIN e.appenders : Usable(e.appenders[i])} IN
  [name |-> e.name,
   level |-> FromString(e.level),
   formatter |-> FormatterOf(e.formatter),
   appenders |-> [k \in 1..Cardinality(kept) |->
                    AppenderOf(e.appenders[Nth(kept, k)])]]

(* LexicalCast<string, set<LogDefine>>.  The set is ordered by name, so the
   first entry of a name is the one that stays. *)
Parse(doc) ==
  {DefineOf(doc[i]) : i \in {i \in DOMAIN doc :
     doc[i].name # None /\ \A j \in 1..(i - 1) : doc[j].name # doc[i].name}}

(* as<std::string> of a node that is not a text throws: here the nodes that
   are read do not. *)
AppenderConverts(a) ==
  /\ a.type # Bad
  /\ a.type = "FileLogAppender" => a.file # Bad
  /\ Usable(a) => a.formatter # Bad

EntryConverts(e) ==
  e.name # None =>
    /\ Bad \notin {e.name, e.level, e.formatter}
    /\ \A i \in DOMAIN e.appenders : AppenderConverts(e.appenders[i])

Converts(doc) == \A i \in DOMAIN doc : EntryConverts(doc[i])

LevelText(level) == IF level # UNKNOW THEN ToString(level) ELSE None

FormatterText(f) == IF f # Empty THEN f ELSE None

(* Fault: a file appender is written without its file. *)
AppenderYamlNoFile(a) ==
  [type |-> IF a.type = 1 THEN "FileLogAppender" ELSE "StdoutLogAppender",
   file |-> None, level |-> LevelText(a.level),
   formatter |-> FormatterText(a.formatter)]

AppenderYaml(a) ==
  [type |-> IF a.type = 1 THEN "FileLogAppender" ELSE "StdoutLogAppender",
   file |-> IF a.type = 1 THEN a.file ELSE None,
   level |-> LevelText(a.level), formatter |-> FormatterText(a.formatter)]

DefineYaml(d) ==
  [name |-> d.name, level |-> LevelText(d.level),
   formatter |-> FormatterText(d.formatter),
   appenders |-> Map(d.appenders, AppenderYaml)]

(* LexicalCast<set<LogDefine>, string>: the entries in the set's order. *)
Dump(v) ==
  [k \in 1..Cardinality(v) |-> DefineYaml(Def(v, Nth(NamesOf(v), k)))]

(* toYamlString of an appender: a formatter only if it is its own. *)
OwnYaml(a) ==
  AppenderYaml([a EXCEPT !.formatter = IF a.has THEN @ ELSE Empty])

(* Logger::toYamlString. *)
LoggerYaml(l) ==
  [name |-> l, level |-> LevelText(m_level[l]), formatter |-> m_formatter[l],
   appenders |-> Map(m_appenders[l], OwnYaml)]

(* LoggerManager::toYamlString, while no logger changes; the locks it takes
   are in Logger. *)
ManagerYaml ==
  [k \in 1..Cardinality(made) |-> LoggerYaml(Nth(made, k))]

----------------------------------------------------------------------------
(* The appender LoggerManager gives to the root. *)
Stdout ==
  [type |-> 2, level |-> DEBUG, formatter |-> Pattern, file |-> Empty,
   has |-> FALSE]

Init ==
  /\ m_val = {}
  /\ made = {Root}
  /\ m_root = [n \in Names |-> None]
  /\ m_level = [n \in Names |-> DEBUG]
  /\ m_formatter = [n \in Names |-> Pattern]
  /\ m_appenders = [n \in Names |-> IF n = Root THEN <<Stdout>> ELSE <<>>]
  /\ lock = [n \in Names |-> None]
  /\ pc = [t \in Threads |-> "idle"]
  /\ new = [t \in Threads |-> {}]
  /\ todo = [t \in Threads |-> {}]
  /\ cur = [t \in Threads |-> None]
  /\ idx = [t \in Threads |-> 1]
  /\ ops = 0
  /\ bad = "no"

Demand(clause, P) == clause \in Contract => P

Idle(t) == bad = "no" /\ pc[t] = "idle" /\ ops < MaxOps

At(t, where) == bad = "no" /\ pc[t] = where
Goto(t, where) == pc' = [pc EXCEPT ![t] = where]

InRound(t) == pc[t] \in {"new", "format", "clear", "add", "gone"}
Loading(t) == InRound(t) \/ pc[t] = "assign"
Logging(t) == pc[t] \in {"log", "walk"}

(* Fault: a logger made later does not know the root. *)
GetLoggerRootless(n) == made' = made \cup {n} /\ UNCHANGED m_root

(* LoggerManager::getLogger. *)
GetLogger(n) ==
  /\ made' = made \cup {n}
  /\ m_root' = IF n \in made THEN m_root ELSE [m_root EXCEPT ![n] = Root]

(* A client asks for a logger by its name. *)
ClientGets(t, n) ==
  /\ Idle(t) /\ n \notin made
  /\ GetLogger(n)
  /\ ops' = ops + 1
  /\ UNCHANGED <<m_level, m_formatter, m_appenders, m_val, lock, pc, new, todo,
                 cur, idx, bad>>

(* fromString of a document and setValue of what it says: an exception of the
   conversion or an equal value ends the call, any other value starts the
   listener, under the read lock. *)
SetValue(t, doc) ==
  LET v == Parse(doc) IN
  /\ Idle(t) /\ Converts(doc) /\ v # m_val
  /\ Demand("all_change", v \cap m_val = {})
  /\ Demand("serial_load", \A u \in Threads : ~Loading(u))
  /\ new' = [new EXCEPT ![t] = v]
  /\ todo' = [todo EXCEPT ![t] = NamesOf(v)]
  /\ ops' = ops + 1
  /\ Goto(t, "new")
  /\ UNCHANGED <<loggers, m_val, lock, cur, idx, bad>>

(* The next definition of the new value: a logger for it and its level.  Only
   a name that is new or changed gets its logger; any other leaves the pointer
   null, and setLevel goes through it. *)
FindLogger(t) ==
  LET n == Nth(todo[t], 1)
      d == Def(new[t], n)
  IN
  /\ At(t, "new") /\ todo[t] # {}
  /\ IF d \in m_val
     THEN /\ bad' = "null logger"
          /\ UNCHANGED <<made, m_root, m_level>>
     ELSE /\ GetLogger(n)
          /\ m_level' = [m_level EXCEPT ![n] = d.level]
          /\ UNCHANGED bad
  /\ todo' = [todo EXCEPT ![t] = @ \ {n}]
  /\ cur' = [cur EXCEPT ![t] = n]
  /\ Goto(t, "format")
  /\ UNCHANGED <<m_formatter, m_appenders, m_val, lock, new, idx, ops>>

(* Logger::setFormatter, for a formatter that is given and that parses. *)
SetFormatter(t) ==
  LET n == cur[t]
      f == Def(new[t], n).formatter
  IN
  /\ At(t, "format")
  /\ IF f \in ValidPatterns
     THEN /\ lock[n] = None
          /\ m_formatter' = [m_formatter EXCEPT ![n] = f]
          /\ m_appenders' = [m_appenders EXCEPT ![n] = Map(@, LAMBDA a :
               IF a.has THEN a ELSE [a EXCEPT !.formatter = f])]
     ELSE UNCHANGED <<m_formatter, m_appenders>>
  /\ Goto(t, "clear")
  /\ UNCHANGED <<made, m_root, m_level, m_val, lock, new, todo, cur, idx, ops, bad>>

(* Logger::clearAppender of logger n, which takes no lock. *)
Clear(t, n) ==
  /\ Demand("quiet_clear", lock[n] = None)
  /\ m_appenders' = [m_appenders EXCEPT ![n] = <<>>]
  /\ bad' = IF lock[n] # None THEN "list race" ELSE bad

ClearAppender(t) ==
  /\ At(t, "clear")
  /\ Clear(t, cur[t])
  /\ idx' = [idx EXCEPT ![t] = 1]
  /\ Goto(t, "add")
  /\ UNCHANGED <<made, m_root, m_level, m_formatter, m_val, lock, new, todo,
                 cur, ops>>

(* The appender a definition asks for, once it is in the list of a logger
   with formatter f. *)
MakeAppender(a, f) ==
  LET has == a.formatter \in ValidPatterns IN
  [type |-> a.type, level |-> a.level, file |-> a.file, has |-> has,
   formatter |-> IF has THEN a.formatter ELSE f]

AddAppender(t) ==
  LET n == cur[t]
      aps == Def(new[t], n).appenders
  IN
  /\ At(t, "add") /\ idx[t] <= Len(aps) /\ lock[n] = None
  /\ m_appenders' = [m_appenders EXCEPT ![n] =
                       Append(@, MakeAppender(aps[idx[t]], m_formatter[n]))]
  /\ idx' = [idx EXCEPT ![t] = @ + 1]
  /\ UNCHANGED <<made, m_root, m_level, m_formatter, m_val, lock, pc, new, todo,
                 cur, ops, bad>>

NextDefine(t) ==
  /\ At(t, "add") /\ idx[t] > Len(Def(new[t], cur[t]).appenders)
  /\ cur' = [cur EXCEPT ![t] = None]
  /\ Goto(t, "new")
  /\ UNCHANGED <<loggers, m_val, lock, new, todo, idx, ops, bad>>

(* The second loop: the names of the old value that the new one has not. *)
RemoveLoop(t) ==
  /\ At(t, "new") /\ todo[t] = {}
  /\ todo' = [todo EXCEPT ![t] = NamesOf(m_val) \ NamesOf(new[t])]
  /\ Goto(t, "gone")
  /\ UNCHANGED <<loggers, m_val, lock, new, cur, idx, ops, bad>>

(* Fault: a name that is gone keeps its level. *)
RemoveLoggerLoud(t) ==
  LET n == Nth(todo[t], 1) IN
  /\ At(t, "gone") /\ todo[t] # {}
  /\ Clear(t, n)
  /\ todo' = [todo EXCEPT ![t] = @ \ {n}]
  /\ UNCHANGED <<made, m_root, m_level, m_formatter, m_val, lock, pc, new, cur,
                 idx, ops>>

(* Level 100 and no appenders; an event that comes between sees the level. *)
RemoveLogger(t) ==
  LET n == Nth(todo[t], 1) IN
  /\ At(t, "gone") /\ todo[t] # {}
  /\ m_level' = [m_level EXCEPT ![n] = Removed]
  /\ Clear(t, n)
  /\ todo' = [todo EXCEPT ![t] = @ \ {n}]
  /\ UNCHANGED <<made, m_root, m_formatter, m_val, lock, pc, new, cur, idx, ops>>

(* The listener is through, the read lock is released ... *)
RoundEnds(t) ==
  /\ At(t, "gone") /\ todo[t] = {}
  /\ Goto(t, "assign")
  /\ UNCHANGED <<loggers, m_val, lock, new, todo, cur, idx, ops, bad>>

(* ... and the value assigned under the write lock. *)
Assign(t) ==
  /\ At(t, "assign") /\ \A u \in Threads : ~InRound(u)
  /\ m_val' = new[t]
  /\ new' = [new EXCEPT ![t] = {}]
  /\ Goto(t, "idle")
  /\ UNCHANGED <<loggers, lock, todo, cur, idx, ops, bad>>

----------------------------------------------------------------------------
(* An event that its logger admits ... *)
Log(t, n, level) ==
  /\ Idle(t) /\ n \in made /\ level >= m_level[n]
  /\ cur' = [cur EXCEPT ![t] = n]
  /\ idx' = [idx EXCEPT ![t] = level]
  /\ ops' = ops + 1
  /\ Goto(t, "log")
  /\ UNCHANGED <<loggers, m_val, lock, new, todo, bad>>

LogLock(t) ==
  /\ At(t, "log") /\ lock[cur[t]] = None
  /\ lock' = [lock EXCEPT ![cur[t]] = t]
  /\ Goto(t, "walk")
  /\ UNCHANGED <<loggers, m_val, new, todo, cur, idx, ops, bad>>

(* ... is written by its appenders, none of which has a level above DEBUG, or
   left to the root. *)
LogWalk(t) ==
  LET n == cur[t]
      toRoot == m_appenders[n] = <<>> /\ m_root[n] # None
                /\ idx[t] >= m_level[Root]
  IN
  /\ At(t, "walk")
  /\ IF toRoot
     THEN /\ cur' = [cur EXCEPT ![t] = Root]
          /\ Goto(t, "log")
          /\ UNCHANGED <<lock, idx>>
     ELSE /\ lock' = [l \in Names |-> IF lock[l] = t THEN None ELSE lock[l]]
          /\ cur' = [cur EXCEPT ![t] = None]
          /\ idx' = [idx EXCEPT ![t] = 1]
          /\ Goto(t, "idle")
  /\ UNCHANGED <<loggers, m_val, new, todo, ops, bad>>

----------------------------------------------------------------------------
Listener(t) ==
  \/ FindLogger(t)
  \/ SetFormatter(t)
  \/ ClearAppender(t)
  \/ AddAppender(t)
  \/ NextDefine(t)
  \/ RemoveLoop(t)
  \/ RemoveLogger(t)
  \/ RoundEnds(t)

Next ==
  \E t \in Threads :
    \/ \E n \in Names : ClientGets(t, n)
    \/ \E doc \in Docs : SetValue(t, doc)
    \/ Listener(t)
    \/ Assign(t)
    \/ \E n \in Names, level \in EventLevels : Log(t, n, level)
    \/ LogLock(t)
    \/ LogWalk(t)

Spec == Init /\ [][Next]_vars

----------------------------------------------------------------------------
(* Properties.                                                             *)

Quiet == bad = "no" /\ \A t \in Threads : ~Loading(t)

(* Logger d.name is as definition d says: its level, its formatter if d gives
   a valid one (if not, it has the one it had), and its appenders in order,
   each with its own formatter if that is valid and with the logger's if not. *)
Configured(d) ==
  LET n == d.name
      list == m_appenders[n]
  IN
  /\ n \in made
  /\ m_level[n] = d.level
  /\ d.formatter \in ValidPatterns => m_formatter[n] = d.formatter
  /\ Len(list) = Len(d.appenders)
  /\ \A i \in DOMAIN list :
       LET a == d.appenders[i] IN
       /\ <<list[i].type, list[i].file, list[i].level>>
            = <<a.type, a.file, a.level>>
       /\ list[i].has = (a.formatter \in ValidPatterns)
       /\ list[i].formatter = IF list[i].has THEN a.formatter
                              ELSE m_formatter[n]

Untouched(n) ==
  /\ m_level[n] = DEBUG /\ m_formatter[n] = Pattern
  /\ m_appenders[n] = IF n = Root THEN <<Stdout>> ELSE <<>>

(* The listener (log.cc:358) goes through no null pointer, and clears no list
   that a thread is walking. *)
NothingBad == bad = "no"

(* When no load is under way, the loggers are what the present value of `logs'
   says, whatever was loaded before: each one it names is configured so, and
   any other is silent, or as it was made. *)
Applied ==
  Quiet =>
    /\ \A d \in m_val : Configured(d)
    /\ \A n \in made \ NamesOf(m_val) :
         Untouched(n) \/ (m_level[n] = Removed /\ m_appenders[n] = <<>>)

(* The listener is at logger n and has not added its first appender. *)
Rebuilding(t, n) ==
  cur[t] = n /\ (pc[t] \in {"format", "clear"} \/ (pc[t] = "add" /\ idx[t] = 1))

(* What a value leaves logger n: no appenders. *)
GivesNone(v, n) == \A d \in v : d.name = n => d.appenders = <<>>

(* Logger n has a reason to be without appenders: it is being rebuilt, a load
   under way takes them away, or the present value gives it none.  The root
   that no value names has its first one, unless it was removed. *)
MayBeBare(n) ==
  \/ \E t \in Threads : Rebuilding(t, n)
  \/ \E t \in Threads :
       Loading(t) /\ n \in NamesOf(m_val) \cup NamesOf(new[t])
                  /\ GivesNone(new[t], n)
  \/ /\ GivesNone(m_val, n)
     /\ n = Root /\ n \notin NamesOf(m_val) => m_level[n] = Removed

(* An event that its logger admitted is written nowhere only if it came upon a
   logger that has a reason to be without appenders, and that was the root, or
   the root's level does not admit the event (log.cc:495): no load, whatever
   it changes, costs other events than those. *)
OnlyBareLose ==
  [][\A t \in Threads :
       pc[t] = "walk" /\ pc'[t] = "idle" /\ m_appenders[cur[t]] = <<>> =>
         /\ MayBeBare(cur[t])
         /\ cur[t] # Root => idx[t] < m_level[Root]]_vars

(* What toString() writes of the value reads back as the same value, and what
   the manager's toYamlString() writes of the configured loggers configures
   them as they are; neither makes the conversion throw. *)
DumpReloads ==
  Quiet =>
    /\ Converts(Dump(m_val)) /\ Parse(Dump(m_val)) = m_val
    /\ Converts(ManagerYaml)
    /\ \A d \in Parse(ManagerYaml) : d.name \in NamesOf(m_val) => Configured(d)
=============================================================================
