------------------------------- MODULE Logger -------------------------------
(***************************************************************************)
(* Loggers and appenders of sylar/log.h and sylar/log.cc while several     *)
(* threads log and change them: the level, the list of appenders and the   *)
(* formatter of each logger, the formatter and level of each appender, and *)
(* the root logger that takes the events of a logger without appenders.    *)
(*                                                                         *)
(* A logger's spinlock is held from the first appender to the last, and    *)
(* during the root's part too, so it is state here, and so is the          *)
(* manager's: toYamlString keeps it while it takes the lock of one logger  *)
(* after the other.  What the code does under an appender's spinlock takes *)
(* no other lock, and is one step.  m_level is read and written without a  *)
(* lock.                                                                   *)
(***************************************************************************)
EXTENDS Integers, Sequences, Functions

CONSTANTS
  Threads,
  Loggers,
  Root,        \* the logger LoggerManager creates
  Appenders,
  Stdout,      \* the appender it gives to the root
  Formats,     \* formatters
  Pattern,     \* the one every logger starts with
  MaxLevel,    \* levels are 1 (DEBUG) .. MaxLevel
  Null,
  Contract,    \* what callers respect
  MaxOps       \* bound: calls in one run

Clauses ==
  { "quiet_clear",   \* clearAppender of a logger that no call is using
    "quiet_level",   \* setLevel while no event is on its way
    "one_logger",    \* an appender is in one list, once
    "fresh",         \* and comes there with a formatter of its own or none
    "own_first",     \* its formatter is set before addAppender or after it
    "a_formatter" }  \* no formatter is nullptr

ASSUME LoggerAssumption ==
  /\ Root \in Loggers /\ Stdout \in Appenders /\ Pattern \in Formats
  /\ Loggers \cap Appenders = {}
  /\ Null \notin Threads \cup Loggers \cup Appenders \cup Formats
  /\ MaxLevel \in Nat \ {0}
  /\ Contract \subseteq Clauses
  /\ MaxOps \in Nat

Levels == 1..MaxLevel
Objects == Loggers \cup Appenders

VARIABLES
  made,            \* the loggers that exist
  m_root,          \* the root of each logger, or Null
  m_level,         \* of loggers and appenders
  m_appenders,     \* the list of each logger
  m_formatter,     \* of loggers and appenders, or Null
  m_hasFormatter,  \* the appender's formatter is its own
  own,             \* the last formatter given to the appender itself
  lock,            \* the thread that holds the logger's m_mutex, or Null
  manager,         \* the thread that holds the manager's m_mutex, or Null
  dumped,          \* toYamlString: the loggers it is through with
  pc,              \* where each thread stands
  call,            \* its call: the logger, and the level or appender
  at,              \* log: the logger whose turn it is
  idx,             \* log: the position in its list
  wrote,           \* log: the appenders that wrote the event
  ops,             \* calls made
  bad              \* "no", or what went wrong first

objs == <<made, m_root, m_level, m_appenders, m_formatter, m_hasFormatter, own>>
mgr == <<manager, dumped>>
vars == <<objs, lock, mgr, pc, call, at, idx, wrote, ops, bad>>

NoCall == [logger |-> Null, what |-> Null]

TypeOK ==
  /\ made \subseteq Loggers /\ Root \in made
  /\ m_root \in [Loggers -> {Root, Null}]
  /\ m_level \in [Objects -> Levels]
  /\ m_appenders \in [Loggers -> Seq(Appenders)]
  /\ m_formatter \in [Objects -> Formats \cup {Null}]
  /\ \A l \in made : m_formatter[l] # Null
  /\ m_hasFormatter \in [Appenders -> BOOLEAN]
  /\ own \in [Appenders -> Formats \cup {Null}]
  /\ lock \in [Loggers -> Threads \cup {Null}]
  /\ manager \in Threads \cup {Null}
  /\ dumped \subseteq Loggers
  /\ pc \in [Threads -> {"idle", "event", "log", "iter", "done", "add",
                         "push", "dump", "dump_logger"}]
  /\ call \in [Threads -> [logger : Loggers \cup {Null},
                           what : Levels \cup Appenders \cup {Null}]]
  /\ at \in [Threads -> Loggers \cup {Null}]
  /\ idx \in [Threads -> Nat]
  /\ wrote \in [Threads -> Seq(Appenders)]
  /\ ops \in 0..MaxOps
  /\ bad \in {"no", "list race", "null formatter"}

(* LoggerManager's constructor has run: the root, with a StdoutLogAppender. *)
Init ==
  /\ made = {Root}
  /\ m_root = [l \in Loggers |-> Null]
  /\ m_level = [o \in Objects |-> 1]
  /\ m_appenders = [l \in Loggers |-> IF l = Root THEN <<Stdout>> ELSE <<>>]
  /\ m_formatter = [o \in Objects |-> IF o \in {Root, Stdout} THEN Pattern
                                      ELSE Null]
  /\ m_hasFormatter = [a \in Appenders |-> FALSE]
  /\ own = [a \in Appenders |-> Null]
  /\ lock = [l \in Loggers |-> Null]
  /\ manager = Null /\ dumped = {}
  /\ pc = [t \in Threads |-> "idle"]
  /\ call = [t \in Threads |-> NoCall]
  /\ at = [t \in Threads |-> Null]
  /\ idx = [t \in Threads |-> 0]
  /\ wrote = [t \in Threads |-> <<>>]
  /\ ops = 0
  /\ bad = "no"

----------------------------------------------------------------------------
Demand(clause, P) == clause \in Contract => P

Idle(t) == bad = "no" /\ pc[t] = "idle" /\ ops < MaxOps

(* A call that is one step. *)
AtOnce == UNCHANGED <<lock, pc, call, at, idx, wrote>> /\ ops' = ops + 1

Begin(t, where, l, what) ==
  /\ pc' = [pc EXCEPT ![t] = where]
  /\ call' = [call EXCEPT ![t] = [logger |-> l, what |-> what]]
  /\ at' = [at EXCEPT ![t] = l]
  /\ idx' = [idx EXCEPT ![t] = 1]
  /\ wrote' = [wrote EXCEPT ![t] = <<>>]
  /\ ops' = ops + 1

(* The call returns, and its scoped locks are gone. *)
Return(t) ==
  /\ pc' = [pc EXCEPT ![t] = "idle"]
  /\ call' = [call EXCEPT ![t] = NoCall]
  /\ at' = [at EXCEPT ![t] = Null]
  /\ idx' = [idx EXCEPT ![t] = 0]
  /\ wrote' = [wrote EXCEPT ![t] = <<>>]
  /\ lock' = [l \in Loggers |-> IF lock[l] = t THEN Null ELSE lock[l]]
  /\ UNCHANGED ops

Logging(t) == pc[t] \in {"event", "log", "iter", "done"}
Adding(t, a) == pc[t] \in {"add", "push"} /\ call[t].what = a
Attached(a) == \E l \in Loggers : a \in Range(m_appenders[l])

(* Fault: a new logger has no formatter. *)
NewLoggerBare(l, root) ==
  /\ made' = made \cup {l}
  /\ m_root' = [m_root EXCEPT ![l] = root]
  /\ UNCHANGED <<m_level, m_appenders, m_formatter, m_hasFormatter, own>>

(* Logger(name). *)
NewLogger(l, root) ==
  /\ made' = made \cup {l}
  /\ m_root' = [m_root EXCEPT ![l] = root]
  /\ m_formatter' = [m_formatter EXCEPT ![l] = Pattern]
  /\ UNCHANGED <<m_level, m_appenders, m_hasFormatter, own>>

(* getLogger(name) of a name nobody used, under the manager's lock, and a
   Logger made by a client. *)
GetLogger(t, l) ==
  /\ Idle(t) /\ manager = Null /\ l \notin made
  /\ NewLogger(l, Root)
  /\ AtOnce /\ UNCHANGED bad

OwnLogger(t, l) ==
  /\ Idle(t) /\ l \notin made
  /\ NewLogger(l, Null)
  /\ AtOnce /\ UNCHANGED bad

(* SYLAR_LOG_LEVEL(logger, level): the macro looks at the level, and the
   event's text is streamed together ... *)
LogMacro(t, l, level) ==
  /\ Idle(t) /\ l \in made /\ m_level[l] <= level
  /\ Begin(t, "event", l, level)
  /\ UNCHANGED <<objs, lock, bad>>

(* ... before ~LogEventWrap calls log(), which looks again. *)
LogCheck(t) ==
  /\ bad = "no" /\ pc[t] = "event"
  /\ IF call[t].what >= m_level[at[t]]
     THEN /\ pc' = [pc EXCEPT ![t] = "log"]
          /\ UNCHANGED <<lock, call, at, idx, wrote, ops>>
     ELSE Return(t)
  /\ UNCHANGED <<objs, bad>>

LogLock(t) ==
  /\ bad = "no" /\ pc[t] = "log" /\ lock[at[t]] = Null
  /\ lock' = [lock EXCEPT ![at[t]] = t]
  /\ pc' = [pc EXCEPT ![t] = "iter"]
  /\ UNCHANGED <<objs, call, at, idx, wrote, ops, bad>>

(* log() of the next appender in the list. *)
LogNext(t) ==
  LET a == m_appenders[at[t]][idx[t]]
      writes == call[t].what >= m_level[a]
  IN
  /\ bad = "no" /\ pc[t] = "iter" /\ idx[t] <= Len(m_appenders[at[t]])
  /\ wrote' = IF writes THEN [wrote EXCEPT ![t] = Append(@, a)] ELSE wrote
  /\ bad' = IF writes /\ m_formatter[a] = Null THEN "null formatter" ELSE bad
  /\ idx' = [idx EXCEPT ![t] = @ + 1]
  /\ UNCHANGED <<objs, lock, pc, call, at, ops>>

(* Fault: the logger's own appenders do not keep the event from the root. *)
LogRestAlsoRoot(t) ==
  LET l == at[t] IN
  /\ bad = "no" /\ pc[t] = "iter" /\ idx[t] > Len(m_appenders[l])
  /\ IF m_root[l] # Null /\ call[t].what >= m_level[Root]
     THEN /\ pc' = [pc EXCEPT ![t] = "log"]
          /\ at' = [at EXCEPT ![t] = Root]
          /\ idx' = [idx EXCEPT ![t] = 1]
     ELSE pc' = [pc EXCEPT ![t] = "done"] /\ UNCHANGED <<at, idx>>
  /\ UNCHANGED <<objs, lock, call, wrote, ops, bad>>

(* The list is through.  An empty one leaves the event to the root, if there
   is one and its level lets the event in. *)
LogRest(t) ==
  LET l == at[t] IN
  /\ bad = "no" /\ pc[t] = "iter" /\ idx[t] > Len(m_appenders[l])
  /\ IF m_appenders[l] = <<>> /\ m_root[l] # Null
        /\ call[t].what >= m_level[Root]
     THEN /\ pc' = [pc EXCEPT ![t] = "log"]
          /\ at' = [at EXCEPT ![t] = Root]
          /\ idx' = [idx EXCEPT ![t] = 1]
     ELSE pc' = [pc EXCEPT ![t] = "done"] /\ UNCHANGED <<at, idx>>
  /\ UNCHANGED <<objs, lock, call, wrote, ops, bad>>

(* Fault: only the lock taken last is released. *)
LogReturnLocked(t) ==
  /\ bad = "no" /\ pc[t] = "done"
  /\ pc' = [pc EXCEPT ![t] = "idle"]
  /\ lock' = [lock EXCEPT ![at[t]] = Null]
  /\ UNCHANGED <<objs, call, at, idx, wrote, ops, bad>>

LogReturn(t) ==
  /\ bad = "no" /\ pc[t] = "done"
  /\ Return(t)
  /\ UNCHANGED <<objs, bad>>

(* addAppender(a): under the logger's lock ... *)
AddAppender(t, l, a) ==
  /\ Idle(t) /\ l \in made
  /\ Demand("one_logger", ~Attached(a) /\ \A u \in Threads : ~Adding(u, a))
  /\ Demand("fresh", m_hasFormatter[a] \/ m_formatter[a] = Null)
  /\ Begin(t, "add", l, a)
  /\ UNCHANGED <<objs, lock, bad>>

(* ... the appender is asked for its formatter (idx remembers the answer) ... *)
AddCheck(t) ==
  LET l == at[t] IN
  /\ bad = "no" /\ pc[t] = "add" /\ lock[l] = Null
  /\ lock' = [lock EXCEPT ![l] = t]
  /\ idx' = [idx EXCEPT ![t] = IF m_formatter[call[t].what] = Null THEN 0 ELSE 1]
  /\ pc' = [pc EXCEPT ![t] = "push"]
  /\ UNCHANGED <<objs, call, at, wrote, ops, bad>>

(* Fault: the logger's formatter is not passed on. *)
AddPushBare(t) ==
  /\ bad = "no" /\ pc[t] = "push"
  /\ m_appenders' = [m_appenders EXCEPT ![at[t]] = Append(@, call[t].what)]
  /\ Return(t)
  /\ UNCHANGED <<made, m_root, m_level, m_formatter, m_hasFormatter, own, bad>>

(* ... and in a later critical section it gets the logger's if it had none. *)
AddPush(t) ==
  LET l == at[t]
      a == call[t].what
  IN
  /\ bad = "no" /\ pc[t] = "push"
  /\ m_formatter' = IF idx[t] = 0
                    THEN [m_formatter EXCEPT ![a] = m_formatter[l]]
                    ELSE m_formatter
  /\ m_appenders' = [m_appenders EXCEPT ![l] = Append(@, a)]
  /\ Return(t)
  /\ UNCHANGED <<made, m_root, m_level, m_hasFormatter, own, bad>>

(* delAppender(a): the first occurrence. *)
DelAppender(t, l, a) ==
  /\ Idle(t) /\ l \in made /\ lock[l] = Null
  /\ \E i \in DOMAIN m_appenders[l] :
       LET list == m_appenders[l] IN
       /\ list[i] = a /\ \A j \in 1..(i - 1) : list[j] # a
       /\ m_appenders' = [m_appenders EXCEPT ![l] =
            SubSeq(list, 1, i - 1) \o SubSeq(list, i + 1, Len(list))]
  /\ AtOnce
  /\ UNCHANGED <<made, m_root, m_level, m_formatter, m_hasFormatter, own, bad>>

(* clearAppender() takes no lock: the list may be in use. *)
ClearAppender(t, l) ==
  /\ Idle(t) /\ l \in made
  /\ Demand("quiet_clear", lock[l] = Null)
  /\ m_appenders' = [m_appenders EXCEPT ![l] = <<>>]
  /\ bad' = IF lock[l] # Null THEN "list race" ELSE bad
  /\ AtOnce
  /\ UNCHANGED <<made, m_root, m_level, m_formatter, m_hasFormatter, own>>

(* setLevel of a logger or an appender, without a lock. *)
SetLevel(t, o, level) ==
  /\ Idle(t) /\ o \in made \cup Appenders
  /\ Demand("quiet_level", \A u \in Threads : ~Logging(u))
  /\ m_level' = [m_level EXCEPT ![o] = level]
  /\ AtOnce
  /\ UNCHANGED <<made, m_root, m_appenders, m_formatter, m_hasFormatter, own,
                 bad>>

(* Fault: the logger's formatter is not handed to its appenders. *)
SetFormatterAlone(t, l, f) ==
  /\ Idle(t) /\ l \in made /\ lock[l] = Null
  /\ Demand("a_formatter", f # Null)
  /\ m_formatter' = [m_formatter EXCEPT ![l] = f]
  /\ AtOnce
  /\ UNCHANGED <<made, m_root, m_level, m_appenders, m_hasFormatter, own, bad>>

(* Fault: it is handed to all of them. *)
SetFormatterAll(t, l, f) ==
  /\ Idle(t) /\ l \in made /\ lock[l] = Null
  /\ Demand("a_formatter", f # Null)
  /\ m_formatter' = [o \in Objects |->
       IF o = l \/ o \in Range(m_appenders[l]) THEN f ELSE m_formatter[o]]
  /\ AtOnce
  /\ UNCHANGED <<made, m_root, m_level, m_appenders, m_hasFormatter, own, bad>>

(* Logger::setFormatter(f): the appenders that have none of their own follow.
   A pattern that does not parse gets no further than the parser. *)
SetFormatter(t, l, f) ==
  /\ Idle(t) /\ l \in made /\ lock[l] = Null
  /\ Demand("a_formatter", f # Null)
  /\ m_formatter' = [o \in Objects |->
       IF o = l \/ (o \in Range(m_appenders[l]) /\ ~m_hasFormatter[o])
       THEN f ELSE m_formatter[o]]
  /\ AtOnce
  /\ UNCHANGED <<made, m_root, m_level, m_appenders, m_hasFormatter, own, bad>>

(* LogAppender::setFormatter(f). *)
SetOwnFormatter(t, a, f) ==
  /\ Idle(t)
  /\ Demand("a_formatter", f # Null)
  /\ Demand("own_first", \A u \in Threads : ~Adding(u, a))
  /\ m_formatter' = [m_formatter EXCEPT ![a] = f]
  /\ m_hasFormatter' = [m_hasFormatter EXCEPT ![a] = f # Null]
  /\ own' = [own EXCEPT ![a] = f]
  /\ AtOnce
  /\ UNCHANGED <<made, m_root, m_level, m_appenders, bad>>

(* The loggers LoggerManager::m_loggers holds. *)
Managed == {l \in made : l = Root \/ m_root[l] = Root}

(* LoggerManager::toYamlString(): the manager's lock is kept ... *)
Dump(t) ==
  /\ Idle(t) /\ manager = Null
  /\ manager' = t
  /\ Begin(t, "dump", Null, Null)
  /\ UNCHANGED <<objs, lock, dumped, bad>>

(* ... while Logger::toYamlString() of each logger takes that logger's, and
   its appenders' under it, ... *)
DumpLogger(t, l) ==
  /\ bad = "no" /\ pc[t] = "dump" /\ l \in Managed \ dumped /\ lock[l] = Null
  /\ lock' = [lock EXCEPT ![l] = t]
  /\ at' = [at EXCEPT ![t] = l]
  /\ pc' = [pc EXCEPT ![t] = "dump_logger"]
  /\ UNCHANGED <<objs, mgr, call, idx, wrote, ops, bad>>

(* ... and releases it again; *)
DumpNext(t) ==
  /\ bad = "no" /\ pc[t] = "dump_logger"
  /\ lock' = [lock EXCEPT ![at[t]] = Null]
  /\ dumped' = dumped \cup {at[t]}
  /\ at' = [at EXCEPT ![t] = Null]
  /\ pc' = [pc EXCEPT ![t] = "dump"]
  /\ UNCHANGED <<objs, manager, call, idx, wrote, ops, bad>>

(* after the last one the call returns. *)
DumpReturn(t) ==
  /\ bad = "no" /\ pc[t] = "dump" /\ Managed \subseteq dumped
  /\ manager' = Null /\ dumped' = {}
  /\ Return(t)
  /\ UNCHANGED <<objs, bad>>

----------------------------------------------------------------------------
Calls(t) ==
  \/ \E l \in Loggers : GetLogger(t, l) \/ OwnLogger(t, l)
  \/ \E l \in Loggers, level \in Levels : LogMacro(t, l, level)
  \/ \E l \in Loggers, a \in Appenders : AddAppender(t, l, a)
  \/ \E l \in Loggers, a \in Appenders : DelAppender(t, l, a)
  \/ \E l \in Loggers : ClearAppender(t, l)
  \/ \E o \in Objects, level \in Levels : SetLevel(t, o, level)
  \/ \E l \in Loggers, f \in Formats \cup {Null} : SetFormatter(t, l, f)
  \/ \E a \in Appenders, f \in Formats \cup {Null} : SetOwnFormatter(t, a, f)

Continue(t) ==
  \/ LogCheck(t)
  \/ LogLock(t)
  \/ LogNext(t)
  \/ LogRest(t)
  \/ LogReturn(t)
  \/ AddCheck(t)
  \/ AddPush(t)

ContinueDump(t) ==
  \/ \E l \in Loggers : DumpLogger(t, l)
  \/ DumpNext(t)
  \/ DumpReturn(t)

Inside(t) == (Continue(t) /\ UNCHANGED mgr) \/ ContinueDump(t)

Next == \E t \in Threads :
  \/ Calls(t) /\ UNCHANGED mgr
  \/ Dump(t)
  \/ Inside(t)

Spec == Init /\ [][Next]_vars

(* A thread inside a call is scheduled.  A spinlock is not fair either; that
   a thread gets it at last is due to MaxOps. *)
FairSpec == Spec /\ \A t \in Threads : WF_vars(Inside(t))

----------------------------------------------------------------------------
(* Properties.                                                             *)

(* No list of appenders changes under the thread that walks or extends it,
   and no event reaches an appender without a formatter. *)
NothingBad == bad = "no"

(* The first n positions of the logger's list that admit the level. *)
Admitting(l, level, n) ==
  {i \in 1..n : level >= m_level[m_appenders[l][i]]}

(* What the appenders at these positions of the list write, in its order. *)
InOrder(w, list, P) ==
  \E f \in Surjection(DOMAIN w, P) :
    /\ \A i, j \in DOMAIN w : i < j => f[i] < f[j]
    /\ \A i \in DOMAIN w : w[i] = list[f[i]]

(* An event has been written when log() returns: once, in order, by the
   appenders of one logger whose level admits it, and the root's turn comes
   only for a logger without appenders (Logger::log). *)
WrittenOnce ==
  \A t \in Threads : pc[t] = "done" =>
    LET l == call[t].logger
        level == call[t].what
    IN
    /\ InOrder(wrote[t], m_appenders[at[t]],
               Admitting(at[t], level, Len(m_appenders[at[t]])))
    /\ \A i, j \in DOMAIN wrote[t] : wrote[t][i] = wrote[t][j] => i = j
    /\ IF at[t] # l THEN m_appenders[l] = <<>>
       ELSE m_appenders[l] = <<>> =>
              m_root[l] = Null \/ level < m_level[Root]

(* "Keep the formatter of the logger's appenders consistent with the
   logger's" (log.cc:532): an appender in a list that has no formatter of its
   own formats as its logger does. *)
FormattersFollow ==
  \A l \in Loggers : \A a \in Range(m_appenders[l]) :
    ~m_hasFormatter[a] => m_formatter[a] = m_formatter[l]

(* A formatter given to the appender itself stays until it is given another:
   neither addAppender nor the logger's setFormatter replaces it. *)
OwnFormatterKept ==
  \A a \in Appenders : m_hasFormatter[a] => m_formatter[a] = own[a]

(* Every call returns: the order manager, logger, root, appender of the locks
   closes no circle, and every lock is released. *)
CallsReturn == \A t \in Threads : pc[t] # "idle" ~> pc[t] = "idle"
=============================================================================
