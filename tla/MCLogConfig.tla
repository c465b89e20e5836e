---------------------------- MODULE MCLogConfig ----------------------------
(* Instance of LogConfig for TLC: the root and a logger on either side of it
   in the order of names, two threads, bin/conf/log.yml and log2.yml, and
   documents that go where these do not. *)
EXTENDS LogConfig

CONSTANTS t1, t2, p0, p1, p2, wrong

MCThreads == {t1, t2}
MCNames == {0, 1, 2}
MCPatterns == {p0, p1, p2}
MCTexts == MCPatterns \cup {wrong, Empty, "root", "system", "mutex", "x"}
MCLevels == {1, 4}
MCContract == Clauses
Repeating == Clauses \ {"all_change"}

File(file, f) ==
  [type |-> "FileLogAppender", file |-> file, level |-> "error", formatter |-> f]
Out(f) ==
  [type |-> "StdoutLogAppender", file |-> None, level |-> None, formatter |-> f]
Other(type) == [type |-> type, file |-> "x", level |-> None, formatter |-> None]
Entry(n, level, f, aps) ==
  [name |-> n, level |-> level, formatter |-> f, appenders |-> aps]

MCDocs ==
  { \* log.yml
    << Entry(1, "info", p1, <<File("root", None), Out(None)>>),
       Entry(2, "debug", p1, <<File("system", p2), Out(None)>>) >>,
    \* log2.yml: the root has a formatter no more, the other is gone
    << Entry(1, "info", None, <<File("mutex", None)>>) >>,
    \* entries and appenders that are passed over and not read, a name twice,
    \* a level nobody knows, a root without appenders
    << Entry(2, "loud", p1, <<Other("SocketAppender"), File(None, Bad)>>),
       Entry(None, Bad, p1, <<Out(None)>>),
       Entry(0, "ERROR", wrong, <<Other(None), Out(p1)>>),
       Entry(2, "info", None, <<Out(None)>>),
       Entry(1, "WARN", p2, <<>>) >>,
    << Entry(0, "fatal", Empty, <<File(Empty, wrong)>>),
       Entry(2, None, p2, <<Out(None)>>) >>,
    << Entry(0, "ERROR", wrong, <<Out(p1)>>) >>,
    \* a formatter that is not a text
    << Entry(0, "error", None, <<>>), Entry(1, "error", None, <<Out(Bad)>>) >>,
    <<>> }
=============================================================================
