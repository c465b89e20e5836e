---------------------------- MODULE FileAppender ----------------------------
(***************************************************************************)
(* FileLogAppender of sylar/log.h and sylar/log.cc: a stream that is       *)
(* opened again with the first record of every second, "in case the file   *)
(* was deleted" (log.cc:609), while the file is deleted and made again,    *)
(* opening fails for a time, and several threads log or call reopen().     *)
(*                                                                         *)
(* What happens under the appender's spinlock is one step.  m_lastTime is  *)
(* read and written without it; the build reads and writes its eight bytes *)
(* at once, so a reader sees the old or the new value.  The level check is *)
(* in Logger, and what buffering delays is taken as written.  A file is a  *)
(* number: a path that names nothing gets the next one when it is opened.  *)
(***************************************************************************)
EXTENDS Integers

CONSTANTS
  Threads,
  None,
  Contract,  \* what the environment respects
  MaxTime,   \* bound: the last second
  MaxFiles,  \* bound: files made at the path
  MaxOps     \* bound: calls

Clauses ==
  { "steady_clock",  \* time() never goes back
    "no_write_error" }  \* a stream that is open takes every record

ASSUME FileAppenderAssumption ==
  /\ None \notin Nat
  /\ Contract \subseteq Clauses
  /\ MaxTime \in Nat \ {0} /\ MaxFiles \in Nat \ {0} /\ MaxOps \in Nat

VARIABLES
  clock,       \* time(0)
  path,        \* the file the path names, or None
  made,        \* files made so far
  openable,    \* the path can be opened and created
  gone,        \* the second in which the path last lost its file
  is_open,     \* the file m_filestream's buffer has open, or None
  good,        \* m_filestream has neither failbit nor badbit
  m_lastTime,
  pc,
  now,         \* log(): the local variable; 0 in a call of reopen()
  ops

env == <<clock, path, made, openable, gone>>
stream == <<is_open, good>>
vars == <<env, stream, m_lastTime, pc, now, ops>>

TypeOK ==
  /\ clock \in 1..MaxTime /\ gone \in 0..MaxTime /\ m_lastTime \in 0..MaxTime
  /\ made \in 0..MaxFiles
  /\ path \in 1..made \cup {None} /\ is_open \in 1..made \cup {None}
  /\ openable \in BOOLEAN /\ good \in BOOLEAN
  /\ pc \in [Threads -> {"idle", "check", "reopen", "stamp", "write"}]
  /\ now \in [Threads -> 0..MaxTime]
  /\ ops \in 0..MaxOps

(* After the constructor, whose reopen() worked or did not. *)
Init ==
  /\ clock = 1 /\ gone = 0
  /\ openable \in BOOLEAN
  /\ good = openable
  /\ made = IF openable THEN 1 ELSE 0
  /\ path = IF openable THEN 1 ELSE None
  /\ is_open = path
  /\ m_lastTime = 0
  /\ pc = [t \in Threads |-> "idle"]
  /\ now = [t \in Threads |-> 0]
  /\ ops = 0

----------------------------------------------------------------------------
Goto(t, where) == pc' = [pc EXCEPT ![t] = where]

(* log() of an event that is not below m_level reads the clock ... *)
Log(t) ==
  /\ pc[t] = "idle" /\ ops < MaxOps
  /\ now' = [now EXCEPT ![t] = clock]
  /\ ops' = ops + 1
  /\ Goto(t, "check")
  /\ UNCHANGED <<env, stream, m_lastTime>>

(* Fault: m_lastTime is set before the file is opened. *)
CheckStamps(t) ==
  /\ pc[t] = "check"
  /\ Goto(t, IF now[t] # m_lastTime THEN "reopen" ELSE "write")
  /\ m_lastTime' = now[t]
  /\ UNCHANGED <<env, stream, now, ops>>

(* ... and compares it with the last second in which it opened the file. *)
Check(t) ==
  /\ pc[t] = "check"
  /\ Goto(t, IF now[t] # m_lastTime THEN "reopen" ELSE "write")
  /\ UNCHANGED <<env, stream, m_lastTime, now, ops>>

(* A client calls reopen(). *)
ClientReopens(t) ==
  /\ pc[t] = "idle" /\ ops < MaxOps
  /\ now' = [now EXCEPT ![t] = 0]
  /\ ops' = ops + 1
  /\ Goto(t, "reopen")
  /\ UNCHANGED <<env, stream, m_lastTime>>

(* Fault: the stream is not closed first. *)
KeepsOpen == is_open

(* The file that is still open after close(), which is called on a good
   stream only and always closes. *)
StillOpen == IF good THEN None ELSE is_open

(* ofstream::open(app): it fails on a stream that is open, clears the state of
   one that was not, and makes a file that is missing. *)
Open ==
  IF StillOpen # None \/ ~openable
  THEN is_open' = StillOpen /\ good' = FALSE /\ UNCHANGED <<path, made>>
  ELSE /\ good' = TRUE
       /\ IF path = None
          THEN /\ made < MaxFiles
               /\ made' = made + 1 /\ path' = made + 1 /\ is_open' = made + 1
          ELSE is_open' = path /\ UNCHANGED <<path, made>>

(* reopen(), in one critical section.  Nobody looks at its result. *)
Reopen(t) ==
  /\ pc[t] = "reopen"
  /\ Open
  /\ Goto(t, IF now[t] = 0 THEN "idle" ELSE "stamp")
  /\ UNCHANGED <<clock, openable, gone, m_lastTime, now, ops>>

(* m_lastTime = now, outside the lock. *)
Stamp(t) ==
  /\ pc[t] = "stamp"
  /\ m_lastTime' = now[t]
  /\ Goto(t, "write")
  /\ UNCHANGED <<env, stream, now, ops>>

(* The record goes to the open file.  A write that fails sets badbit. *)
Write(t) ==
  /\ pc[t] = "write"
  /\ good' \in IF "no_write_error" \in Contract THEN {good} ELSE {good, FALSE}
  /\ Goto(t, "idle")
  /\ UNCHANGED <<env, is_open, m_lastTime, now, ops>>

----------------------------------------------------------------------------
(* The environment.                                                        *)

Tick ==
  /\ clock' \in IF "steady_clock" \in Contract
                THEN {clock + 1} \cap 1..MaxTime ELSE 1..MaxTime
  /\ UNCHANGED <<path, made, openable, gone, stream, m_lastTime, pc, now, ops>>

(* The file is deleted or renamed ... *)
Delete ==
  /\ path # None
  /\ path' = None /\ gone' = clock
  /\ UNCHANGED <<clock, made, openable, stream, m_lastTime, pc, now, ops>>

(* ... and another program makes a new one. *)
Create ==
  /\ path = None /\ openable /\ made < MaxFiles
  /\ made' = made + 1 /\ path' = made + 1
  /\ UNCHANGED <<clock, openable, gone, stream, m_lastTime, pc, now, ops>>

(* A directory or its permissions change. *)
Access ==
  /\ openable' = ~openable
  /\ UNCHANGED <<clock, path, made, gone, stream, m_lastTime, pc, now, ops>>

Next ==
  \/ \E t \in Threads :
       Log(t) \/ ClientReopens(t) \/ Check(t) \/ Reopen(t) \/ Stamp(t) \/ Write(t)
  \/ Tick \/ Delete \/ Create \/ Access

Spec == Init /\ [][Next]_vars

----------------------------------------------------------------------------
(* Properties.                                                             *)

(* "Reopen periodically, in case the file was deleted" (log.cc:609): a record
   that is about to be written to a file no longer at the path belongs to a
   call that began no later than the second in which the file went away. *)
NotOrphaned ==
  \A t \in Threads :
    pc[t] = "write" /\ good /\ is_open # path => gone >= now[t]

(* A reopen() while the path can be opened leaves a stream that works, however
   often opening failed before. *)
Recovers ==
  [][\A t \in Threads :
       pc[t] = "reopen" /\ pc'[t] # "reopen" /\ openable => good']_vars
=============================================================================
