------------------------- MODULE FileAppenderProofs -------------------------
(***************************************************************************)
(* What FileLogAppender promises about a file that goes away, for any      *)
(* number of threads, files and seconds.  Each theorem names the clause of *)
(* the contract that it needs, and no other: records reach the file at the *)
(* path because the clock does not go back, and a stream that failed       *)
(* recovers because it failed in open() and not in a write.                *)
(***************************************************************************)
EXTENDS FileAppender, TLAPS

(* The seconds that calls remember are not in the future. *)
PastInv ==
  /\ gone <= clock /\ m_lastTime <= clock
  /\ \A t \in Threads : now[t] <= clock

(* A good stream whose file is no longer at the path: nobody has opened the
   path, nor found it opened, in a second after the one the file went away
   in. *)
OrphanInv ==
  good /\ is_open # path =>
    /\ gone >= m_lastTime
    /\ \A t \in Threads : pc[t] \in {"stamp", "write"} => gone >= now[t]

IInv ==
  /\ TypeOK
  /\ good => is_open # None
  /\ PastInv
  /\ OrphanInv

(* Only a good stream has a file. *)
FailedIsClosed == ~good => is_open = None

----------------------------------------------------------------------------
(* What open() leaves behind: a good stream has the file at the path. *)
LEMMA OpenMakes ==
  ASSUME TypeOK, Open
  PROVE  /\ made' \in 0..MaxFiles /\ made <= made'
         /\ path' \in 1..made' \cup {None} /\ is_open' \in 1..made' \cup {None}
         /\ good' \in BOOLEAN
         /\ good' => is_open' = path' /\ is_open' # None
<1>1. /\ made \in 0..MaxFiles /\ path \in 1..made \cup {None}
      /\ is_open \in 1..made \cup {None}
  BY DEF TypeOK
<1>2. CASE StillOpen # None \/ ~openable
  <2>1. /\ is_open' = StillOpen /\ good' = FALSE /\ path' = path /\ made' = made
    BY <1>2 DEF Open
  <2>2. StillOpen \in 1..made \cup {None}
    BY <1>1 DEF StillOpen
  <2>3. made <= made'
    BY <1>1, <2>1
  <2> QED BY <1>1, <2>1, <2>2, <2>3
<1>3. CASE ~(StillOpen # None \/ ~openable) /\ path # None
  BY <1>1, <1>3 DEF Open
<1>4. CASE ~(StillOpen # None \/ ~openable) /\ path = None
  BY <1>1, <1>4, FileAppenderAssumption DEF Open
<1> QED BY <1>2, <1>3, <1>4

LEMMA InitInv == ASSUME Init PROVE IInv /\ FailedIsClosed
BY FileAppenderAssumption DEF Init, IInv, TypeOK, PastInv, OrphanInv, FailedIsClosed

LEMMA NextType == ASSUME TypeOK, [Next]_vars PROVE TypeOK'
<1>1. ASSUME NEW t \in Threads, Log(t) \/ ClientReopens(t) PROVE TypeOK'
  <2>1. ops' \in 0..MaxOps
    BY <1>1, FileAppenderAssumption DEF Log, ClientReopens, TypeOK
  <2>2. now' \in [Threads -> 0..MaxTime]
    BY <1>1, FileAppenderAssumption DEF Log, ClientReopens, TypeOK
  <2> QED BY <1>1, <2>1, <2>2 DEF Log, ClientReopens, Goto, TypeOK, env, stream
<1>2. ASSUME NEW t \in Threads, Check(t) \/ Stamp(t) \/ Write(t) PROVE TypeOK'
  BY <1>2 DEF Check, Stamp, Write, Goto, TypeOK, env, stream
<1>3. ASSUME NEW t \in Threads, Reopen(t) PROVE TypeOK'
  BY <1>3, OpenMakes DEF Reopen, Goto, TypeOK
<1>4. CASE Tick
  BY <1>4, FileAppenderAssumption DEF Tick, TypeOK, stream
<1>5. CASE Delete
  BY <1>5, FileAppenderAssumption DEF Delete, TypeOK, stream
<1>6. CASE Create
  BY <1>6, FileAppenderAssumption DEF Create, TypeOK, stream
<1>7. CASE Access
  BY <1>7 DEF Access, TypeOK, stream
<1>8. CASE UNCHANGED vars
  BY <1>8 DEF vars, env, stream, TypeOK
<1> QED BY <1>1, <1>2, <1>3, <1>4, <1>5, <1>6, <1>7, <1>8 DEF Next

(* The clock does not go back, so what was not in the future stays so. *)
LEMMA NextPast ==
  ASSUME IInv, "steady_clock" \in Contract, [Next]_vars
  PROVE  PastInv'
<1>1. /\ clock \in Int /\ gone \in Int /\ m_lastTime \in Int
      /\ now \in [Threads -> 0..MaxTime] /\ \A t \in Threads : now[t] \in Int
      /\ 0 <= clock
  BY FileAppenderAssumption DEF IInv, TypeOK
<1>2. PastInv
  BY DEF IInv
<1>3. ASSUME NEW t \in Threads, Log(t) \/ ClientReopens(t) PROVE PastInv'
  <2>1. now'[t] <= clock /\ \A u \in Threads : u # t => now'[u] = now[u]
    BY <1>1, <1>3 DEF Log, ClientReopens
  <2> QED BY <1>1, <1>2, <1>3, <2>1 DEF Log, ClientReopens, PastInv, env
<1>4. ASSUME NEW t \in Threads, Check(t) \/ Reopen(t) \/ Write(t) PROVE PastInv'
  BY <1>2, <1>4 DEF Check, Reopen, Write, PastInv, env
<1>5. ASSUME NEW t \in Threads, Stamp(t) PROVE PastInv'
  BY <1>2, <1>5 DEF Stamp, PastInv, env
<1>6. CASE Tick
  <2>1. clock' = clock + 1
    BY <1>6 DEF Tick
  <2> QED BY <1>1, <1>2, <1>6, <2>1 DEF Tick, PastInv
<1>7. CASE Delete
  BY <1>1, <1>2, <1>7 DEF Delete, PastInv
<1>8. CASE Create \/ Access \/ UNCHANGED vars
  BY <1>2, <1>8 DEF Create, Access, vars, env, PastInv
<1> QED BY <1>3, <1>4, <1>5, <1>6, <1>7, <1>8 DEF Next

LEMMA NextOrphan ==
  ASSUME IInv, [Next]_vars
  PROVE  OrphanInv' /\ (good' => is_open' # None)
<1>1. /\ pc \in [Threads -> {"idle", "check", "reopen", "stamp", "write"}]
      /\ OrphanInv /\ (good => is_open # None) /\ good \in BOOLEAN
  BY DEF IInv, TypeOK
<1>2. ASSUME NEW t \in Threads, Log(t) \/ ClientReopens(t)
      PROVE  OrphanInv' /\ (good' => is_open' # None)
  <2>1. /\ pc'[t] \notin {"stamp", "write"}
        /\ \A u \in Threads : u # t => pc'[u] = pc[u] /\ now'[u] = now[u]
        /\ UNCHANGED <<env, stream, m_lastTime>>
    BY <1>1, <1>2 DEF Log, ClientReopens, Goto, IInv, TypeOK
  <2> QED BY <1>1, <2>1 DEF OrphanInv, env, stream
<1>3. ASSUME NEW t \in Threads, Check(t)
      PROVE  OrphanInv' /\ (good' => is_open' # None)
  <2>1. /\ pc'[t] = "write" => now[t] = m_lastTime
        /\ pc'[t] \in {"reopen", "write"}
        /\ \A u \in Threads : u # t => pc'[u] = pc[u]
        /\ UNCHANGED <<env, stream, m_lastTime, now>>
    BY <1>1, <1>3 DEF Check, Goto
  <2> QED BY <1>1, <2>1 DEF OrphanInv, env, stream
<1>4. ASSUME NEW t \in Threads, Reopen(t)
      PROVE  OrphanInv' /\ (good' => is_open' # None)
  BY <1>4, OpenMakes DEF Reopen, IInv, OrphanInv
<1>5. ASSUME NEW t \in Threads, Stamp(t)
      PROVE  OrphanInv' /\ (good' => is_open' # None)
  <2>1. /\ pc[t] = "stamp" /\ m_lastTime' = now[t]
        /\ pc'[t] = "write" /\ \A u \in Threads : u # t => pc'[u] = pc[u]
        /\ UNCHANGED <<env, stream, now>>
    BY <1>1, <1>5 DEF Stamp, Goto
  <2> QED BY <1>1, <2>1 DEF OrphanInv, env, stream
<1>6. ASSUME NEW t \in Threads, Write(t)
      PROVE  OrphanInv' /\ (good' => is_open' # None)
  <2>1. /\ good' => good
        /\ pc'[t] = "idle" /\ \A u \in Threads : u # t => pc'[u] = pc[u]
        /\ UNCHANGED <<env, is_open, m_lastTime, now>>
    BY <1>1, <1>6 DEF Write, Goto
  <2> QED BY <1>1, <2>1 DEF OrphanInv, env
<1>7. CASE Delete
  <2>1. gone' = clock /\ UNCHANGED <<stream, m_lastTime, pc, now>>
    BY <1>7 DEF Delete
  <2>2. clock >= m_lastTime /\ \A t \in Threads : clock >= now[t]
    BY FileAppenderAssumption DEF IInv, PastInv, TypeOK
  <2> QED BY <1>1, <2>1, <2>2 DEF OrphanInv, stream
<1>8. CASE Create
  BY <1>1, <1>8 DEF Create, OrphanInv, stream
<1>9. CASE Tick \/ Access \/ UNCHANGED vars
  BY <1>1, <1>9 DEF Tick, Access, vars, env, stream, OrphanInv
<1> QED BY <1>2, <1>3, <1>4, <1>5, <1>6, <1>7, <1>8, <1>9 DEF Next

(* A write that cannot fail is the one reason why a failed stream is closed. *)
LEMMA NextClosed ==
  ASSUME FailedIsClosed, "no_write_error" \in Contract, [Next]_vars
  PROVE  FailedIsClosed'
<1>1. ASSUME NEW t \in Threads, Reopen(t) PROVE FailedIsClosed'
  <2>1. StillOpen = None
    BY DEF StillOpen, FailedIsClosed
  <2> QED BY <1>1, <2>1 DEF Reopen, Open, FailedIsClosed
<1>2. ASSUME NEW t \in Threads, Write(t) PROVE FailedIsClosed'
  BY <1>2 DEF Write, FailedIsClosed
<1>3. ASSUME NEW t \in Threads,
             Log(t) \/ ClientReopens(t) \/ Check(t) \/ Stamp(t)
      PROVE  FailedIsClosed'
  BY <1>3 DEF Log, ClientReopens, Check, Stamp, stream, FailedIsClosed
<1>4. CASE Tick \/ Delete \/ Create \/ Access \/ UNCHANGED vars
  BY <1>4 DEF Tick, Delete, Create, Access, vars, stream, FailedIsClosed
<1> QED BY <1>1, <1>2, <1>3, <1>4 DEF Next

----------------------------------------------------------------------------
(* The state keeps its types: m_lastTime and the numbers of the files stay in
   their ranges whatever clock and disk do. *)
THEOREM TypeCorrect == Spec => []TypeOK
<1>1. Init => TypeOK
  BY InitInv DEF IInv
<1> QED BY <1>1, NextType, PTL DEF Spec

(* The inductive invariant holds when the clock is steady. *)
THEOREM Invariant == ASSUME "steady_clock" \in Contract PROVE Spec => []IInv
<1>1. Init => IInv
  BY InitInv
<1>2. IInv /\ [Next]_vars => IInv'
  BY NextType, NextPast, NextOrphan DEF IInv
<1> QED BY <1>1, <1>2, PTL DEF Spec

(* The comment of log.cc:609 holds: log() reopens often enough that only a
   call which began no later than the loss writes to a lost file. *)
THEOREM RecordsReachThePath ==
  ASSUME "steady_clock" \in Contract PROVE Spec => []NotOrphaned
<1>1. IInv => NotOrphaned
  BY DEF IInv, OrphanInv, NotOrphaned
<1> QED BY <1>1, Invariant, PTL

(* reopen() on a path that can be opened leaves a stream that works, however
   often it failed before. *)
THEOREM ReopenRecovers == ASSUME "no_write_error" \in Contract PROVE Spec => Recovers
<1> DEFINE Step == \A t \in Threads :
                     pc[t] = "reopen" /\ pc'[t] # "reopen" /\ openable => good'
<1>1. Spec => []FailedIsClosed
  <2>1. Init => FailedIsClosed
    BY InitInv
  <2> QED BY <2>1, NextClosed, PTL DEF Spec
<1>2. ASSUME TypeOK, FailedIsClosed, [Next]_vars PROVE [Step]_vars
  <2>1. SUFFICES ASSUME NEW t \in Threads, pc[t] = "reopen", pc'[t] # "reopen", openable
                 PROVE  good'
    OBVIOUS
  <2>2. pc \in [Threads -> {"idle", "check", "reopen", "stamp", "write"}]
    BY <1>2 DEF TypeOK
  <2>3. ASSUME NEW u \in Threads,
               Log(u) \/ ClientReopens(u) \/ Check(u) \/ Stamp(u) \/ Write(u)
        PROVE  FALSE
    BY <2>1, <2>2, <2>3 DEF Log, ClientReopens, Check, Stamp, Write, Goto
  <2>4. ~(Tick \/ Delete \/ Create \/ Access \/ UNCHANGED vars)
    BY <2>1 DEF Tick, Delete, Create, Access, vars
  <2>5. PICK u \in Threads : Reopen(u)
    BY <1>2, <2>3, <2>4 DEF Next
  <2>6. StillOpen = None
    BY <1>2 DEF StillOpen, FailedIsClosed
  <2> QED BY <2>1, <2>5, <2>6 DEF Reopen, Open
<1>3. Spec => [][Step]_vars
  BY <1>1, <1>2, TypeCorrect, PTL DEF Spec
<1> QED BY <1>3 DEF Recovers
=============================================================================
