-------------------------- MODULE ScopedLockProofs --------------------------
(***************************************************************************)
(* Under the contract of ScopedLock the guards keep their lock, for any    *)
(* threads, any finite number of guards and either kind of lock.           *)
(* FlagsMatchLock is not inductive: that an unlock() gives back what the   *)
(* same guard took needs the exclusion itself, and glibc's memory of the   *)
(* writer must be right, or a wrlock that fails with EDEADLK would set the *)
(* flag of a guard that holds nothing.                                     *)
(***************************************************************************)
EXTENDS ScopedLock, FiniteSetTheorems, TLAPS

(* The guard is in its owner's way: it holds the lock or waits for it. *)
Busy(g) == m_locked[g] \/ waiting[g]

(* Only a guard that exists holds or waits, not both, and a thread has at
   most one such guard. *)
GuardInv ==
  /\ \A g \in Guards : Busy(g) => owner[g] \in Threads
  /\ \A g \in Guards : ~(m_locked[g] /\ waiting[g])
  /\ \A g, h \in Guards : Busy(g) /\ Busy(h) /\ owner[g] = owner[h] => g = h

(* A locked write guard is the only locked guard, and the lock knows who took
   it. *)
WriterInv ==
  /\ \A g, h \in Guards : m_locked[g] /\ m_locked[h] /\ mode[g] = "W" => g = h
  /\ \A g \in Guards : m_locked[g] /\ mode[g] = "W" => cur_writer = owner[g]
  /\ cur_writer # Null => \E g \in Guards : m_locked[g] /\ mode[g] = "W"

(* Between the load and the store of ++count the thread has the lock, and
   what it loaded is still there. *)
CountInv ==
  /\ count = done
  /\ \A t \in Threads : loaded[t] # -1 =>
       /\ loaded[t] = count
       /\ \E g \in Guards : owner[g] = t /\ m_locked[g] /\ mode[g] = "W"

IInv ==
  /\ TypeOK
  /\ GuardInv
  /\ WriterInv
  /\ FlagsMatchLock
  /\ CountInv

----------------------------------------------------------------------------

(* The sets that FlagsMatchLock counts are finite. *)
LEMMA LockedFinite ==
  ASSUME NEW m
  PROVE  /\ IsFiniteSet(LockedGuards(m))
         /\ Cardinality(LockedGuards(m)) \in Nat
         /\ Cardinality(LockedGuards(m)) = 0 <=> LockedGuards(m) = {}
<1>1. IsFiniteSet(LockedGuards(m))
  BY FS_Subset, LockAssumption DEF LockedGuards
<1> QED BY <1>1, FS_CardinalityType, FS_EmptySet

(* A thread that holds the lock for writing is the one that the lock
   remembers, and everyone else holds nothing. *)
LEMMA WriterAlone ==
  ASSUME IInv, NEW g \in Guards, m_locked[g], mode[g] = "W"
  PROVE  /\ m_mutex = -1 /\ cur_writer = owner[g]
         /\ LockedGuards("W") = {g} /\ LockedGuards("R") = {}
<1>1. g \in LockedGuards("W")
  BY DEF LockedGuards
<1>2. m_mutex = -1
  BY <1>1 DEF IInv, FlagsMatchLock
<1> QED BY <1>1, <1>2 DEF IInv, WriterInv, LockedGuards

(* A thread that waits has no locked guard, so the lock does not take it for
   the writer and its error path is not taken. *)
LEMMA WaiterIsNotWriter ==
  ASSUME IInv, NEW g \in Guards, waiting[g]
  PROVE  owner[g] \in Threads /\ cur_writer # owner[g] /\ ~m_locked[g]
<1>1. owner[g] \in Threads /\ ~m_locked[g] /\ owner[g] # Null
  BY LockAssumption DEF IInv, GuardInv, Busy
<1>2. ASSUME cur_writer = owner[g] PROVE FALSE
  <2>1. PICK h \in Guards : m_locked[h] /\ mode[h] = "W"
    BY <1>1, <1>2 DEF IInv, WriterInv
  <2>2. owner[h] = owner[g]
    BY <1>2, <2>1 DEF IInv, WriterInv
  <2> QED BY <1>1, <2>1, <2>2 DEF IInv, GuardInv, Busy
<1> QED BY <1>1, <1>2

LEMMA InitInv == ASSUME Init PROVE IInv
<1> USE DEF Init
<1>1. TypeOK
  BY LockAssumption DEF TypeOK
<1>2. LockedGuards("W") = {} /\ LockedGuards("R") = {}
  BY DEF LockedGuards
<1>3. FlagsMatchLock
  BY <1>2, FS_EmptySet DEF FlagsMatchLock
<1> QED BY <1>1, <1>3 DEF IInv, GuardInv, Busy, WriterInv, CountInv

(* A new guard waits, and its thread has no other that does or holds. *)
LEMMA NewGuardInv ==
  ASSUME IInv, Contract = Clauses, NEW t \in Threads, NEW g \in Guards,
         NEW m \in Modes, NEW from \in Guards \cup {Null},
         NewGuard(t, g, m, from)
  PROVE  IInv'
<1>1. /\ from = Null /\ owner[g] = Null
      /\ \A h \in Guards : owner[h] = t => ~Busy(h)
  BY DEF NewGuard, Demand, Clauses, Free, Holds, Busy
<1>2. /\ owner' = [owner EXCEPT ![g] = t]
      /\ mode' = [mode EXCEPT ![g] = m]
      /\ waiting' = [waiting EXCEPT ![g] = TRUE]
      /\ m_locked' = [m_locked EXCEPT ![g] = FALSE]
      /\ UNCHANGED <<m_mutex, cur_writer, count, loaded, done>>
  BY <1>1 DEF NewGuard
<1>3. m \in {"R", "W"}
  BY DEF Modes
<1>4. ~Busy(g) /\ g # Null /\ t # Null
  BY <1>1, LockAssumption DEF IInv, GuardInv
<1>5. m_locked' = m_locked
  BY <1>2, <1>4 DEF IInv, TypeOK, Busy
<1>6. TypeOK'
  BY <1>2, <1>3 DEF IInv, TypeOK
<1>7. GuardInv'
  BY <1>1, <1>2, <1>4 DEF IInv, TypeOK, GuardInv, Busy
<1>8. \A h \in Guards : m_locked[h] => owner'[h] = owner[h] /\ mode'[h] = mode[h]
  BY <1>2, <1>4 DEF IInv, TypeOK, Busy
<1>9. WriterInv'
  BY <1>2, <1>5, <1>8 DEF IInv, WriterInv
<1>10. \A k : LockedGuards(k)' = LockedGuards(k)
  BY <1>5, <1>8 DEF LockedGuards
<1>11. FlagsMatchLock'
  BY <1>2, <1>10 DEF IInv, FlagsMatchLock
<1>12. CountInv'
  BY <1>2, <1>5, <1>8 DEF IInv, CountInv
<1> QED BY <1>6, <1>7, <1>9, <1>11, <1>12 DEF IInv

(* lock() on a guard that has the lock does nothing; on any other it waits,
   and then no guard of the thread holds. *)
LEMMA RelockInv ==
  ASSUME IInv, Contract = Clauses, NEW t \in Threads, NEW g \in Guards,
         Relock(t, g)
  PROVE  IInv'
<1>1. /\ owner[g] = t
      /\ \A h \in Guards : owner[h] = t => ~waiting[h]
      /\ ~m_locked[g] => \A h \in Guards : owner[h] = t => ~m_locked[h]
  BY DEF Relock, Demand, Clauses, Free, Holds
<1>2. /\ waiting' = [waiting EXCEPT ![g] = ~m_locked[g]]
      /\ UNCHANGED <<m_mutex, cur_writer, owner, mode, m_locked, count, loaded,
                     done>>
  BY DEF Relock
<1>3. TypeOK'
  BY <1>2 DEF IInv, TypeOK
<1>4. GuardInv'
  BY <1>1, <1>2 DEF IInv, TypeOK, GuardInv, Busy
<1> QED BY <1>2, <1>3, <1>4
        DEF IInv, WriterInv, FlagsMatchLock, LockedGuards, CountInv

(* The lock is granted to a reader when no writer holds it, to a writer when
   nobody does. *)
LEMMA AcquireInv ==
  ASSUME IInv, NEW g \in Guards, Acquire(g)
  PROVE  IInv'
<1>1. /\ waiting[g] /\ LockWord(owner[g], mode[g])
      /\ waiting' = [waiting EXCEPT ![g] = FALSE]
      /\ m_locked' = [m_locked EXCEPT ![g] = TRUE]
      /\ UNCHANGED <<owner, mode, count, loaded, done>>
  BY DEF Acquire
<1>2. owner[g] \in Threads /\ cur_writer # owner[g] /\ ~m_locked[g]
  BY <1>1, WaiterIsNotWriter
<1>3. mode[g] \in {"R", "W"}
  BY DEF IInv, TypeOK
<1>4. GuardInv'
  BY <1>1, <1>2 DEF IInv, TypeOK, GuardInv, Busy
<1>5. m_mutex \in Nat \cup {-1}
  BY DEF IInv, TypeOK
<1>6. CASE mode[g] = "R"
  <2>1. m_mutex >= 0 /\ m_mutex' = m_mutex + 1 /\ cur_writer' = cur_writer
    BY <1>1, <1>2, <1>6 DEF LockWord
  <2>2. LockedGuards("W") = {} /\ m_mutex = Cardinality(LockedGuards("R"))
    BY <2>1, <1>5 DEF IInv, FlagsMatchLock
  <2>3. LockedGuards("W")' = {} /\ LockedGuards("R")' = LockedGuards("R") \cup {g}
    BY <1>1, <1>6, <2>2 DEF IInv, TypeOK, LockedGuards
  <2>4. g \notin LockedGuards("R")
    BY <1>2 DEF LockedGuards
  <2>5. Cardinality(LockedGuards("R")') = Cardinality(LockedGuards("R")) + 1
    BY <2>3, <2>4, LockedFinite, FS_AddElement
  <2>6. FlagsMatchLock'
    BY <2>1, <2>2, <2>3, <2>5 DEF FlagsMatchLock
  <2>7. WriterInv'
    BY <1>1, <1>6, <2>1, <2>2 DEF IInv, TypeOK, WriterInv, LockedGuards
  <2>8. TypeOK'
    BY <1>1, <1>5, <2>1 DEF IInv, TypeOK
  <2>9. CountInv'
    BY <1>1 DEF IInv, TypeOK, CountInv
  <2> QED BY <1>4, <2>6, <2>7, <2>8, <2>9 DEF IInv
<1>7. CASE mode[g] = "W"
  <2>1. m_mutex = 0 /\ m_mutex' = -1 /\ cur_writer' = owner[g]
    BY <1>1, <1>2, <1>7 DEF LockWord
  <2>2. LockedGuards("W") = {} /\ LockedGuards("R") = {}
    BY <2>1, LockedFinite DEF IInv, FlagsMatchLock
  <2>3. \A h \in Guards : ~m_locked[h]
    BY <2>2 DEF IInv, TypeOK, LockedGuards
  <2>4. g \in LockedGuards("W")'
    BY <1>1, <1>7 DEF IInv, TypeOK, LockedGuards
  <2>5. FlagsMatchLock'
    BY <2>1, <2>4 DEF FlagsMatchLock
  <2>6. WriterInv'
    BY <1>1, <1>7, <2>1, <2>3 DEF IInv, TypeOK, WriterInv
  <2>7. TypeOK'
    BY <1>1, <1>2, <2>1 DEF IInv, TypeOK
  <2>8. CountInv'
    BY <1>1 DEF IInv, TypeOK, CountInv
  <2> QED BY <1>4, <2>5, <2>6, <2>7, <2>8 DEF IInv
<1> QED BY <1>3, <1>6, <1>7

(* unlock(), early or from the destructor, by a thread that is not inside
   ++count gives back what this guard took and nothing else. *)
LEMMA GuardUnlockInv ==
  ASSUME IInv, NEW t \in Threads, NEW g \in Guards, owner[g] = t, Free(t),
         GuardUnlock(g),
         \/ owner' = owner
         \/ owner' = [owner EXCEPT ![g] = Null],
         UNCHANGED <<mode, waiting, count, loaded, done>>
  PROVE  IInv'
<1>1. ~waiting[g] /\ loaded[t] = -1
  BY DEF Free
<1>2. /\ m_locked' = [m_locked EXCEPT ![g] = FALSE]
      /\ m_locked[g] => UnlockWord
      /\ ~m_locked[g] => UNCHANGED <<m_mutex, cur_writer>>
  BY DEF GuardUnlock, IInv, TypeOK
<1>3. \A h \in Guards : h # g => owner'[h] = owner[h] /\ m_locked'[h] = m_locked[h]
  BY <1>2 DEF IInv, TypeOK
<1>4. ~m_locked'[g] /\ owner' \in [Guards -> Threads \cup {Null}]
  BY <1>2 DEF IInv, TypeOK
<1>5. GuardInv'
  BY <1>1, <1>3, <1>4 DEF IInv, TypeOK, GuardInv, Busy
<1>6. CountInv'
  <2>1. ASSUME NEW u \in Threads, loaded[u] # -1
        PROVE  \E h \in Guards : owner'[h] = u /\ m_locked'[h] /\ mode[h] = "W"
    <3>1. PICK h \in Guards : owner[h] = u /\ m_locked[h] /\ mode[h] = "W"
      BY <2>1 DEF IInv, CountInv
    <3>2. h # g
      BY <1>1, <2>1, <3>1
    <3> QED BY <1>3, <3>1, <3>2
  <2> QED BY <2>1 DEF IInv, CountInv
<1>7. CASE ~m_locked[g]
  <2>1. m_locked' = m_locked /\ UNCHANGED <<m_mutex, cur_writer>>
    BY <1>2, <1>7 DEF IInv, TypeOK
  <2>2. TypeOK'
    BY <1>4, <2>1 DEF IInv, TypeOK
  <2>3. FlagsMatchLock'
    BY <2>1 DEF IInv, FlagsMatchLock, LockedGuards
  <2>4. WriterInv'
    BY <1>3, <1>7, <2>1 DEF IInv, WriterInv
  <2> QED BY <1>5, <1>6, <2>2, <2>3, <2>4 DEF IInv
<1>8. CASE m_locked[g] /\ mode[g] = "W"
  <2>1. m_mutex = -1 /\ LockedGuards("W") = {g} /\ LockedGuards("R") = {}
    BY <1>8, WriterAlone
  <2>2. m_mutex' = 0 /\ cur_writer' = Null
    BY <1>2, <1>8, <2>1 DEF UnlockWord
  <2>3. LockedGuards("W")' = {} /\ LockedGuards("R")' = {}
    BY <1>3, <1>4, <2>1 DEF LockedGuards
  <2>4. FlagsMatchLock'
    BY <2>2, <2>3, FS_EmptySet DEF FlagsMatchLock
  <2>5. TypeOK'
    BY <1>2, <1>4, <2>2 DEF IInv, TypeOK
  <2>6. WriterInv'
    BY <2>2, <2>3 DEF WriterInv, LockedGuards
  <2> QED BY <1>5, <1>6, <2>4, <2>5, <2>6 DEF IInv
<1>9. CASE m_locked[g] /\ mode[g] = "R"
  <2>1. LockedGuards("W") = {} /\ g \in LockedGuards("R")
    BY <1>9 DEF IInv, WriterInv, LockedGuards
  <2>2. m_mutex = Cardinality(LockedGuards("R")) /\ m_mutex # 0 /\ m_mutex \in Nat
    BY <2>1, LockedFinite DEF IInv, FlagsMatchLock
  <2>3. m_mutex' = m_mutex - 1 /\ cur_writer' = cur_writer
    BY <1>2, <1>9, <2>2 DEF UnlockWord
  <2>4. LockedGuards("W")' = {} /\ LockedGuards("R")' = LockedGuards("R") \ {g}
    BY <1>3, <1>4, <2>1 DEF LockedGuards
  <2>5. Cardinality(LockedGuards("R")') = Cardinality(LockedGuards("R")) - 1
    BY <2>1, <2>4, LockedFinite, FS_RemoveElement
  <2>6. FlagsMatchLock'
    BY <2>2, <2>3, <2>4, <2>5 DEF FlagsMatchLock
  <2>7. TypeOK'
    <3>1. m_mutex' \in Nat
      BY <2>2, <2>3
    <3>2. cur_writer' \in Threads \cup {Null}
      BY <2>3 DEF IInv, TypeOK
    <3> QED BY <1>2, <1>4, <3>1, <3>2 DEF IInv, TypeOK
  <2>8. WriterInv'
    BY <1>3, <1>4, <2>1, <2>3, <2>4 DEF IInv, WriterInv, LockedGuards
  <2> QED BY <1>5, <1>6, <2>6, <2>7, <2>8 DEF IInv
<1>10. mode[g] \in {"R", "W"}
  BY DEF IInv, TypeOK
<1> QED BY <1>7, <1>8, <1>9, <1>10

(* The load of ++count is under a write guard. *)
LEMMA LoadInv ==
  ASSUME IInv, NEW t \in Threads, Load(t)
  PROVE  IInv'
<1>1. /\ loaded' = [loaded EXCEPT ![t] = count]
      /\ \E g \in Guards : owner[g] = t /\ m_locked[g] /\ mode[g] = "W"
      /\ UNCHANGED <<m_mutex, cur_writer, owner, mode, m_locked, waiting, count,
                     done>>
  BY DEF Load
<1>2. TypeOK'
  BY <1>1 DEF IInv, TypeOK
<1>3. CountInv'
  BY <1>1 DEF IInv, TypeOK, CountInv
<1> QED BY <1>1, <1>2, <1>3
        DEF IInv, GuardInv, Busy, WriterInv, FlagsMatchLock, LockedGuards

(* At the store no other thread is between its load and its store: it would
   hold the same lock. *)
LEMMA StoreInv ==
  ASSUME IInv, NEW t \in Threads, Store(t)
  PROVE  IInv'
<1>1. /\ loaded[t] # -1 /\ done < MaxCount
      /\ count' = loaded[t] + 1
      /\ loaded' = [loaded EXCEPT ![t] = -1]
      /\ done' = done + 1
      /\ UNCHANGED <<m_mutex, cur_writer, owner, mode, m_locked, waiting>>
  BY DEF Store
<1>2. ASSUME NEW u \in Threads, u # t PROVE loaded[u] = -1
  <2>1. SUFFICES ASSUME loaded[u] # -1 PROVE FALSE
    OBVIOUS
  <2>2. PICK g \in Guards : owner[g] = t /\ m_locked[g] /\ mode[g] = "W"
    BY <1>1 DEF IInv, CountInv
  <2>3. PICK h \in Guards : owner[h] = u /\ m_locked[h] /\ mode[h] = "W"
    BY <2>1 DEF IInv, CountInv
  <2> QED BY <1>2, <2>2, <2>3 DEF IInv, WriterInv
<1>3. loaded[t] = count /\ count = done
  BY <1>1 DEF IInv, CountInv
<1>4. TypeOK'
  BY <1>1, <1>3, LockAssumption DEF IInv, TypeOK
<1>5. CountInv'
  BY <1>1, <1>2, <1>3 DEF IInv, TypeOK, CountInv
<1> QED BY <1>1, <1>4, <1>5
        DEF IInv, GuardInv, Busy, WriterInv, FlagsMatchLock, LockedGuards

LEMMA NextInv ==
  ASSUME IInv, Contract = Clauses, [Next]_vars
  PROVE  IInv'
<1>1. ASSUME NEW t \in Threads, NEW g \in Guards, NEW m \in Modes,
             NEW from \in Guards \cup {Null}, NewGuard(t, g, m, from)
      PROVE  IInv'
  BY <1>1, NewGuardInv
<1>2. ASSUME NEW t \in Threads, NEW g \in Guards, Relock(t, g) PROVE IInv'
  BY <1>2, RelockInv
<1>3. ASSUME NEW t \in Threads, NEW g \in Guards, Unlock(t, g) PROVE IInv'
  BY <1>3, GuardUnlockInv DEF Unlock
<1>4. ASSUME NEW t \in Threads, NEW g \in Guards, Destroy(t, g) PROVE IInv'
  BY <1>4, GuardUnlockInv DEF Destroy
<1>5. ASSUME NEW g \in Guards, Acquire(g) PROVE IInv'
  BY <1>5, AcquireInv
<1>6. ASSUME NEW t \in Threads, Load(t) PROVE IInv'
  BY <1>6, LoadInv
<1>7. ASSUME NEW t \in Threads, Store(t) PROVE IInv'
  BY <1>7, StoreInv
<1>8. CASE UNCHANGED vars
  BY <1>8 DEF vars, IInv, TypeOK, GuardInv, Busy, WriterInv, FlagsMatchLock,
              LockedGuards, CountInv
<1> QED BY <1>1, <1>2, <1>3, <1>4, <1>5, <1>6, <1>7, <1>8 DEF Next

----------------------------------------------------------------------------
(* The inductive invariant holds throughout. *)
LEMMA Invariant == ASSUME Contract = Clauses PROVE Spec => []IInv
<1>1. Init => IInv
  BY InitInv
<1>2. IInv /\ [Next]_vars => IInv'
  BY NextInv
<1> QED BY <1>1, <1>2, PTL DEF Spec

(* Lock and guards keep their types: under the contract no guard, unlocked
   early, locked again or destroyed, unlocks a lock that is free, which would
   leave the word Spoilt (thread.h:51-56, 81-86, 111-116). *)
THEOREM TypeCorrect == ASSUME Contract = Clauses PROVE Spec => []TypeOK
<1>1. IInv => TypeOK
  BY DEF IInv
<1> QED BY <1>1, Invariant, PTL

(* m_locked of every guard tells the truth about the lock (ScopedLockImpl,
   thread.h), for any number of threads and guards. *)
THEOREM FlagsAreTrue == ASSUME Contract = Clauses PROVE Spec => []FlagsMatchLock
<1>1. IInv => FlagsMatchLock
  BY DEF IInv
<1> QED BY <1>1, Invariant, PTL

(* Two threads are inside a lock together only as readers. *)
THEOREM GuardsExclude == ASSUME Contract = Clauses PROVE Spec => []MutualExclusion
<1>1. ASSUME IInv PROVE MutualExclusion
  BY <1>1 DEF IInv, TypeOK, WriterInv, MutualExclusion
<1> QED BY <1>1, Invariant, PTL

(* No increment of tests/test_thread.cc's counter is lost under a write
   guard. *)
THEOREM NothingLost == ASSUME Contract = Clauses PROVE Spec => []NoLostUpdate
<1>1. IInv => NoLostUpdate
  BY DEF IInv, CountInv, NoLostUpdate
<1> QED BY <1>1, Invariant, PTL
=============================================================================
