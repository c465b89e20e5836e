----------------------------- MODULE ScopedLock -----------------------------
(***************************************************************************)
(* The scoped locks of sylar/thread.h (ScopedLockImpl, ReadScopedLockImpl, *)
(* WriteScopedLockImpl) on one lock, with the callers of                   *)
(* tests/test_thread.cc that increment a shared counter under it.          *)
(*                                                                         *)
(* The lock is a pthread mutex, spinlock or rwlock, or CASLock's           *)
(* atomic_flag: a word that is 0 when free, -1 when taken exclusively and  *)
(* the number of readers otherwise.  The wrappers ignore what the pthread  *)
(* functions return.  A caller may break the guards in two ways that       *)
(* nothing in the header prevents: copying one (the copy constructor is    *)
(* implicit), and taking the lock again while holding it.                  *)
(***************************************************************************)
EXTENDS Integers, FiniteSets

CONSTANTS
  Threads,
  Guards,     \* scoped lock objects
  Null,
  Kind,       \* "Mutex" (Spinlock and CASLock act alike) or "RWMutex"
  Contract,   \* what callers respect
  MaxCount    \* bound: increments in one run

Clauses ==
  { "no_copy",    \* a guard is never copied
    "no_nest" }   \* a thread never locks what it has locked

ASSUME LockAssumption ==
  /\ Null \notin Threads \cup Guards
  /\ IsFiniteSet(Guards)
  /\ Kind \in {"Mutex", "RWMutex"}
  /\ Contract \subseteq Clauses
  /\ MaxCount \in Nat

Spoilt == -2   \* the lock word after an unlock that nobody was entitled to

Modes == IF Kind = "RWMutex" THEN {"R", "W"} ELSE {"W"}

VARIABLES
  m_mutex,      \* the lock word: 0 free, -1 exclusive, n > 0 readers, Spoilt
  cur_writer,   \* glibc's owner of a write lock, else Null
  owner,        \* the thread whose frame holds the guard, Null: no object
  mode,         \* which template the guard is: "R" or "W"
  m_locked,     \* the guard's flag
  waiting,      \* the guard's lock() is blocked in the lock
  count,        \* the shared counter of the test
  loaded,       \* the value a thread has read for its ++count, -1: none
  done          \* increments completed

vars == <<m_mutex, cur_writer, owner, mode, m_locked, waiting, count, loaded,
          done>>

(* Every variable has its type.  For the lock word this says that no guard
   ever unlocks a lock that is free: the word is never Spoilt. *)
TypeOK ==
  /\ m_mutex \in Nat \cup {-1}
  /\ cur_writer \in Threads \cup {Null}
  /\ owner \in [Guards -> Threads \cup {Null}]
  /\ mode \in [Guards -> {"R", "W"}]
  /\ m_locked \in [Guards -> BOOLEAN]
  /\ waiting \in [Guards -> BOOLEAN]
  /\ count \in Nat
  /\ loaded \in [Threads -> Nat \cup {-1}]
  /\ done \in 0..MaxCount

Init ==
  /\ m_mutex = 0
  /\ cur_writer = Null
  /\ owner = [g \in Guards |-> Null]
  /\ mode = [g \in Guards |-> "W"]
  /\ m_locked = [g \in Guards |-> FALSE]
  /\ waiting = [g \in Guards |-> FALSE]
  /\ count = 0
  /\ loaded = [t \in Threads |-> -1]
  /\ done = 0

----------------------------------------------------------------------------
Demand(clause, P) == clause \in Contract => P

Holds(t) == \E g \in Guards : owner[g] = t /\ m_locked[g]

(* The thread runs client code: it is neither blocked nor inside ++count. *)
Free(t) ==
  /\ \A g \in Guards : owner[g] = t => ~waiting[g]
  /\ loaded[t] = -1

(* Fault: CASLock::lock() tests and sets once instead of looping. *)
LockWordNoLoop(t, m) == m_mutex' = -1 /\ cur_writer' = t

(* Fault: a reader does not look for a writer. *)
LockWordReadersPass(t, m) ==
  IF m = "R"
  THEN m_mutex' = 1 /\ UNCHANGED cur_writer
  ELSE m_mutex = 0 /\ m_mutex' = -1 /\ cur_writer' = t

(* pthread_mutex_lock, pthread_spin_lock, CASLock::lock, pthread_rwlock_rdlock
   and _wrlock, by thread t: taken, or EDEADLK that nobody looks at. *)
LockWord(t, m) ==
  IF Kind = "RWMutex" /\ cur_writer = t
  THEN UNCHANGED <<m_mutex, cur_writer>>
  ELSE IF m = "R"
  THEN m_mutex >= 0 /\ m_mutex' = m_mutex + 1 /\ UNCHANGED cur_writer
  ELSE m_mutex = 0 /\ m_mutex' = -1 /\ cur_writer' = t

(* The matching unlock functions.  On a free lock they are undefined, which
   spoils the word for good. *)
UnlockWord ==
  /\ m_mutex' = CASE m_mutex > 0 -> m_mutex - 1
                  [] m_mutex = -1 -> 0
                  [] OTHER -> Spoilt
  /\ cur_writer' = IF m_mutex = -1 THEN Null ELSE cur_writer

(* A guard is constructed: on the lock, or as a copy of another guard. *)
NewGuard(t, g, m, from) ==
  /\ Free(t) /\ owner[g] = Null
  /\ from # Null => owner[from] # Null
  /\ Demand("no_copy", from = Null)
  /\ Demand("no_nest", from = Null => ~Holds(t))
  /\ owner' = [owner EXCEPT ![g] = t]
  /\ mode' = [mode EXCEPT ![g] = IF from = Null THEN m ELSE mode[from]]
  /\ waiting' = [waiting EXCEPT ![g] = from = Null]
  /\ m_locked' = [m_locked EXCEPT ![g] = from # Null /\ m_locked[from]]
  /\ UNCHANGED <<m_mutex, cur_writer, count, loaded, done>>

(* lock(): only a guard that gave its lock up takes it again. *)
Relock(t, g) ==
  /\ Free(t) /\ owner[g] = t
  /\ Demand("no_nest", m_locked[g] \/ ~Holds(t))
  /\ waiting' = [waiting EXCEPT ![g] = ~m_locked[g]]
  /\ UNCHANGED <<m_mutex, cur_writer, owner, mode, m_locked, count, loaded,
                 done>>

(* The lock is granted, and the flag is set. *)
Acquire(g) ==
  /\ waiting[g]
  /\ LockWord(owner[g], mode[g])
  /\ waiting' = [waiting EXCEPT ![g] = FALSE]
  /\ m_locked' = [m_locked EXCEPT ![g] = TRUE]
  /\ UNCHANGED <<owner, mode, count, loaded, done>>

(* Fault: unlock() forgets the mutex. *)
GuardUnlockFlagOnly(g) ==
  /\ m_locked' = [m_locked EXCEPT ![g] = FALSE]
  /\ UNCHANGED <<m_mutex, cur_writer>>

(* Fault: unlock() does not look at the flag. *)
GuardUnlockAlways(g) ==
  UnlockWord /\ m_locked' = [m_locked EXCEPT ![g] = FALSE]

(* unlock(): what the flag says is held is given back, once. *)
GuardUnlock(g) ==
  IF m_locked[g]
  THEN UnlockWord /\ m_locked' = [m_locked EXCEPT ![g] = FALSE]
  ELSE UNCHANGED <<m_mutex, cur_writer, m_locked>>

Unlock(t, g) ==
  /\ Free(t) /\ owner[g] = t
  /\ GuardUnlock(g)
  /\ UNCHANGED <<owner, mode, waiting, count, loaded, done>>

(* The destructor is an unlock(). *)
Destroy(t, g) ==
  /\ Free(t) /\ owner[g] = t
  /\ GuardUnlock(g)
  /\ owner' = [owner EXCEPT ![g] = Null]
  /\ UNCHANGED <<mode, waiting, count, loaded, done>>

(* ++count under a lock that excludes everyone: a load ... *)
Load(t) ==
  /\ Free(t) /\ done < MaxCount
  /\ \E g \in Guards : owner[g] = t /\ m_locked[g] /\ mode[g] = "W"
  /\ loaded' = [loaded EXCEPT ![t] = count]
  /\ UNCHANGED <<m_mutex, cur_writer, owner, mode, m_locked, waiting, count,
                 done>>

(* ... and a store. *)
Store(t) ==
  /\ loaded[t] # -1 /\ done < MaxCount
  /\ count' = loaded[t] + 1
  /\ loaded' = [loaded EXCEPT ![t] = -1]
  /\ done' = done + 1
  /\ UNCHANGED <<m_mutex, cur_writer, owner, mode, m_locked, waiting>>

Next ==
  \/ \E t \in Threads, g \in Guards, m \in Modes, from \in Guards \cup {Null} :
       NewGuard(t, g, m, from)
  \/ \E t \in Threads, g \in Guards :
       Relock(t, g) \/ Unlock(t, g) \/ Destroy(t, g)
  \/ \E g \in Guards : Acquire(g)
  \/ \E t \in Threads : Load(t) \/ Store(t)

Spec == Init /\ [][Next]_vars

----------------------------------------------------------------------------
(* Properties.                                                             *)

LockedGuards(m) == {g \in Guards : m_locked[g] /\ mode[g] = m}

(* m_locked is the truth: the lock word is what the flags of all guards add
   up to, so that every lock() is matched by one unlock(), early or in the
   destructor, and no free lock is unlocked. *)
FlagsMatchLock ==
  m_mutex = IF LockedGuards("W") # {} THEN -1
            ELSE Cardinality(LockedGuards("R"))

(* A thread with a locked write guard is alone; readers only meet readers. *)
MutualExclusion ==
  \A g, h \in Guards :
    /\ m_locked[g] /\ m_locked[h] /\ owner[g] # owner[h]
    => mode[g] = "R" /\ mode[h] = "R"

(* The test's counter: no increment under the lock is lost. *)
NoLostUpdate == count = done
=============================================================================
