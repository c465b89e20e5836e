------------------------------- MODULE Thread -------------------------------
(***************************************************************************)
(* Thread and Semaphore of sylar/thread.h and sylar/thread.cc.             *)
(*                                                                         *)
(* The constructor hands a raw pointer to itself to the new OS thread and  *)
(* waits on m_semaphore until run() has taken what it needs from the       *)
(* object.  After that the two only share the object through t_thread, and *)
(* join() and the destructor decide who reaps the OS thread.  The child of *)
(* object o is written o too; Clients are threads this class did not       *)
(* create.  An object is constructed once.                                 *)
(***************************************************************************)
EXTENDS Integers, FiniteSets

CONSTANTS
  Objs,       \* Thread objects, and the OS threads they create
  Clients,    \* other OS threads, main() among them
  Names,      \* thread names a caller passes; "" is the empty one
  Contract    \* what callers and the environment respect

Clauses ==
  { "no_signal",   \* sem_wait is not interrupted (EINTR)
    "no_throw",    \* a callback lets no exception out
    "outlives",    \* a callback renames its thread while the object lives
    "quiet_name",  \* no SetName in a thread while someone copies its name
    "one_joiner",  \* join() by one thread at a time, and not in a circle
    "unused" }     \* ~Thread when no call on the object is under way

ASSUME ThreadAssumption ==
  /\ Objs \cap Clients = {} /\ "none" \notin Objs
  /\ "" \notin Names
  /\ Contract \subseteq Clauses

Callers == Objs \cup Clients
ThreadNames == Names \cup {"UNKNOW"}

VARIABLES
  obj,            \* "none", "ctor" (being constructed), "live" or "dead"
  m_thread,       \* the handle is set (join() clears it)
  m_id,           \* the child's thread id has been stored
  m_cb,           \* who has the callback: "object" or "child"
  m_name,         \* the object's name
  m_semaphore,    \* the semaphore's count
  child,          \* how far run() has come
  t_thread_name,  \* thread_local name, of children and of clients
  os,             \* the OS thread: "none", "joinable", "joined", "detached"
  call,           \* the call a thread is blocked in
  on,             \* and the object it is on
  bad             \* "no", or what went wrong first

vars == <<obj, m_thread, m_id, m_cb, m_name, m_semaphore, child,
          t_thread_name, os, call, on, bad>>

TypeOK ==
  /\ obj \in [Objs -> {"none", "ctor", "live", "dead"}]
  /\ m_thread \in [Objs -> BOOLEAN]
  /\ m_id \in [Objs -> BOOLEAN]
  /\ m_cb \in [Objs -> {"object", "child"}]
  /\ m_name \in [Objs -> ThreadNames]
  /\ m_semaphore \in [Objs -> {0, 1}]
  /\ child \in [Objs -> {"none", "entry", "init", "callback", "returned"}]
  /\ t_thread_name \in [Callers -> ThreadNames]
  /\ os \in [Objs -> {"none", "joinable", "joined", "detached"}]
  /\ call \in [Callers -> {"none", "ctor", "name", "join", "joined"}]
  /\ on \in [Callers -> Objs \cup {"none"}]
  /\ bad \in {"no", "freed thread", "torn name", "stale handle", "join error",
              "terminate"}

Init ==
  /\ obj = [o \in Objs |-> "none"]
  /\ m_thread = [o \in Objs |-> FALSE]
  /\ m_id = [o \in Objs |-> FALSE]
  /\ m_cb = [o \in Objs |-> "object"]
  /\ m_name = [o \in Objs |-> "UNKNOW"]
  /\ m_semaphore = [o \in Objs |-> 0]
  /\ child = [o \in Objs |-> "none"]
  /\ t_thread_name = [c \in Callers |-> "UNKNOW"]
  /\ os = [o \in Objs |-> "none"]
  /\ call = [c \in Callers |-> "none"]
  /\ on = [c \in Callers |-> "none"]
  /\ bad = "no"

----------------------------------------------------------------------------
Demand(clause, P) == clause \in Contract => P

(* Client code runs in thread c. *)
InClient(c) ==
  /\ bad = "no" /\ call[c] = "none"
  /\ c \in Objs => child[c] = "callback"

Begin(c, what, o) ==
  call' = [call EXCEPT ![c] = what] /\ on' = [on EXCEPT ![c] = o]

End(c) == Begin(c, "none", "none")

(* Thread c waits, through a chain of joins, for thread d. *)
WaitsFor(c, d) ==
  \A S \in SUBSET Callers :
    (c \in S /\ \A e \in S : call[e] = "join" => on[e] \in S) => d \in S

(* Fault: the constructor does not wait for the child. *)
ConstructNoWait(c, o, name, fails) ==
  /\ InClient(c) /\ obj[o] = "none"
  /\ m_name' = [m_name EXCEPT ![o] = IF name = "" THEN "UNKNOW" ELSE name]
  /\ IF fails
     THEN /\ obj' = [obj EXCEPT ![o] = "dead"]
          /\ UNCHANGED <<m_thread, child, os>>
     ELSE /\ obj' = [obj EXCEPT ![o] = "live"]
          /\ m_thread' = [m_thread EXCEPT ![o] = TRUE]
          /\ child' = [child EXCEPT ![o] = "entry"]
          /\ os' = [os EXCEPT ![o] = "joinable"]
  /\ UNCHANGED <<m_id, m_cb, m_semaphore, t_thread_name, call, on, bad>>

(* Thread::Thread(cb, name): pthread_create, which may fail and throw, then
   m_semaphore.wait(). *)
Construct(c, o, name, fails) ==
  /\ InClient(c) /\ obj[o] = "none"
  /\ m_name' = [m_name EXCEPT ![o] = IF name = "" THEN "UNKNOW" ELSE name]
  /\ IF fails
     THEN /\ obj' = [obj EXCEPT ![o] = "dead"]
          /\ UNCHANGED <<m_thread, child, os, call, on>>
     ELSE /\ obj' = [obj EXCEPT ![o] = "ctor"]
          /\ m_thread' = [m_thread EXCEPT ![o] = TRUE]
          /\ child' = [child EXCEPT ![o] = "entry"]
          /\ os' = [os EXCEPT ![o] = "joinable"]
          /\ Begin(c, "ctor", o)
  /\ UNCHANGED <<m_id, m_cb, m_semaphore, t_thread_name, bad>>

(* Semaphore::wait() in the constructor: it returns with the child's post, or
   throws when a signal interrupts it.  The exception destroys the members of
   the object, not through ~Thread. *)
ConstructorLeaves(c, interrupted) ==
  LET o == on[c] IN
  /\ bad = "no" /\ call[c] = "ctor"
  /\ Demand("no_signal", ~interrupted)
  /\ IF interrupted
     THEN obj' = [obj EXCEPT ![o] = "dead"] /\ UNCHANGED m_semaphore
     ELSE /\ m_semaphore[o] > 0
          /\ m_semaphore' = [m_semaphore EXCEPT ![o] = @ - 1]
          /\ obj' = [obj EXCEPT ![o] = "live"]
  /\ End(c)
  /\ UNCHANGED <<m_thread, m_id, m_cb, m_name, child, t_thread_name, os, bad>>

(* Fault: run() forgets t_thread_name. *)
RunInitUnnamed(o) ==
  /\ bad = "no" /\ child[o] = "entry"
  /\ child' = [child EXCEPT ![o] = "init"]
  /\ m_id' = [m_id EXCEPT ![o] = TRUE]
  /\ m_cb' = [m_cb EXCEPT ![o] = "child"]
  /\ UNCHANGED <<obj, m_thread, m_name, m_semaphore, t_thread_name, os, call,
                 on, bad>>

(* Thread::run(): everything the child takes from the object. *)
RunInit(o) ==
  /\ bad = "no" /\ child[o] = "entry"
  /\ child' = [child EXCEPT ![o] = "init"]
  /\ IF obj[o] = "dead"
     THEN bad' = "freed thread" /\ UNCHANGED <<t_thread_name, m_id, m_cb>>
     ELSE /\ t_thread_name' = [t_thread_name EXCEPT ![o] = m_name[o]]
          /\ m_id' = [m_id EXCEPT ![o] = TRUE]
          /\ m_cb' = [m_cb EXCEPT ![o] = "child"]
          /\ UNCHANGED bad
  /\ UNCHANGED <<obj, m_thread, m_name, m_semaphore, os, call, on>>

(* Fault: run() does not notify. *)
RunNoNotify(o) ==
  /\ bad = "no" /\ child[o] = "init"
  /\ child' = [child EXCEPT ![o] = "callback"]
  /\ UNCHANGED <<obj, m_thread, m_id, m_cb, m_name, m_semaphore,
                 t_thread_name, os, call, on, bad>>

(* Thread::run(): m_semaphore.notify(), the last use of the raw pointer, and
   cb() starts. *)
RunNotify(o) ==
  /\ bad = "no" /\ child[o] = "init"
  /\ child' = [child EXCEPT ![o] = "callback"]
  /\ IF obj[o] = "dead"
     THEN bad' = "freed thread" /\ UNCHANGED m_semaphore
     ELSE m_semaphore' = [m_semaphore EXCEPT ![o] = @ + 1] /\ UNCHANGED bad
  /\ UNCHANGED <<obj, m_thread, m_id, m_cb, m_name, t_thread_name, os, call,
                 on>>

(* Thread::run(): cb() returns, or lets an exception out of the thread. *)
CallbackEnds(o, throws) ==
  /\ InClient(o)
  /\ Demand("no_throw", ~throws)
  /\ bad' = IF throws THEN "terminate" ELSE bad
  /\ child' = [child EXCEPT ![o] = "returned"]
  /\ UNCHANGED <<obj, m_thread, m_id, m_cb, m_name, m_semaphore,
                 t_thread_name, os, call, on>>

(* getName() starts to copy m_name, which no lock protects ... *)
GetName(c, o) ==
  /\ InClient(c) /\ obj[o] = "live"
  /\ Begin(c, "name", o)
  /\ UNCHANGED <<obj, m_thread, m_id, m_cb, m_name, m_semaphore, child,
                 t_thread_name, os, bad>>

(* ... and has copied it. *)
GotName(c) ==
  /\ bad = "no" /\ call[c] = "name"
  /\ bad' = IF obj[on[c]] = "dead" THEN "freed thread" ELSE bad
  /\ End(c)
  /\ UNCHANGED <<obj, m_thread, m_id, m_cb, m_name, m_semaphore, child,
                 t_thread_name, os>>

Copied(o) == \E d \in Callers : call[d] = "name" /\ on[d] = o

(* Thread::SetName(name): t_thread is the raw pointer run() stored; a client
   has none. *)
SetName(c, name) ==
  /\ InClient(c)
  /\ c \in Objs => Demand("outlives", obj[c] # "dead")
  /\ c \in Objs => Demand("quiet_name", ~Copied(c))
  /\ t_thread_name' = [t_thread_name EXCEPT ![c] = name]
  /\ m_name' = [o \in Objs |-> IF o = c /\ obj[o] # "dead" THEN name
                               ELSE m_name[o]]
  /\ bad' = IF c \in Objs /\ obj[c] = "dead" THEN "freed thread"
            ELSE IF c \in Objs /\ Copied(c) THEN "torn name" ELSE bad
  /\ UNCHANGED <<obj, m_thread, m_id, m_cb, m_semaphore, child, os, call, on>>

(* Thread::join(), up to pthread_join: a cleared handle is nothing to wait
   for; joining oneself, each other, or a thread that someone joins already
   is an error that throws; a handle that was joined but not cleared yet is
   stale. *)
Join(c, o) ==
  /\ InClient(c) /\ obj[o] = "live" /\ m_thread[o]
  /\ Demand("one_joiner", ~WaitsFor(o, c) /\ \A d \in Callers :
                            call[d] \in {"join", "joined"} => on[d] # o)
  /\ IF os[o] = "joined"
     THEN bad' = "stale handle" /\ UNCHANGED <<call, on>>
     ELSE IF c = o \/ (\E d \in Callers : call[d] = "join" /\ on[d] = o)
             \/ (call[o] = "join" /\ on[o] = c)
     THEN bad' = "join error" /\ UNCHANGED <<call, on>>
     ELSE Begin(c, "join", o) /\ UNCHANGED bad
  /\ UNCHANGED <<obj, m_thread, m_id, m_cb, m_name, m_semaphore, child,
                 t_thread_name, os>>

(* Fault: join() is a detach. *)
JoinedAtOnce(c) ==
  LET o == on[c] IN
  /\ bad = "no" /\ call[c] = "join"
  /\ os' = [os EXCEPT ![o] = "joined"]
  /\ call' = [call EXCEPT ![c] = "joined"]
  /\ UNCHANGED <<obj, m_thread, m_id, m_cb, m_name, m_semaphore, child,
                 t_thread_name, on, bad>>

(* pthread_join returns when the child has ended ... *)
Joined(c) ==
  LET o == on[c] IN
  /\ bad = "no" /\ call[c] = "join" /\ child[o] = "returned"
  /\ os' = [os EXCEPT ![o] = "joined"]
  /\ call' = [call EXCEPT ![c] = "joined"]
  /\ UNCHANGED <<obj, m_thread, m_id, m_cb, m_name, m_semaphore, child,
                 t_thread_name, on, bad>>

(* Fault: join() keeps the handle. *)
JoinKeepsHandle(c) ==
  /\ bad = "no" /\ call[c] = "joined"
  /\ End(c)
  /\ UNCHANGED <<obj, m_thread, m_id, m_cb, m_name, m_semaphore, child,
                 t_thread_name, os, bad>>

(* ... and the handle is cleared. *)
JoinReturns(c) ==
  LET o == on[c] IN
  /\ bad = "no" /\ call[c] = "joined"
  /\ IF obj[o] = "dead"
     THEN bad' = "freed thread" /\ UNCHANGED m_thread
     ELSE m_thread' = [m_thread EXCEPT ![o] = FALSE] /\ UNCHANGED bad
  /\ End(c)
  /\ UNCHANGED <<obj, m_id, m_cb, m_name, m_semaphore, child, t_thread_name,
                 os>>

(* Fault: the destructor forgets pthread_detach. *)
DestroyNoDetach(c, o) ==
  /\ InClient(c) /\ obj[o] = "live"
  /\ Demand("unused", \A d \in Callers : on[d] # o)
  /\ obj' = [obj EXCEPT ![o] = "dead"]
  /\ UNCHANGED <<m_thread, m_id, m_cb, m_name, m_semaphore, child,
                 t_thread_name, os, call, on, bad>>

(* Thread::~Thread(): a thread that was not joined is detached. *)
Destroy(c, o) ==
  /\ InClient(c) /\ obj[o] = "live"
  /\ Demand("unused", \A d \in Callers : on[d] # o)
  /\ obj' = [obj EXCEPT ![o] = "dead"]
  /\ bad' = IF m_thread[o] /\ os[o] = "joined" THEN "stale handle" ELSE bad
  /\ os' = IF m_thread[o] THEN [os EXCEPT ![o] = "detached"] ELSE os
  /\ UNCHANGED <<m_thread, m_id, m_cb, m_name, m_semaphore, child,
                 t_thread_name, call, on>>

----------------------------------------------------------------------------
ClientStep(c) ==
  \/ \E o \in Objs, name \in Names \cup {""}, fails \in BOOLEAN :
       Construct(c, o, name, fails)
  \/ \E name \in Names : SetName(c, name)
  \/ \E o \in Objs : GetName(c, o) \/ Join(c, o) \/ Destroy(c, o)

(* What a blocked call does when it can go on. *)
CallStep(c) ==
  \/ \E interrupted \in BOOLEAN : ConstructorLeaves(c, interrupted)
  \/ GotName(c)
  \/ Joined(c)
  \/ JoinReturns(c)

RunStep(o) == RunInit(o) \/ RunNotify(o)

Next ==
  \/ \E c \in Callers : ClientStep(c) \/ CallStep(c)
  \/ \E o \in Objs : RunStep(o)
  \/ \E o \in Objs, throws \in BOOLEAN : CallbackEnds(o, throws)

Spec == Init /\ [][Next]_vars

(* The scheduler runs every thread that can run.  join() also needs the
   callback to end, which is the caller's business: SF of CallbackEnds, which
   is not enabled while the callback is inside a call. *)
FairSpec ==
  /\ Spec
  /\ \A c \in Callers : WF_vars(CallStep(c))
  /\ \A o \in Objs : WF_vars(RunStep(o))
  /\ \A o \in Objs : SF_vars(\E throws \in BOOLEAN : CallbackEnds(o, throws))

----------------------------------------------------------------------------
(* Properties.                                                             *)

(* No destroyed Thread is touched, no name is written while it is copied, no
   OS thread is joined or detached twice, and join() does not throw: the
   contract is all the class needs. *)
NothingBad == bad = "no"

(* "The constructor leaves only after the created thread is running"
   (thread.cc:41): the child has its id, its name and its callback, and needs
   the object no more. *)
LeavesAfterStart ==
  \A o \in Objs : os[o] # "none" /\ obj[o] # "ctor" =>
    m_id[o] /\ m_cb[o] = "child" /\ child[o] \in {"callback", "returned"}

(* A cleared handle means the callback has returned and the OS thread was
   reaped, so that a second join() may return at once. *)
ClearedIsDone ==
  \A o \in Objs : os[o] # "none" /\ ~m_thread[o] =>
    child[o] = "returned" /\ os[o] = "joined"

(* No OS thread outlives its object unreaped: it was joined or detached. *)
NoZombie == \A o \in Objs : obj[o] = "dead" => os[o] # "joinable"

(* The name a thread logs with is its Thread object's name. *)
NamesAgree ==
  \A o \in Objs : obj[o] = "live" => t_thread_name[o] = m_name[o]

(* Constructors, getName() and joins come back: the handshake loses no wakeup and no two
   threads wait for each other. *)
CallsReturn == \A c \in Callers : call[c] # "none" ~> call[c] = "none"
=============================================================================
