# A verification project for sylar

This directory holds TLA+ models of the sylar C++ server library (`src/sylar`):
its fibers, threads and locks, its configuration system and its loggers. The
models are checked by TLC on small instances. What they promise, every safety
property and the refinement, is also proved with TLAPS, for any number of
threads, objects and calls, any documents and patterns of any length.

The library checks little of what it needs from its callers, so most modules
have a set `Clauses` of caller obligations and a constant `Contract`, a subset
of it. The passing runs assume all clauses. A run that drops one shows what
goes wrong without it, and the tables below list, for every clause, which
properties fail when it is dropped. So the contract is both sufficient (the
runs and the proofs) and necessary (the tables). Where a hazard's worst case is
what a clause excludes (two threads entering one fiber, two concurrent sets, a list
cleared under a reader), the run with all clauses does not meet it: the table is
what shows it.

## Inventory

| Component | State | Operations | Interacts through |
|---|---|---|---|
| Fiber (`fiber.h`, `fiber.cc`) | `m_state`, `m_ctx`, stack; thread-local `t_fiber`, `t_threadFiber`; `s_fiber_count` | constructors, `reset`, `swapIn`, `swapOut`, `YieldToReady`, `YieldToHold`, `GetThis`, `MainFunc`, destructor | `swapcontext`; callbacks; fiber id in log lines; stack size from Config |
| Scoped locks (`thread.h`) | lock word, `m_locked` of each guard | construct, `lock`, `unlock`, destruct | used by Config, ConfigVar, Logger, appenders |
| Thread, Semaphore (`thread.h`, `thread.cc`) | `m_thread`, `m_id`, `m_cb`, `m_name`, semaphore count; thread-local `t_thread`, `t_thread_name` | constructor, `run`, `join`, destructor, `getName`, `SetName` | raw pointer handed to the child; the thread name in log lines |
| ConfigVar (`config.h`) | `m_val`, `m_cbs`; static `s_fun_id` | `setValue`, `fromString`, `addListener`, `delListener`, `clearListener`, reads | listeners called under its read lock |
| Config (`config.h`, `config.cc`) | map from names to variables | `Lookup`, `LookupBase`, `LoadFromYaml`, `Visit` | `fromString` of variables; callbacks under its read lock |
| Logger, appenders, manager (`log.h`, `log.cc`) | level, appenders, formatter, root; appender's level and formatter; map of loggers | `log`, `addAppender`, `delAppender`, `clearAppender`, `setFormatter`, `setLevel`, `getLogger`, `toYamlString` | spinlocks: manager, logger, root, appender |
| FileLogAppender | file name, stream, `m_lastTime` | `log`, `reopen` | the file system, the clock |
| LogIniter | none of its own | listener of the `logs` variable | ConfigVar calls it; it rebuilds loggers |
| LogFormatter | pattern, items, `m_error` | `init`, `format` | used under the appender's lock |
| LexicalCast, LogLevel | none | conversions to and from text and YAML | `fromString`, `toString` |
| Singleton, util, macro | none of interest | | |

What is hard here: fibers move between threads with no lock and no scheduler;
the constructor of `Thread` shares a half-built object with a new thread;
`setValue` notifies under one lock and assigns under another; listeners and
visitors run under locks; loggers are reconfigured while others log; a log file
may be deleted while it is written; text is parsed by hand with index
arithmetic; and most misuse is caught, if at all, by an assertion that ends the
process.
`PROJECT.json` lists these hazards line by line with the properties that cover
them.

## Modules

| Module | Models | Checked by |
|---|---|---|
| `Coroutine` | abstract specification of fibers | refined by `Fiber` |
| `Fiber` | the fiber runtime | run `fiber`; proofs |
| `FiberProofs`, `ScopedLockProofs`, `ThreadProofs`, `ConfigVarProofs`, `ConfigProofs`, `LoggerProofs`, `LogConfigProofs`, `FileAppenderProofs` | theorems about the module each is named after; `FiberProofs` also has the refinement of `Coroutine`, `ConfigProofs` the conversions, `LoggerProofs` the parser of `LogFormatter` | TLAPS |
| `ScopedLock` | guards and locks, with the counter of `tests/test_thread.cc` | run `scoped_lock`; proofs |
| `Thread` | `Thread` and `Semaphore` | run `thread`; proofs |
| `ConfigVar` | one type's variables with their listeners | run `config_var`; proofs |
| `Config` | the registry and the loader | run `config`; proofs |
| `LexicalCast` | conversions between values and YAML text | run `config`; proofs |
| `ConfigTree` | how the loader takes a YAML tree apart | run `config` |
| `ConfigCasts` | `Config` with `LexicalCast` as its conversions | run `config`; proofs |
| `Logger` | loggers, appenders and the root | run `logger`; proofs |
| `LogConfig` | the `logs` variable, its listener and the loggers it rebuilds | run `log_config`; proofs |
| `FileAppender` | `FileLogAppender` with a clock and a file system | run `file_appender`; proofs |
| `LogFormatter` | the pattern parser | run `log_formatter`; proofs |
| `MC*` | instances for TLC | |

`LogConfig` composes three components: `setValue` as in `ConfigVar`, the loggers
and `log` as in `Logger` with less detail, and the listener between them.
`ConfigCasts` composes `Config` with `LexicalCast`; `MCConfig` adds `ConfigTree`,
which makes the documents of the run.

A definition that begins with the comment "Fault:" is a plausible mistake in
the code. It stands before the definition it distorts and is used by nothing;
each property is tested by substituting one of them and seeing it fail.

### Fiber

A worker fiber is a member of `Fibers`; the main fiber of thread `t` is `t`
itself; both names stand for stacks too. `running[t]` is the stack on which `t`
executes, `pc[s]` where the code on stack `s` stands, `m_ctx[o]` the stack whose
suspended execution the `ucontext_t` of `o` holds. A saved context is good for
one resumption: `Switch` (swapcontext) saves the running stack, resumes the
other and clears every context that described it. Switching to a context that
holds nothing, touching a freed fiber, and every failing assertion set
`aborted`.

`swapIn` is two steps (`SwapInCheck`, `SwapInSwitch`) because other threads can
act between the assertion and the switch; a yield is two (`YieldState`,
`YieldSwitch`) because the state is published before the context is saved;
`MainFunc` is four, since `cur.reset()` may destroy the fiber on whose stack it
runs. `held[f]` says that a `shared_ptr` outside the fiber's stack exists,
`SelfRef(f)` that the one in `MainFunc` does.

| Clause dropped | Properties that fail |
|---|---|
| `main_first` | NoAbort, CurrentIsRunning |
| `from_main` | NoAbort, ContinuationKept, CurrentIsRunning |
| `unfinished` | NoAbort |
| `exclusive` | NoAbort, ContinuationKept, CurrentIsRunning |
| `worker_yields` | NoAbort |
| `reset_done` | NoAbort |
| `finish_first` | NoLeak |

### ScopedLock

The lock is a word: 0 free, -1 exclusive, n readers, and `Spoilt` for good once a
guard unlocks a lock that is free; `TypeOK` says that none ever does. `Kind` chooses between the
exclusive locks, which act alike, and `RWMutex`; the instance uses `RWMutex`,
whose write side covers the others. The wrappers ignore error codes, so a
write lock taken twice "succeeds" (`LockWord`). Dropping either clause
(`no_copy`, `no_nest`) breaks all four properties, and without `no_nest` a
thread may also wait for itself. `NullMutex` and
`NullRWMutex` do nothing; their guard typedefs (`ScopedLockImpl<Mutex>`, and
`ReadScopedLockImpl<NullMutex>`, which has no `rdlock`) could not be
instantiated with them.

### Thread

The child of object `o` is `o`. `Construct` creates it and blocks;
`ConstructorLeaves` returns or, when a signal interrupts `sem_wait`, throws;
`RunInit` and `RunNotify` are the child's use of the raw pointer; `join` is
three steps, so that two joiners can meet in the middle. `getName` is two, since
it copies a string that `SetName` may be writing. `WaitsFor` says that a
chain of joins leads from one thread to another; glibc notices only a chain of
two.

| Clause dropped | Properties that fail |
|---|---|
| `no_signal` | NothingBad, LeavesAfterStart, NoZombie |
| `no_throw`, `outlives`, `quiet_name`, `one_joiner`, `unused` | NothingBad |

### ConfigVar

`setValue` is a read lock and a comparison, one step per listener, the release
of the lock, and the assignment under the write lock. `++s_fun_id` is a load
and a store, and its later uses may read memory or a register. A listener keeps
what it was told last (`view`), as the logs listener does in the loggers.

| Clause dropped | Properties that fail |
|---|---|
| `serial_set`, `quiet_add`, `no_throw` | ViewsAgree |
| `serial_add` | KeyOwned |
| `no_reentry` | CallsReturn |

### Config and LexicalCast

A document is the sequence of names and texts that `ListAllMember` makes of a
YAML tree; `ConfigTree` has that walk, and the documents of the run are made with
it. A name is the sequence of its parts. A text is a scalar as it stands, or the
dump of any other node. Lowercasing a key changes nothing after the check of its
characters. `Parse(type, text)` and `Text(type, value)` stand for the two
`LexicalCast`s of a type, and a `Parse` may throw, as may a listener of the variable
that is set (`Assign`); `fromString` catches both. `todo` is the set of positions of
the document the loop has still to visit, the least first. `Visit` holds the read
lock from the first callback to the last.

`LexicalCast` has one pair of operators per template, with the type of the
elements as a parameter (numbers or texts; containers in containers would repeat
the same steps one level down and are left out); vector and list,
set and unordered_set, and map and unordered_map differ in nothing a value
shows. Texts are opaque and yaml-cpp is a parameter: `Load` makes a node of a text or
throws, `Emit` writes a node. `LexicalCastAssumption` says the little that is assumed
of them: the empty text is null, null and the texts of numbers come back as they
were. It does not say that other texts do, and they do not: `~` and `null` are read
as null, `x # y` loses its comment, quotes are dropped, `[x` throws (`MCLoad`).

`ConfigCasts` says which cast each type of `Config` uses (`CastOf`). `Plain` says of
a value that YAML gives each of its elements back (`Stable`) and the node of the
container (`RoundTrips`). `CastAssumption` says that `Parse` and `Text` are the casts
and that the values not in `Fragile` are plain; the clause `plain_text`, that no call
and no document makes a fragile value. TLC evaluates it on the run's types and texts.
The instance has variables of types `map<string, int>`, `set<string>` and `int`, and
every text above among the elements of sets.

| Clause dropped | Properties that fail |
|---|---|
| `one_type` | HandleIsRegistered, LoadTakesEffect, TextReloads |
| `serial_load`, `no_throw` | LoadTakesEffect |
| `visit_reads` | CallsReturn |
| `plain_text` | TextReloads |

### Logger

The spinlock of a logger is state, because `log` holds it over all appenders
and over the root's part, and so is the manager's, because `toYamlString` holds it
while it takes the lock of each logger and, under that, of its appenders (`Dump`,
`DumpLogger`, `DumpNext`, `DumpReturn`). So the order of locks is manager, logger,
root, appender, and `CallsReturn` says that no circle closes and none is kept. What
happens under an appender's lock takes no further lock and is one step;
`ScopedLock` is the reason that it may be. What `toYamlString` writes is in
`LogConfig`. `addAppender` is two critical sections of the appender and two steps.
Levels are read and written without a lock, and `clearAppender` takes none.

| Clause dropped | Properties that fail |
|---|---|
| `quiet_clear` | NothingBad, WrittenOnce |
| `quiet_level` | WrittenOnce |
| `one_logger` | WrittenOnce, FormattersFollow |
| `fresh` | FormattersFollow |
| `own_first` | OwnFormatterKept |
| `a_formatter` | NothingBad, FormattersFollow |

The logs listener (`LogIniter`) calls `clearAppender` and `setLevel` on loggers
in use, so it respects neither `quiet_clear` nor `quiet_level` unless nobody
logs during a load.

### LogConfig

A load is `SetValue` (the document is converted, and compared with the value),
then the listener under the read lock, then `Assign` under the write lock. The
listener takes a step wherever another thread can see the difference: it finds
the logger and sets its level, sets its formatter, clears its appenders, adds
them one by one; then it silences the loggers that are gone (level 100, no
appenders). Names are numbers because the loop follows the order of `std::set`.
`Parse`, `Dump` and the `toYamlString` functions are operators on documents; an
appender's level is written by `Dump` but never read by `Parse`, so it is always
UNKNOW. `None` is a key that is not there, `Empty` an empty text that is, and `Bad` a
node that is not a text, for which `as<std::string>` throws: `Converts` says that the
conversion reads no such node, and a document of which it does changes nothing
(`fromString` catches the exception). The documents are `bin/conf/log.yml`,
`bin/conf/log2.yml` and others that include entries and appenders that are passed
over, a name that occurs twice (the first wins), empty texts, formatters that do not
parse, a root without appenders, and a document that does not convert.
`Texts` are the formatters and file names a document may hold. The appenders a
definition keeps are those at the usable positions, in their order; `Nth` gives
the k-th of a set of positions or names.

| Clause dropped | Properties that fail |
|---|---|
| `all_change` | NothingBad |
| `quiet_clear` | NothingBad |
| `serial_load` | Applied, DumpReloads, OnlyBareLose |

`NothingBad` is no property of the passing run: the first two clauses say no more
than that its two cases do not arise, so it is checked where `all_change` is dropped,
and fails there.

A definition without a valid formatter keeps the one an earlier document gave the
logger (`log2.yml` after `log.yml`): `Applied` says that the new appenders have that
one. Events are lost during and after loads: with the shipped files, a DEBUG event of
`system` that comes between `clearAppender` and the first `addAppender` goes to the
root, whose level is `info`. `OnlyBareLose` says which events those are: the logger
has a reason to be bare (`MayBeBare`: it is being rebuilt, or a value gives it no
appenders), and it is the root, or the root's level refuses the event. A logger that
is bare for another reason, an event that a rebuilding leaves behind, or a logger
without its root would violate it. `DumpReloads` is about the loggers the value
names: a removed logger is dumped with level `UNKNOW`, and a load of that dump
would open it again.

### FileAppender

`log` reads the clock, compares it with `m_lastTime`, and if they differ calls
`reopen` (one critical section), stores the second outside the lock, and writes
under it. A file is a number, a new one each time the path gets a file; the
stream is the file it has open and whether it is good. The environment lets time
pass, deletes and replaces the file, and makes the path openable or not.

| Clause dropped | Properties that fail |
|---|---|
| `steady_clock` | NotOrphaned |
| `no_write_error` | Recovers |

A stream that failed in a write is never closed (`log.cc:622` closes a good one
only), so every later `open` fails. `reopen` returns `!m_filestream` (`log.cc:627`),
true for failure, where `log.h:253` says true for success; nothing in the
repository uses the result, so no run is about it.

### LogFormatter

`init` is a state machine over the position `i`: a literal character, an escape,
an item, or an unclosed brace; then the rest of the text; then the items. The
inner loop is the operator `Scan`. A branch for `fmt_status == 2` is dead: nothing
sets it. The reference, `Meaning`, says what a pattern means without the loop:
characters print themselves, `%%` prints `%`, and `%` with the letters behind it is
an item. It is a recursive function over the positions of the pattern, from the
last to the first (`MeaningAt`). `Respects` limits `ParsedAsMeant` to the patterns
of `PatternContract`; `AcceptedIsWhole` is about all patterns, but asks
of one with `%%` only that no error text is printed: whether both characters or one
are to be accounted for is where the comment at `log.cc:714` and the code disagree
(finding 3). The specification is
`ParserSpec`, and the phase of `init` is `stage`, because `LoggerProofs` extends
this module together with `Logger`.

| Clause dropped | Properties that fail |
|---|---|
| `no_escape` | ParsedAsMeant |
| `no_brace` | ParsedAsMeant |

With a brace the name that is looked up contains the braces (`str` is overwritten
at `log.cc:760`), so `%d{fmt}` is always an error text, and the pattern is refused.

## Runs, bounds and fairness

| Run | Instance | Shows |
|---|---|---|
| `fiber` | 2 threads, 3 fibers | safety, `SwapInReturns`, refinement of `Coroutine` |
| `scoped_lock` | 3 threads, 3 guards, 3 increments | exclusion, flags and lock agree, no deadlock |
| `thread` | 2 objects, 2 clients, 2 names | handshake, reaping, names, calls return |
| `config_var` | 2 threads, 2 variables, 3 values, 2 listeners, 4 calls | agreement of listeners, keys, calls return |
| `config` | 2 threads, 3 variables of 3 types, 3 documents, 3 calls | handles, effect of a load, round trips of text, calls return |
| `logger` | 2 threads, 2 loggers, 2 appenders, 2 levels, 5 calls | delivery, formatters, calls return |
| `log_config` | 2 threads, 3 loggers, 7 documents, 2 levels, 6 calls | loggers follow the value, which events are lost, dumps load |
| `file_appender` | 2 threads, 4 seconds, 3 files, 5 calls | no record to a deleted file, recovery |
| `log_formatter` | all patterns of up to 5 characters over 6, and those of the code | the items are what the pattern means |
| `config_retyped` | as `config`, without `one_type` | a handle is cut off from the registry |
| `log_config_repeated` | as `log_config`, without `all_change` | a null pointer in the listener |
| `formatter_escape` | as `log_formatter`, without `no_escape` | `%%` is not `%` |

The bounds. `fiber` and `thread` have none beyond the sets: fibers are reused
after destruction, and all interleavings of two threads over three fibers are
covered; a third fiber lets one be finished, one suspended and one running.
`MaxCount`, `MaxOps` and `MaxCalls` bound the calls of a run: in `config_var`
four calls are two registrations and two overlapping sets, in `config` two
loads with a set or a visit, in `logger` five calls make a logger, attach,
detach and reattach an appender with a change of format, or log twice during a
change or a dump. In `log_config` six calls are three loads, each over what the one
before left, with three events or new loggers among them. In `file_appender` four seconds, three files and
five calls let a file be deleted, replaced and deleted again, with calls that
overlap the change of a second. Five characters hold a text, an escape and an
item, or an item with a brace, in every order; the scan keeps nothing from one
item to the next but the text collected so far. Two threads suffice for every race listed as a hazard, since each is
between two calls; `scoped_lock` has three so that two readers meet a writer.

Deadlock is checked in `scoped_lock`. The other systems may stop: threads exit,
objects are used up, and the bounds on calls are reached. There, that no call
hangs is `CallsReturn` or `SwapInReturns`.

Fairness is weak and per thread: a thread inside the library keeps running.
Two assumptions go further and are the caller's: a fiber's callback eventually
yields or ends, and a thread's callback eventually returns, however often it
calls into the class meanwhile (strong fairness; `func2` of
`tests/test_thread.cc` never does, and its `join` never returns). The locks are
not fair, and a writer may starve among readers; the bound on calls hides that.

## What is proved

A theorem holds for every value of the constants that satisfies the module's
named assumption (`FiberAssumption`, `LockAssumption` and so on: the sets are
disjoint where names would clash, `Null` is in none, a bound is a number, documents
and patterns are sequences of entries and of characters) and,
where it says so, for callers that keep the contract (`Contract = Clauses`).
Each has the form `Spec => []P` with `P` a property of a run, or is an action
property or a refinement; three are about a conversion alone.

| Module | Theorems, with the property of the run | Needs |
|---|---|---|
| `FiberProofs` | `TypeCorrect` (TypeOK), `ContractSuffices` (NoAbort), `CountExact` (CountIsLive), `ContinuationsKept` (ContinuationKept), `CurrentIsExact` (CurrentIsRunning), `NothingLeaks` (NoLeak), `FiberImplementsCoroutine` (ImplementsCoroutine) | contract |
| `ScopedLockProofs` | `TypeCorrect` (TypeOK), `FlagsAreTrue` (FlagsMatchLock), `GuardsExclude` (MutualExclusion), `NothingLost` (NoLostUpdate) | contract |
| `ThreadProofs` | `TypeCorrect`, `NeverBad` (NothingBad), `ConstructorWaits` (LeavesAfterStart), `ClearedHandles` (ClearedIsDone), `AllReaped` (NoZombie), `OneName` (NamesAgree) | contract |
| `ConfigVarProofs` | `TypeCorrect` (TypeOK), `ViewsFollow` (ViewsAgree), `KeysFindOwners` (KeyOwned) | contract |
| `ConfigProofs` | `TypeCorrect` (TypeOK), `HandlesStay` (HandleIsRegistered), `LoadsTakeEffect` (LoadTakesEffect), `TextsReload` (TextReloads) | contract |
| | `VectorReloads`, `SetReloads`, `MapReloads` | YAML gives the node of the container back; for sets, its elements too |
| `LoggerProofs` | `TypeCorrect` (TypeOK), `NeverBad` (NothingBad), `AppendersFollow` (FormattersFollow), `OwnStays` (OwnFormatterKept), `EventsWrittenOnce` (WrittenOnce) | contract |
| | `AcceptedPrintsWhole` (AcceptedIsWhole of `LogFormatter`) | nothing |
| | `PatternsParse` (ParsedAsMeant of `LogFormatter`) | contract of `LogFormatter` |
| `LogConfigProofs` | `TypeCorrect`, `LoggersFollow` (Applied), `NoOtherEventLost` (OnlyBareLose), `DumpIsFaithful` (DumpReloads) | contract |
| `FileAppenderProofs` | `TypeCorrect` | nothing |
| | `RecordsReachThePath` (NotOrphaned) | `steady_clock` |
| | `ReopenRecovers` (Recovers, an action property) | `no_write_error` |

Hardly any of these invariants is inductive. Each module defines an `IInv` that
is, and proves that `Init` implies it, that every action preserves it (a lemma
per action) and that it implies the properties; TLC has checked every `IInv` on
the instance of the module's run.

- `Fiber`. `NoAbort` needs to know that the context `swapIn` switches to is
  there, which needs `ContinuationKept`, which needs to know where the code on
  every stack stands and who may be where. `ThreadInv` has the few shapes a thread
  can be in (outside the runtime, in its main fiber, about to enter a worker, or
  in one) with what each says of its pointers and contexts; `FiberInv` the same
  for a worker (absent, fresh, suspended, finished, or used by one thread); and
  `Apart` says that two threads are never at one fiber. Each action has a lemma
  that gives its effect under `IInv`, with the branches that the contract excludes
  gone, and a lemma that it preserves `IInv`. The refinement has one lemma per
  action that says to which step of `Coroutine` it maps, with the mapping
  `PhaseOf` and `running`.
- `ScopedLock`. That `unlock` gives back what the same guard took needs the
  exclusion itself: `GuardInv` says that a thread has at most one guard that holds
  the lock or waits for it, `WriterInv` that glibc's memory of the writer is right
  (or a `wrlock` that fails with EDEADLK would set the flag of a guard that holds
  nothing), `CountInv` that what a thread loaded for `++count` is still there.
- `Thread`. That `run` finds its object alive needs the constructor to be still
  inside, which is what the semaphore's count says (`ObjInv`); that a handle is
  not stale needs to know who is between `pthread_join` and the assignment that
  clears it (`CallInv`, `OneCaller`).
- `ConfigVar`. `ViewInv` says, of a `setValue` under way, which listeners have
  been told the new value: those up to the loop's key, and all once it is through,
  although no lock is held until the assignment. `EntryInv` and `RegInv` tie the
  maps to the keys the listeners hold, with `s_fun_id` ahead of all of them;
  `StageInv` and `Serial` say where calls stand and which the contract keeps apart.
- `Config`. `RegistryInv` says that registry and variables name each other.
  `LoadInv` speaks of a load under way: the part of the document it has been
  through has taken effect on the variables that were there when it began.
  `LastInv` is the same of the load that ended last. For these theorems conversions
  are constants: any `Parse`, failing where it likes. `TextsReload` is about the
  casts: no variable holds a fragile value (`NoFragile`), and each cast gives back what
  its inverse wrote of a plain one. That is where the elements matter:
  `VectorReloads` and `MapReloads` are equivalences, a container is read back if and
  only if YAML gives each of its elements back, whatever `Load` and `Emit` are. A node of a vector is its children in
  order, those of a set are listed in some order, each element once, and a key of a
  map is found at the least position that has it; no induction is needed, because
  the casts are functions over positions.
- `Logger`. An event finds a formatter because every logger that exists has one
  and hands it to each appender that has none; `addAppender` does so in two
  critical sections, so `AddInv` says that what the first one saw still holds in
  the second, and `ListInv` that no two lists share an appender. `WrittenOnce`
  needs a second part, `WInv`: the locks a thread in `log` holds, that what it has
  written is what the positions of the list before `idx` admit (`InOrder`), that
  the list of the logger which passed the event on is empty and stays so, and that
  no list repeats an appender.
- `LogFormatter` (in `LoggerProofs`, which extends both modules). `WholeInv`
  says that `vec` with `nstr`, read one entry after the other, is the pattern up to
  `i`, unless an error was found; so an accepted pattern is accounted for whole.
  `MeantInv` says that what the entries so far print, with what the rest of the
  pattern means, is what the pattern means. Both need two recursive functions,
  `FlattenSeq` and `Meaning`: that each exists and is unique is proved from a least
  position where it would fail (`JoinsExists`, `MeansExists`).
- `LogConfig`. `Applied` speaks of the time between loads; `LoadInv` speaks of a load
  under way: the names the listener has visited are as the new value says, those it
  has not are as the load found them, and the one it is at is built up to the next
  appender (`AtDefine`); in the second loop the names that are gone are silent up to
  `todo` (`SecondInv`). `Serial` and `ValueInv` carry what the contract said of the
  value when the load began. `OnlyBareLose` needs `BareInv`: every logger but the root
  has the root, and a logger without appenders has a reason (`MayBeBare`). The reason
  may change from step to step: a logger that the listener has left without appenders
  has one in the new value, then in the assigned one. `DumpReloads` needs that `Nth`
  lists a finite set of numbers in order, each once (`NthIs` and the lemmas before it,
  by a least counterexample), that `Parse` undoes `Dump` entry by entry, and that
  neither dump holds a node the conversion throws at.
- `FileAppender`. `PastInv` says that the seconds calls remember are not in the
  future, `OrphanInv` that with a good stream on a lost file nobody has opened the
  path, nor found it open, in a second after the loss. `Recovers` rests on
  `FailedIsClosed`: only an open fails, so a stream that is not good has no file.

Sets of numbers have a least element by `WFMin` of `WellFoundedInduction`, which
also stands in for induction: the least number for which a claim fails is not the
first one, and the claim of the one before it gives a contradiction. The counts of
fibers, guards and names use the cardinality theorems for adding and removing one
element, the parser those about concatenation and subsequences. All other facts
are proved where they are used.

Only model-checked: liveness (`SwapInReturns` and every `CallsReturn`), since
fairness and ENABLED are beyond the prover; and that the contracts are necessary
(the clause tables and the runs that expect a violation), which takes a
counterexample and no proof.

## Findings

Each has a run that TLC must find violated.

1. The logs listener dereferences a null pointer when a load changes one logger
   and repeats the definition of another (`log.cc:375`): run `log_config_repeated`.
2. `Lookup` with another type replaces the entry (`config.h:373`) where the
   comment says it returns a null pointer; `tests/test_config.cc` does this: run
   `config_retyped`.
3. `%%` in a pattern is not parsed to `%` as the comment at `log.cc:714` says; the
   second `%` starts an item: run `formatter_escape`.

The clause tables show more, without a run of their own: `swapIn` accepts a
finished fiber and reaches the line marked "never reach" (`unfinished` of `Fiber`,
`fiber.cc:118`); a signal in the constructor's `sem_wait` lets a `Thread` die while
its child uses it, against the comment at `thread.cc:41` (`no_signal` of `Thread`);
two concurrent `setValue` calls leave listeners with a value that was overwritten
(`serial_set` of `ConfigVar`, `config.h:318`); a file appender whose stream failed
once never writes again (`no_write_error` of `FileAppender`).

## Plan

All components with logic of their own are modelled, and every safety property of
a passing run is proved. What could follow: the conversions of containers in
containers, which repeat the casts one level down, and liveness, should the prover
come to support it.

## Not modelled

- What the format items and `LogEvent` print: layout.
- `Singleton`: a function-local static, initialised by the compiler's means.
- `util`, `macro`, the build files: they read the system or print; the assertions
  appear as the `aborted` states of `Fiber`.
- A direct `swapOut()` by a client, which has no correct use: it leaves `m_state`
  EXEC, so that `swapIn` refuses the fiber from then on, or saves the running
  stack in a foreign context. `swapIn` or `reset` of a main fiber. No code of the
  repository does either. Sizes of stacks.
- Reads that change nothing and race with nothing modelled (`getValue`, `getID`).
