# A TLA+ verification of sylar

sylar is a C++ server framework: user-level fibers, a scheduler that spreads
them over a pool of threads, an IO manager that turns epoll events into
scheduled fibers, and the configuration and logging they are built with. This
directory holds TLA+ models of the part where the difficult behaviour is, the
TLC runs that check them on small instances, and proofs, checked by TLAPS, of
what matters most for every instance. All source paths below are relative to
`src/sylar/` (line numbers are those of this commit).

Run a check from this directory with `tlc -config io_pool.cfg MCIOManager.tla`,
a proof with `tlapm IOManagerProofs.tla`.

## 1. The system

| component | state | operations | talks to |
|---|---|---|---|
| **Fiber** `fiber.h/.cc` | a state (INIT, HOLD, EXEC, TERM, READY, EXCEPT), a function, a context and stack; per thread: the current and the main fiber | construct, `reset`, `swapIn`/`swapOut`, `call`/`back`, `YieldToReady`, `YieldToHold`, `MainFunc` | the scheduler's main fiber of its thread |
| **Scheduler** `scheduler.h/.cc` | the task list `m_fibers` under `m_mutex`; atomic counters of active and idle threads; `m_stopping`, `m_autoStop`; per thread, the locals of `run()`: the entry picked, `cb_fiber`, `idle_fiber` | `start`, `schedule` (one task, a batch), `run`, `idle`, `stopping`, `stop`, `switchTo` | its threads; fiber bodies call it back |
| **IO manager** `iomanager.h/.cc` | a table of `FdContext` (events, a read and a write `EventContext`, a mutex), `m_pendingEventCount`, an epoll instance, the tickle pipe | `addEvent`, `delEvent`, `cancelEvent`, `cancelAll`, `triggerEvent`, `idle`, `stopping`, `contextResize` | is a Scheduler; the kernel's epoll |
| **Thread** `thread.h/.cc` | id, name, function, joinable handle, a semaphore | construct (waits until `run` has stored the id), `join`, destroy (detach) | pthread |
| **Locks** `mutex.h/.cc` | pthread mutex, rwlock, spinlock, `sem_t`, and scoped guards with a "locked" flag | lock, unlock, wait, notify | everybody |
| **Configuration** `config.h/.cc` | a registry from names to `ConfigVar`s under a rwlock; each variable a value and a map of listeners under its own | `Lookup`, `LookupBase`, `LoadFromYaml`, `setValue`, `addListener`, `Visit` | listeners (logging) |
| **Logging** `log.h/.cc` | loggers (level, formatter, appenders) under spinlocks; file appenders with a stream and the time of the last reopening; parsed patterns; the manager's map of loggers | `log`, `addAppender`, `setFormatter`, `reopen`, `getLogger`, pattern parsing | configuration |
| **Log configuration** `log_config.h` | the variable `logs`: a set of definitions | conversions, the listener that rebuilds loggers | configuration, logging |
| log sockets, `util`, `singleton`, `macro`, `noncopyable` | none that changes | demonstration code, helpers | |

How they interact. A fiber's body runs inside `Scheduler::run` of one thread:
`run()` takes an entry off the list under the lock, switches into the fiber,
and is switched back to when the body yields or ends; it then looks at the
state the body left. The body itself calls `schedule` and `addEvent`; an event
that occurs is noticed by some other thread's idle fiber, which puts the
waiting fiber back on the list. Nothing but the state stored in the fiber and
a few counters connects these steps.

What is hard, and what makes each component correct:

* *Scheduler and fibers.* The pool decides that it is finished from a list, two
  flags and a counter that several threads change at different moments. The
  fiber's state is tested under the lock and stored outside it. A wake-up may
  come before the fiber that waits for it has parked. Correct means: a function
  handed in is run exactly once, by one thread at a time, on the thread it was
  scheduled for; a fiber that parked can still be woken and, once woken, is
  resumed; no thread leaves while a task only it may run remains; `stop()`
  returns.
* *IO manager.* Three records of what a descriptor waits for (its `events`, the
  event contexts, the kernel's registration) and one count over all
  descriptors are updated one after another; epoll is edge triggered; masks
  reported earlier are used later; `stopping()` is two reads. Correct means:
  the records agree, the count is exact, an event that occurs wakes its waiter
  once, somebody keeps polling as long as an event is registered, `stop()`
  returns when none is.
* *Table of contexts.* It is looked up under a read lock, resized under a write
  lock, and not compared again in between. Correct means: no call goes on with
  a context that is none, and a registered event is found where it was put.
* *Threads.* The constructor must not return before the id is stored; `start()`
  holds the lock the new threads want while it waits for them. Correct means:
  the ids listed are the threads' own, no task runs before the list is
  complete, a `Thread` outlives its thread, `start()` and `stop()` return.
* *Configuration.* The registry has one lock, every variable its own, and the
  counter of listeners' ids neither. Correct means: one variable for a name; a
  listener stays until it is removed, is not called afterwards, and knows the
  value kept; a document is loaded whatever else is in it; no lock is asked for
  by a thread that holds it.
* *Logging.* A line goes to every appender of its logger, once, or to the root
  logger, while appenders are replaced; a pattern is read to its end.

`PROJECT.json` lists the hazards of this code one by one, each at its line,
with the properties that watch it or the reason why none does.

## 2. The modules

| module | models | kind |
|---|---|---|
| `TaskPool` | what a user of the scheduler is promised | abstract specification |
| `Scheduler` | `scheduler.h/.cc`, and `fiber.h/.cc` as the scheduler drives it | detailed specification |
| `MCScheduler` | constants and symmetry sets for TLC | model checking |
| `SchedulerProofs` | types, exact counters, stability of `stopping()` | proofs |
| `SchedulerClaims` | safety of fibers, pins | proofs |
| `TaskPoolProofs` | the refinement of `TaskPool` | proofs |
| `EventHub` | what a user of the IO manager is promised | abstract specification |
| `IOManager` | `iomanager.h/.cc` over an abstraction of the scheduler, and epoll | detailed specification |
| `MCIOManager` | constants for TLC | model checking |
| `IOManagerProofs` | agreement of the records, drain, refinement of `EventHub` | proofs |
| `ThreadStart` | `thread.h/.cc`, the semaphore and a lock of `mutex.h/.cc`, `Scheduler::start` and the joins of `stop` | detailed specification |
| `FdTable` | the table of contexts: `contextResize`, the lookups of `addEvent`, `delEvent`, `cancelEvent`, `cancelAll` | detailed specification |
| `IOStartup` | `IOManager`'s constructor and destructor: composes `ThreadStart` and `FdTable` | composition |
| `MCIOStartup` | constants for TLC | model checking |
| `IOStartupProofs` | the table's bounds, no forgotten context, harm by races only; ids, complete lists, destruction; the composition implements its parts; `stop()` leaves no event | proofs |
| `Lists` | the elements of a list that pass a test | operator |
| `ListTheorems` | induction and recursion on the natural numbers; what `Only` and `FlattenSeq` return | lemmas |
| `Config` | the registry, documents, variables and their listeners (`config.h/.cc`), the read-write lock of `mutex.h` | detailed specification |
| `MCConfig` | names, types and documents for TLC | model checking |
| `ConfigProofs` | one variable for a name; listeners; documents | proofs |
| `LogConfig` | the variable `logs` (`config.h`), its listener (`log_config.h`), loggers (`log.h/.cc`) | detailed specification |
| `LogPattern` | the parser of patterns (`LogFormatter::init`) as operators | pure algorithm |
| `LogFormats` | the loggers with the patterns of their formatters | composition |
| `MCLogConfig` | texts of the variable and patterns for TLC | model checking |
| `LogConfigProofs` | inherited formatters; loggers match the variable; patterns are read whole | proofs |

Definitions whose comment begins with "Mutant" are variants of the definition
that follows them with one plausible mistake each. They are in no specification;
replacing the definition by the variant makes the property the variant is
listed with fail, which shows that the property depends on that code.

### Scheduler

One action is one section of the code that other threads cannot come between.

| code | actions |
|---|---|
| `schedule` (one task, a batch, a woken fiber) | `SubmitCb`, `SubmitFiber`, `SubmitBatch`, `Wake`: each takes `m_mutex` once |
| `run()`, locked scan (236-281) | `Pick`: first entry of the list this thread may take; `PickNothing`: to the idle fiber, or out of the loop when it has ended |
| `run()`, up to the switch (286-292, 309-327) | `DispatchFiber`, `DispatchCb` (with `cb_fiber` reused or made), `DispatchEnded` (the fiber ended before its entry's turn) |
| the body | `BodySchedule`, `Register` then `YieldToHold`, `SwitchTo`, `YieldToReady`, `Return`, `Throw` |
| `run()`, after the switch back (294, 329) | `SwapBack`: the decrement of `m_activeThreadCount`, outside the lock |
| `run()`, the fiber's state (297-307, 331-346) | `SettleReady`, `SettleEnded`, `SettleHold` |
| `idle()` | `Idle`: one evaluation of `stopping()`; ends or yields |
| `start()`, `stop()` | `Start`; `StopBegin`, `StopRequest`, `StopCall` (the owner enters the root fiber), `StopResume`, `StopJoin` |

`m_fibers` is a sequence of entries, because the scan takes the first entry
that fits. A function (`Jobs`) is a model value; a fiber object comes from a
finite pool and is "FREE" until it is made. `submitted`, `finished` and `pin`
are history variables: what was handed in, what ended, which thread the last
`schedule()` of a fiber named. `waits` counts the wake-ups a fiber registered
for (`addEvent`) and did not get yet; a body that registers parks next, as
every caller of `addEvent` in the tests does.

Properties: `TypeOK`; `CountersExact` (both counters, on every path);
`OneRunner` (no fiber in two threads); `SwapInAssert` (the assertion of
`swapIn`); `ParkedIsReachable` (no lost wake-up); `NoOrphan` (no task for a
thread that has left); `PinRespected`; `StoppingIsFinal` (an action property:
`stopping()` once true stays true); `ImplementsPool`; and the liveness
properties `StopReturns` and `WokenIsResumed`.

`ImplementsPool` is the refinement mapping to `TaskPool`: the status of a
function (new, ready, running, parked, done) is computed from the list, the
threads' locals and the fibers; the mapping has two further values, "lost" and
"again", that the abstract specification does not know, so a function that
disappears or is run twice is an error.

### IOManager

The base class is taken at what module `Scheduler` shows of it: of an entry of
`m_fibers` the thread it is for is kept (`queue`, `For`, `Pins`), and
`m_activeThreadCount` is the number of threads in a task (`Active`). A thread
takes the first entry that is for it, or for any thread, and finds nothing if
the others' entries are all there is. Because an entry may also belong to a
fiber that has not yet been set to HOLD elsewhere, a thread may pass entries
over, or find nothing, while another one is executing (`Executing`).

| code | actions |
|---|---|
| `run()`: the scan; the fiber's state after the switch back | `Pick`, `PickNothing`; `EndTask`, then `Settle` (HOLD, TERM, EXCEPT); `YieldReady`, then `Requeue` (READY) |
| `schedule()` by tasks and by the owner | `TaskSchedules`, `OwnerSchedules` |
| `stopping()`, called by `idle()` (401-440) | `AskScheduler`, then `AskPending`: two reads with nothing held in between |
| `idle()`, `epoll_wait` (442-479) | `EpollWait`: takes what is on the ready list into the thread's own array |
| `idle()`, per reported descriptor (483-569) | `HandleStale` (nothing registered any more) or `HandleReady` (re-register what is left) and then `Trigger`, `Count` per event |
| `idle()`, yield | `IdleYield` |
| `addEvent`, `delEvent` | `AddEvent`, `DelEvent` |
| `cancelEvent`, `cancelAll` | `CancelEvent`, `CancelAll`: `CancelSet`, then `Trigger`, `Count` per event |
| `triggerEvent` | `Trigger` (event removed, context emptied, task on the list) |
| `--m_pendingEventCount` after it | `Count` |
| constructor; destructor's `stop()` | `Init`; `StopBegin`, `StopJoin` |
| the kernel and the peer | `Arrive`; `EpollCtl` and `Report` inside the actions that call epoll; `Consume` |

A thread between `HandleReady` or `CancelSet` and its last `Count` holds the
descriptor's mutex (`Unlocked` is the guard of all others); what happens under
it is split only where others can observe it without the lock: `schedule()`
and the count. epoll is modelled from its use: `interest` is what is
registered, `level` what the descriptor is ready for, `edge` whether it is on
the ready list; every successful `epoll_ctl(ADD or MOD)` puts it there if it is
ready for something registered, and a hang-up is reported to every registrant.

Between `YieldReady` and `Requeue` an unfinished task is neither on the list nor
counted, as in `Scheduler` (finding 1). `hasty` is a history variable: a thread
found the base class stopping just then. Its idle fiber may end too early; if
two threads do this in turn while `stop()` is under way, the task goes on in a
thread whose own idle fiber has ended too, may register an event and park, and
then everybody leaves.

Properties: `TypeOK`; `PendingExact` (the count is the number of registered
events plus the decrements still due); `ContextsInSync` (the three records
agree whenever the lock is free); `TriggerAssert` (the assertion of
`triggerEvent`); `ExitMeansDone` (a thread leaves only when nothing is left);
`WorkHasThread` (when all have left, the list is empty and no event is
registered, unless `hasty`); `ImplementsHub`; and the liveness properties
`EventDelivered` and `StopReturns`.

`EventHub` promises that the manager closes only when no task is left and no
event is armed, or after it has overlooked a task (`Overlook`, which `hasty`
maps to); a manager that closes early for any other reason does not implement
it.

### ThreadStart, FdTable and IOStartup

`Scheduler` has its threads from the moment `start()` returns and `IOManager`
its contexts from the beginning; these modules say how they come about.

| code | actions of `ThreadStart` |
|---|---|
| `start()`: the lock, the flag; the loop | `StartCall`; `Create`, `Collect` per thread (the lock is held: `Locked`) |
| `Thread::Thread`: up to `pthread_create`, from the wait | `Create`, `Collect` (`SemWait`) |
| `Thread::run` | `StoreId`, `Notify` (`SemNotify`), then `Scheduler::run` |
| `Scheduler::run` | `TakeTask`; `FinishTask`, or `YieldReady` and `Requeue`; `Leave` |
| `idle()`: `Scheduler::stopping()`; what a class below asks besides | `Idle`; `Answer` |
| `stop()`: flags and swap; `join`; `thrs` destroyed | `StopCall`, `Join` per thread, `StopReturn` |
| `schedule()` | `Schedule`, by the owner `Submit` |

`call` is where the owner is in `start()` or `stop()`, `place` where each
thread is. The `Thread` objects are numbered in the order of their creation
through all starts; the number is also the kernel's id of the thread, so that
`m_threadIds`, which is never cleared, is right if it is 1, 2, 3 and so on.
`stop()` may come before `start()`, twice in a row, and be followed by another
`start()`; the list of tasks survives. (`start()` after a `stop()` is possible
since `m_stopping` is true; `m_autoStop` is then still set, so the new threads
leave once there is nothing to do and `stop()` is called, as before.)
`stopping()` is virtual, so the idle fiber's question has two parts: after
`Idle` it knows the base class's answer (the fiber is "asked"), `Answer` adds
what the class below asks. Tasks are only counted: entries for one thread, and
fibers that park and are woken, are left to `Scheduler` and `IOManager`.

| code | actions of `FdTable` |
|---|---|
| `contextResize`; the constructor's call | `ContextResize`; `Construct` |
| `addEvent`, `delEvent`, `cancelEvent`, `cancelAll`: the lookup | `LookUp` (one section under the read lock) |
| `addEvent`: the resize | `Grow` (one section under the write lock, `fd * 1.5`, no second comparison) |
| under the context's mutex | `AddEvent`; `RemoveEvent` |
| `idle()`: an event reported | `Trigger`, with the context the kernel holds |

A context is a number per descriptor, its state the set of its events; what is
done with one context in detail is `IOManager`'s. Each resize that reaches an
empty slot makes a context with a new number, so one that was dropped by a
smaller resize can be told from its successor. `Accepts` is epoll's part: `ADD`
of a descriptor it knows is refused. A caller adds no event that is registered,
or being added, for its descriptor: `addEvent` asserts as much. Two threads that
resize one after another shrink the table and forget contexts that are in use;
`raced` records that a table was resized which had another size when the
thread looked. `failed` records a call that failed although the caller did
nothing wrong.

`IOStartup` composes the two as the constructor does: `contextResize` first,
`start()` then; only a thread that is working makes the steps of a call
(`Tasking`), and only one whose idle fiber goes round polls (`Polling`).
`AskPending` is `Answer` with the second read of `IOManager::stopping()`: is
`m_pendingEventCount`, the number of registered events, 0? An event that occurs
(`Polling`) or is cancelled (`Removing`) becomes a task. `MaxTasks` bounds the
tasks there are or may come to be.

Properties: `IdsExact`, `ListComplete`, `DestroyedEnded`, `CallsReturn` (liveness)
of the threads; `InBounds`, `NoneForgotten` (a context the table has lost is
still the kernel's, so its events still arrive), `HarmedByRaceOnly` of the table;
`StopsClean` of both: when `stop()` returns no event is registered, unless a
task yielded READY at the wrong moment (`hasty`). `CallsReturn` says that
`start()` returns, and that `stop()` does unless events stay registered or tasks
go on yielding for ever (`KeptGoing`). An event registered with a context that
crossed resizes have dropped counts there: the program can no longer cancel it,
so `stop()` waits until it occurs. `TypeStart` and `TypeTable` are proved, not
run.

### Config

Loaders set values, each entry of a document in turn (`setValue` alone is a
document with one entry); clients look variables up and listen to them.

| code | actions |
|---|---|
| `Lookup` with a default: the registry's write lock and the search | `LookupBegin` |
| ... of a new name (564-574); of one that exists (542-560) | `Insert`; `Existing`, then `Leave` |
| `Lookup` without a default | `Find` |
| the registry's lock | `RegistryWriters`, `ForReaders` |
| `ListAllMember`, `LoadFromYaml` | `Entries`, `LoadBegin`, `Skip` per entry that sets nothing, `LoadEnd` |
| `LookupBase`, `fromString`, the cast | `Settable` |
| `setValue` under the read lock | `SetBegin` (compares), `CallListener` per listener in the order of the ids, `CallsEnd` |
| `setValue` under the write lock | `Store` |
| `addListener` | `AddRead` (write lock, reads the static counter), `AddInsert` |
| `delListener`, `clearListener` | `Delete`, `Clear` |
| `ReadLock`, `WriteLock` of the variable | `Readers`, `Writers`, `Unlocked` |

A name is a sequence of keys; a document is a sequence of nodes, each with its
path and its scalar or text, in the order `ListAllMember` visits them. The
lookup of an entry is one step with the comparison that follows it: a variable
is never removed again, and an entry without one is skipped there and then.
`told` is what each listener was last told, or what the value was when it was
added; `live` is what the clients believe to be listening. `late` are the
listeners added between the calls and the store of a value (nobody tells them),
`mixed` the variables two threads have set at once: then the last value
announced need not be the value kept, which the run `log_race` shows in full.

`Lookup` with a default asks once more when the name exists, by a `Lookup`
without one (config.h:546), which wants for reading the lock its thread holds
for writing. The C library refuses with `EDEADLK`, `rdlock` ignores that, and the
guard of the inner call then gives up the outer one's lock (`Existing`). The
outer guard unlocks a lock its thread no longer holds (`Leave`), which drives the
lock's count of readers below zero; `strayed` records it. From then on readers
are let in beside a writer and a later call may wait for ever; writers still
exclude each other, since the lock's word for the writer is taken and given back
by its holder alone (tried with glibc's `pthread_rwlock_t`). The model has the
first (`ForReaders`); a step is never obliged to happen, which covers the second;
`Find` and the lookup of an entry are one step each, so a search of the map
*while* an insertion changes it, a data race, is outside the model. A lookup
that asks for another type gets null (`Existing`'s second case). A name with a
character that is not legal throws before anything has changed.

The preconditions, all of them about callers: no two variables have one type if
listeners are added to both (the counter `s_fun_id` is a static per type, the
lock one per variable); listeners use no configuration variable; a client
deletes what it has added.

Properties: `OneVariable`, `ListenersKept`, `CallsAreStable`, `Informed`, and the
action property `Loaded`.

### LogConfig

Who sets the variable `logs` is a setter, who logs a writer. Names, patterns
and the texts of the variable are model values and records; what the lexical
casts make of a text (`FromYaml`) is translated with its oddities: the
appenders are read only if the definition has a formatter, unusable ones are
left out, the first of two definitions of a name counts, a node without a name
refuses the whole text.

| code | actions |
|---|---|
| `fromString`, `setValue` up to the listener | `SetBegin`: reads the text, takes the read lock, compares |
| listener, per changed or removed logger | `SetLevel` (no lock), then `SetFormatter`, `ClearAppenders`, `AddAppender` per appender: each takes the logger's spinlock once |
| `setValue` after the listener | `SetAnnounced` (read lock given up), `SetStore` (write lock) |
| `Logger::log` | `LogBegin` (the level is read without the lock), `LogOwn` (to the logger's appenders) or `LogPassOn` and `LogRoot` (no appenders: to `m_root`, with the lock of the first logger still held) |

`LockFree` is the spinlock: it stays with a writer between two actions only
while the line is passed on. The read lock is shared, so `SetBegin` has no
guard for it; `SetStore` waits until no setter is in a listener. A removed
definition is treated as the listener treats it: level 100, no formatter, no
appenders (`NoDefine`). The listener takes definitions in the order of their
names; the model takes them in any order, those that are kept first.

`LogPattern` is the parser behind `Formats`: which patterns a formatter
accepts. `Round` is one round of the outer loop, `TakeItem` and `TakeBraces`
its two ways through an item, `Pieces` the vector of pieces, `Known` the second
loop. `LogFormats` puts it under `LogConfig`: the patterns of `Formats` are
sequences of characters that `LogPattern` accepts, `BadFormat` is one it
refuses. What decides whether `setFormatter` has an effect is `Accepted`; that
the reading itself drops nothing is proved (`PatternWhole`), for patterns of
any length without empty braces, which leave no trace in the piece. That `%%`
starts an item with its second sign is modelled as the code does it, see the
end of section 3.

Properties: `TypeOK`; `Inherits` (an appender without a formatter of its own
has its logger's); `LoggersMatch` (nobody sets the variable: every logger is as
the kept value defines it, or untouched and undefined); `LostOnlyWhileBare` (an
action property: a line that passed its logger's level, and the root logger's
when it is passed on to it, disappears only between `clearAppenders` and the
first `addAppender` of the root logger, or when the root is told to have none;
what the root's level stops in `LogPassOn` is not counted as lost);
`SetReturns` (a setter that has begun ends, whoever logs).

## 3. The runs

| run | instance | result |
|---|---|---|
| `sched_safety` | 2 workers, 2 functions, 2 fibers, any pin, 2 suspensions, no `YieldToReady`, one wake-up at a time; symmetric in all three sets | all safety properties and the refinement hold |
| `sched_live` | 1 worker and the caller, `YieldToReady` too, no pins; fair | `stop()` returns, woken fibers are resumed, refinement holds |
| `sched_single` | the caller alone, two wake-ups at once, pins; fair | `stop()` returns although entries may outlive their fiber |
| `sched_ready_window` | as `sched_safety` with `YieldToReady` | `NoOrphan` violated |
| `sched_double_wake` | as `sched_safety` with two wake-ups at once | `SwapInAssert` violated |
| `io_pool` | 2 threads, 2 descriptors, READ, 2 registrations, 2 arrivals, 2 tasks for any or one of the threads, 2 READY yields | the records agree, the last thread leaves nothing behind but for the READY window, the refinement holds |
| `io_duplex` | 1 thread, 2 descriptors, READ and WRITE, 3 registrations, 2 arrivals, 1 READY yield; fair | events are delivered, `stop()` returns, a lone thread never leaves early nor triggers twice |
| `io_stale_mask` | 2 threads, 1 descriptor, both events, no READY yields | `TriggerAssert` violated |
| `io_startup` | 2 threads started twice, 4 tasks, descriptors 2 and 4, both events, a table of 2, 3 resizes, READY yields; fair | all properties of `ThreadStart` and `FdTable` hold of the composition, and `StopsClean` |
| `config` | 2 loaders, 2 clients, 2 variables of two types, 3 lookups with a default, 2 documents (2 loads), 2 listeners; symmetric in loaders and clients | all properties of `Config` hold |
| `log_config` | 1 setter, 2 writers, 2 loggers, 3 values set, 3 lines, patterns read by `LogPattern`; fair | all properties of `LogConfig` hold |
| `log_race` | 2 setters, nobody logs | `LoggersMatch` violated |

What the violations show (details under "findings" in `PROJECT.json`):

1. *READY window.* `run()` decrements the active count before it puts a READY
   fiber back on the list. In between `stopping()` is true although the fiber
   is unfinished; a thread may leave, and a task the fiber then schedules for
   that thread is never run. In the IO manager two such moments during `stop()`
   can send all threads away with an event registered (`hasty`): `io_pool.cfg`
   with the invariant `AllGone => queue = <<>> /\ Armed = {}` shows it in 21
   states, with one descriptor, one task and two yields. And since an entry
   for a thread that has left keeps the list from being empty, `stop()` may
   also never return.
2. *Double wake.* EXEC is tested under the lock and stored outside it. A fiber
   woken for READ and WRITE at once is on the list twice and two threads can
   both switch into it. The assertion in `swapIn` fires, or, when the second
   thread tests before the first stores, both run on one stack.
3. *Stale mask.* `idle()` triggers every event of the mask epoll reported, after
   asking only whether *some* of them is still registered.
4. *Announced and stored.* `setValue` runs the listener under a read lock, which
   two setters can hold at once, and stores under a write lock taken later. The
   value kept need not be the one announced last, and two listeners can rebuild
   one logger at once. `OneSetterMatches`, which is proved, says that with one
   setter the loggers match.

More disagreements are seen with the same modules and are not kept as runs:

* *Pin lost.* A fiber scheduled for one thread that yields READY is put back
  for any thread: scheduler.cc:300 calls `schedule(ft.fiber)`, whose thread is
  -1, where scheduler.h:78 says that the thread given is the one it executes on.
  `sched_ready_window.cfg` with the invariant `PinRespected` shows it.
* *Stop race.* The two reads of `IOManager::stopping()` (iomanager.cc:406) can
  both be favourable although they never were at the same time, against the
  comment at line 405; a thread then leaves the pool early. By the two reads
  alone the last thread never does: `NoYieldNoWorkLeft`, which is proved, says
  so for tasks that do not yield READY; with READY yields finding 1 adds the
  exception of `WorkHasThread`. `io_pool.cfg` with the invariant `ExitMeansDone`
  shows the early thread.
* *Percent sign.* log.cc:604 and 628 call `%%` an escape whose second sign is an
  ordinary character. The loop at 629 does not step over that sign: it reads it
  again as the beginning of an item, so that `%%d` is the text `%` and then the
  item `d` (a time), and `%%` before anything but the name of an item makes the
  pattern an error. `Pieces(<<"%", "%", "d">>)` of `LogPattern` evaluates to the
  former. `PatternWhole` does not contradict the code here: it says of the
  code's own reading that no character is dropped or read into two pieces.
* *Lookup of an existing name.* The comment at config.h:529-535 offers `Lookup`
  with a default for names that exist ("查找name,如果没有将插入"). The second
  such call for a name unlocks the registry twice (see `Config` above); the run
  `config` makes it and shows that one variable per name survives, not that the
  lock does.
* *Two variables of one type.* `addListener` takes its ids from a counter all
  variables of the type share, under the lock of one of them, so two listeners
  of one variable can get one id and the second replaces the first:
  `config.cfg` with one type for both names and the invariant `ListenersKept`
  shows it.

The passing runs state what holds outside these windows: `sched_safety`
excludes `YieldToReady` and double wake-ups by its constants (`AllowReady`,
`MaxWaits`), `io_pool` has one kind of event, `io_duplex` one thread,
`log_config` one setter. `WorkHasThread`, `ImplementsHub`, `StopsClean`,
`HarmedByRaceOnly` and `Informed` name the window themselves (`hasty`, `raced`,
`mixed`, `late`), and the runs enter it.

*Bounds.* `Jobs`, `Fibers`, `MaxSuspends` (all suspensions of a behaviour),
`MaxTasks`, `MaxYields`, `MaxAdds`, `MaxArrivals` limit clients and
environment, not the code. Two threads suffice for every race the code has
between two sections; two functions and two fibers let one wait, be woken and
be overtaken by the other; two suspensions let a fiber park twice, or both
once; two descriptors and registrations let one be handled, or cancelled, while
the other one is registered, and let an event be registered again after it was
triggered. Three registrations in `io_duplex` give one descriptor both events
and one of them again. In the IO runs the number of tasks ends the
environment's input, after which a run drains. Two READY yields are what
`hasty` needs to lead to an event left behind; one of the tasks may be for one
thread, which makes the other one find nothing on a list that is not empty. In
`log_config` the five texts contain every kind of change the listener tells
apart: a logger added, changed, removed, unchanged, with and without formatter,
with refused patterns; three values set lead from any of them over another one
to a third, and two writers let one pass a line on while the other waits.

In `io_startup` descriptor 2 is outside the first table of 2 and descriptor 4
outside the one a resize for 2 makes (3), so that a resize for 2 can shrink the
one for 4 (6); three resizes make the loss and a second creation possible; two
starts put a second generation of threads beside objects of the first; four
tasks let both threads work while an event is registered and another task
waits. READY yields need no bound there, since a yield leaves no trace but
`hasty`. In `config` one document sets both variables, after entries that set
nothing, for each of the reasons there are, and one of these names a variable
that is set later on; the other sets one variable. Two loads overlap on one
variable and on both, and two listeners are added before, between and after.
Three lookups with a default make a variable, find it again, and unlock the
registry once too often while the other client is in a lookup of its own.

*Deadlock* is checked in every run: only a finished owner may stand still, and
in `LogConfig` only threads outside `setValue` and `log` (`Done`). In `io_startup`
and `config` nothing is final: the owner may always stop again, and a client
clear its listeners.

*Fairness.* Weak fairness of each thread's steps: the kernel keeps scheduling
threads, and a body that can go on does. It is fairness of the thread as a
whole, never of one of its choices. `stop()` goes on once it has been called
(weak fairness of its later steps), but nothing obliges the owner to call it, a
peer to send, or a waiting event to occur; so `StopReturns` of `IOManager`
excepts the case of an event that is registered and does not occur, in which
the code waits for ever, too. The tasks of `IOManager` end because their inputs
are bounded, not by fairness of `EndTask`. `FairStart` of `ThreadStart`, and
`FairSpec` of `IOStartup`, oblige the owner's calls and the threads to go on,
never to begin; a thread that asks for the lock needs no more than that,
because the owner alone holds it over several steps, and gives it up. A task
may yield READY for ever, since nothing in the code makes it end, and an event
need not occur: those are the two exceptions of `CallsReturn`. In `LogConfig` a
thread that has begun to set or to log goes on; that weak fairness suffices for
spinlocks rests on the bound of the lines: with an endless stream of them a
spinlock, which is not fair, promises nothing, and neither does the model.

## 4. The proofs

All are about every set of threads, fibers, functions, descriptors and every
value of the bounds. They use the assumptions of the modules: finite sets of
threads (not empty) and descriptors, the null values outside their sets, pins
that name threads of the pool, bounds that are natural numbers.

**`TypesAndCounters`** (`SchedulerProofs`): `Spec => [](TypeOK /\ CountersExact)`.
`CountersExact` is not inductive alone: a step of a thread decrements a counter
because of where the thread is, and needs to know that it has a fiber
(`HasFiber`) and that the caller's thread runs the loop exactly while the owner
is in `stop()` (`OwnerPlaces`). `TypeInv` conjoins these. The lemmas about
`Cardinality` of the set of threads at a place, when one thread moves, do the
counting.

**`StoppingFinal`** (`SchedulerProofs`): if no body yields READY, stopping()
once true stays true. With no fiber READY (`NoReady`) every task is on the list
or in a thread that is counted, and an owner that has set `m_autoStop` schedules
nothing more (`OwnerQuiet`), so from an empty list and a zero counter no step
can add an entry. Finding 1 shows that the assumption is needed.

**`FibersAreSafe`** (`SchedulerClaims`): if a fiber waits for at most one
wake-up at a time, `OneRunner`, `SwapInAssert` and `ParkedIsReachable` hold.
The inductive invariant `ClaimInv` says that there is at most one claim on each
fiber: it is on the list once, or in one thread's hands, or in a wake-up, or
spare in one `cb_fiber`, and which of these it is goes with its state
(`QueuedState`, `PickedState`, `RunningState`, `WaitState`, `SpareState`,
`CarriersDiffer`). That is the argument the code relies on without stating it:
the state is tested under the lock, and stored after it, by the only thread
that can be holding the fiber. Finding 2 shows that the assumption is needed.

**`NobodyOrphaned`** (`SchedulerProofs`): `NoOrphan`, if no body yields READY.
`LeftOnStopping` says that whoever has left the loop, or is bound to since its
idle fiber has seen `stopping()`, did so while `Stopping` held; by the step of
`StoppingFinal` it still holds, and with it the list is empty.

**`FibersRunWhereSent`** (`SchedulerClaims`): `PinRespected`, if no body yields
READY and a fiber waits for at most one wake-up. The pin is followed from the
entry (`QueuedPins`) through the thread's hands (`PickedPins`) to the body.
`ClaimInv` is what makes it work: only a fiber nobody holds an entry of can be
scheduled again, so no second `schedule()` can name another thread meanwhile.

**`SchedulerImplementsPool`** (`TaskPoolProofs`): `ImplementsPool`, if a fiber
waits for at most one wake-up and either no body yields READY or no task names
a thread. `JobInv` follows the functions as `ClaimInv` follows the fibers: one
that was handed in and has not ended is in one entry of its own, on the list or
in a thread's hands, or in exactly one fiber (`WaitingCbs`, `CarriedCbs`,
`NoneLost`), and `EmptyFibers` says which fibers carry none, so that the
`cb_fiber` a thread uses again is one of them. Given that, the place of the
function's fiber is the function's status (`Shown`): in a body it is running,
else READY or with an entry it is ready, else parked. Each step then moves one
function or none; only submitting moves several. `RoomToRun` counts the threads
in bodies for the capacity.

The hard step is the last: when `stop()` returns nothing may be left that could
run. `HeldInv` says that a fiber in EXEC has a thread, and a READY one a thread
or an entry, so what is left could only be on the list; `PlacesInv` says who
has left by then; and `LastOut` says that when everybody has left the list is
empty, for one of two reasons (`OutInv`). Without READY, `stopping()` is final
and the first to leave already found it true. With READY it is not: threads may
leave in the window of finding 1 while there is work. But if no task names a
thread, the last one to leave found nothing it may run, and an entry it may not
run names a fiber another thread is executing, of which there is none. Where
bodies yield READY and tasks name threads the refinement is false: with two
threads and two yields a task can be named to a thread that left in one window
while the other thread, told to leave in another, goes without it, and `stop()`
returns with the task on the list (`sched_ready_window.cfg` with `MaxSuspends =
2` and the property `ImplementsPool` shows it).

**`RecordsAgree`** (`IOManagerProofs`): `TypeOK`, `PendingExact` and
`ContextsInSync`. The strengthening `SyncInv` says what holds while a lock is
held: at most one thread holds a descriptor (`Mutex`); the events it is still
to trigger are what separates `events` from the kernel's registration
(`HeldInSync`); the event a thread has triggered and not yet counted is no
longer in `events` (`CountDone`). Because of finding 3 `HeldInSync` cannot say
that what is to be triggered is registered, and does not; it holds with the
stale mask.

**`SomebodyStays`** (`IOManagerProofs`): `WorkHasThread`, with pins and READY
yields. `DrainInv` adds what a thread knows after each of the two reads: from
the moment one thread's idle fiber has ended, the work that remains belongs to
the threads that have not. A thread whose idle fiber has ended is in the scan, in
a task or gone (`RetiredPlaces`); when every thread has been told that the base
class is stopping, the list is empty and nobody is in a task or about to put one
back, unless `hasty` (`QuietInv`); and when every thread has read the count 0 as
well, nothing is registered (`DoneInv`). The last one cannot be raced because
nobody else is left to trigger anything. With pins it may be early itself, but
only if `hasty`: an entry for a thread that has left keeps the base class from
stopping for whoever has not asked yet. **`NoYieldNoWorkLeft`**: without READY
yields (`MaxYields = 0`) `hasty` stays false, and there is no exception at all.

**`ManagerImplementsHub`** (`IOManagerProofs`): the refinement. Each action maps
to a step of `EventHub` or leaves it unchanged: `Trigger` is `HandOver`,
`AddEvent` is `Arm`, `DelEvent` is `Withdraw`, `EndTask` is `EndTask`, an
`AskScheduler` that makes `hasty` true is `Overlook`, and `StopJoin` is `Close`,
whose guard is `SomebodyStays` or `hasty`. A task that yields is a task of the
hub throughout (`YieldReady`, `Requeue` change nothing); the count, the poll and
the reads of `stopping()` are invisible.

**`OneThreadIsExact`** (`IOManagerProofs`): `TriggerAssert` and `ExitMeansDone`
for a pool of one thread. `MaskTrue` says that what `epoll_wait` reported and
the thread has not dealt with is registered: each descriptor is reported once,
and nobody else is there to withdraw an event. With two threads and both events
both fail (finding 3, and the stop race), which is why the theorem asks for
one.

**`OneKindIsExact`** (`IOManagerProofs`): `TriggerAssert` for any number of
threads that all use the same kind of event, the other way in which the stale
mask of finding 3 does no harm. `MaskHeld` says that what a thread is about to
trigger is registered: `idle()` asks whether some of the mask is registered,
which with one kind means all of it, and nobody else changes the events of a
descriptor whose mutex is held. Together the two theorems say that finding 3
needs both a second thread and a second kind of event.

**`FormattersInherited`** (`LogConfigProofs`): `TypeOK` and `Inherits` for any
number of setters and writers. Each of the three calls under a logger's lock
changes formatter and appenders together, so `Inherits` is kept by each alone,
whatever interleaves; `CountFresh` keeps the index of `AddAppender` in range. That
every text yields definitions of the right type is `TextRead`: `FirstOf` finds an
index (`Least`), and `Only` returns what passes its test (`OnlyRounds`).

**`OneSetterMatches`** (`LogConfigProofs`): `LoggersMatch` if there is one setter.
`MatchInv` describes the listener half-way: the loggers it has done match the
new value, the one it is at has the level, the formatter and the first
appenders of its definition (`CurInv`), the rest is untouched; `DoneInv` hands
this on from the old value to the new one, using that `SetBegin` leaves out only
loggers whose definition is the same. Finding 4 shows that the assumption is
needed.

**`OneSetterLosesRarely`** (`LogConfigProofs`): `LostOnlyWhileBare` if there is
one setter. `RootKept` says that until the listener has cleared the root logger
it has appenders if the value kept gives it some; afterwards `MatchInv` says
how far the new ones have got.

**`PatternWhole`** (`LogConfigProofs`) is about a pattern of any length, as the
code reads it: the pieces of an accepted pattern without empty braces, written
one after another, are the pattern, so nothing is dropped or read into two
pieces. `Reads` is the invariant of the outer loop of `LogFormatter::init`:
unless an error has been noted, the pieces found and the text collected spell
what lies before the position. `TextReads`, `ItemReads` and `BracesReads` show
that each way through a round keeps it, `RoundReads` that a round goes on, so
that after as many rounds as there are characters nothing is left
(`PiecesRead`); `Flush` then adds the text that remains. The proof shows where
`EmptyBraces` is needed: a format of no characters makes a piece like that of
an item without one. `FormatsAssumption` says which patterns the constants
stand for.

**`StartSafe`** (`IOStartupProofs`): `IdsExact`, `ListComplete`, `DestroyedEnded`
and the types, for any number of threads, starts and tasks. `Handshake` is the
semaphore's part: a thread that has posted it has stored its id, so `Collect`
reads one that is there. `NoneAtWork` says that no thread works while `start()`
holds the lock, which takes in the threads of an earlier start: they have all
ended, since a thread that has not is the one being made, or in `m_threads`, or
in `thrs` behind those that are joined (`Owned`), and both are empty when a
`start()` begins (`Counted`).

**`TableSafe`, `HarmNeedsRace`** (`IOStartupProofs`): `InBounds`,
`NoneForgotten`, and `HarmedByRaceOnly`. `TableInv` says that no slot inside
the table is empty (`Filled`), what a thread knows after its lookup
(`Prepared`), that the kernel holds the context that has events and no other
(`KernelKnows`), and, as long as no resize has crossed another one, that
contexts in use are those in the table (`Orderly`). A resize that finds the
size its thread has measured makes the table larger, so nothing is dropped;
that is where `raced` comes in. The arithmetic is in `HalfMore`: half more than
a descriptor of at least two is past it, which is why the initial size must be
two or more.

**`StartupImplementsParts`** (`IOStartupProofs`): a behaviour of the
composition is one of `SpecStart` and one of `SpecTable`, because each of its
steps is a step of one and leaves the other unchanged, and the constructor
comes first (`TableFirst`). `StartupPool` and `StartupTable` carry the two
theorems over.

**`NoEventLeft`** (`IOStartupProofs`): `StopsClean`, for the composition. Only a
task registers an event, and a thread whose idle fiber has ended makes no new
one. `LastOneLooks` follows the threads that have not ended: when the idle fibers
of all of them have asked `Scheduler::stopping`, there was no task left; when
all have asked the count too, no event. `Retreat` says that threads begin with
an idle fiber that goes round and that it stops doing so only under `stop()`.
As in the IO manager, the two reads of one thread prove nothing; those of the
last one do.

**`LookupUnique`, `CallsUndisturbed`, `ListenersInformed`** (`ConfigProofs`):
from one inductive invariant, `ConfigInv`. `Locks` is mutual exclusion, of the
readers and writers of a variable and of the registry's writers: a lookup finds
a name unknown in one step and inserts it in a later one, and between them
another client may unlock the registry a second time, but none can begin or end
an insertion. `OwnIds` and `OwnFunctions` say that a variable's listeners have
ids and functions of their own; `Following` is the argument for `Informed`:
while nobody sets the variable each listener knows the value kept; while one
thread does, each knows the new value already or is among those still to be
called (`Waits`). **`IdsUnique`**: `ListenersKept` if each type has one
variable (`OneOfType`); `KeptInv` adds that no id given out is past the
counter, and that the counter a client has read is still the counter when it
writes it, which only the lock of the one variable of that type ensures.

**`LoadComplete`** (`ConfigProofs`): `Loaded`. `EntriesSay`, an induction over the
document, shows that what the document says last of a variable the flattened
entries say too. `LoadInv` follows the loop over them: what the document says of a
variable that only this thread sets, either the entries to come say, or they are
silent about it and the variable has that value, or is about to get it
(`Progress`, `Leads`, `Meant`). `Skip`, `SetBegin` and `Store` each take an entry
off that list, and `SaysHead` says what is lost with it; `Alone` says that no
other thread is setting a variable of `sole`.

**`ListTheorems`**. Induction here is on sets, not on predicates:
`SetInduction` says that a set of natural numbers which holds 0 and with `n`
also `n + 1` holds all of them, and follows from the well-foundedness of `<`.
`Iterates` gives the function a recursion defines, its step a function and not
an operator. A recursive definition `f[i \in S] == ...` is a choice among the
functions that satisfy its equation: `Iterates` shows that there is one, the
equation then holds, and `SetInduction` gives the type. That is how
`OnlyRounds`, `FlattenRounds` and `PiecesRead` come about. Models that are
proved about therefore use `Only`, a recursive function, and not `SelectSeq`.

Model-checked only: the liveness properties (`StopReturns`, `WokenIsResumed` and
those of the other modules), because fairness is out of the prover's reach.

## 5. What is not modelled

* In the scheduler: `dump`, `SchedulerSwitcher` (two calls of `switchTo`),
  destruction, contexts and stacks. `Scheduler` has one `start` and one `stop`;
  their repetition is in `ThreadStart`, for schedulers with threads of their own.
* In `ThreadStart` and `IOStartup`: entries for one thread, and fibers that park.
  An entry for a thread that has left keeps `stop()` from returning, which
  `CallsReturn` does not see; that is `NoOrphan` of `Scheduler` (finding 1).
* In threads: a failing `pthread_create` (it throws out of `start()`), a second
  `start()` of a scheduler that runs (it returns at once), ids the kernel gives
  out a second time, thread names.
* In the IO manager: which fiber an entry or an event belongs to (`Scheduler`
  has fibers), the pin a fiber loses by a READY yield included; the tickle pipe
  (every `epoll_wait` has timeout 0, so it wakes nobody), `epoll_ctl` failing
  for want of memory (the functions return before they change anything),
  descriptors closed while registered, more than 256 ready descriptors (the
  rest stays on the ready list), memory. Descriptors 0 and 1, for which `fd *
  1.5` would not be past the descriptor, are inside the table since its first
  size is 32 and no resize makes it smaller than that.
* In configuration: the preconditions of `Config` above; `Visit`,
  `getListener`, `toString`; a registry map read while it is changed, once the
  lock has been unlocked twice; keys that contain a point; the lexical casts
  other than that of a set. A formatter that is given but empty.
* In logging: `delAppender`, the map of loggers (every logger is there from the
  start; `getLogger` makes it as `Fresh`), appenders that several loggers share,
  levels of appenders (never read from a text, so they pass every line). The
  reopening of a file (log.cc:350) every three seconds of the events' time:
  what it loses is the file's content, which nothing here reads.
* Locks: initialisation, the guards' idempotent `lock` and `unlock`, `NullMutex`.
* Rendering of log lines, YAML conversion, sockets, backtraces: input, output
  and formatting without state of their own.

## 6. Plan

Done, in this order: `Scheduler` with `TaskPool`, since everything runs on it;
its proofs; `IOManager` with `EventHub`, which composes with it through the
abstraction described above; its proofs; `LogConfig`, where configuration and
logging meet, and its proofs; `ThreadStart` and `FdTable`, how threads and
contexts come about, their composition `IOStartup`, and the proofs of all
three; `Config` and its proofs; `LogPattern` and its proofs in
`LogConfigProofs`.

Next:

1. The definitions of loggers written back to text and read again.
2. Descriptors that are closed while they are registered, as an action of the
   environment of `IOManager`.
3. The scheduler as `IOManager` sees it (a list of the threads entries are for,
   threads that take one, find nothing, or put a READY fiber back) stated as an
   abstract specification of its own, and a proof that `Scheduler` implements
   it, as `SchedulerImplementsPool` does for `TaskPool`.
