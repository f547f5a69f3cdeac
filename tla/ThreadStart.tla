---------------------------- MODULE ThreadStart ----------------------------
(***************************************************************************)
(* How a scheduler gets its threads and gives them back: Thread            *)
(* (thread.h/.cc), its semaphore and the locks (mutex.h/.cc), and          *)
(* Scheduler::start and the last part of stop (scheduler.cc).              *)
(*                                                                         *)
(* start() holds m_mutex for all of its loop and waits, inside each        *)
(* Thread's constructor, until the new thread has stored its id.  stop()   *)
(* takes the Thread objects, joins each and destroys them.                 *)
(*                                                                         *)
(* Of what the threads do in between, the tasks are only counted: entries  *)
(* for one thread, and fibers that park, are Scheduler's and IOManager's   *)
(* matter.  stopping() is virtual: Answer has room for what a class below  *)
(* asks for besides.  The names end in "Start" where a composing module    *)
(* has names of its own.                                                   *)
(***************************************************************************)
EXTENDS Naturals, Sequences, SequencesExt, FiniteSets

CONSTANTS
    Count,        \* m_threadCount
    MaxStarts     \* bound: how often the threads are started

ASSUME StartAssumption == Count \in Nat /\ MaxStarts \in Nat

\* The Thread objects in the order of their creation; the kernel's id of the
\* thread of object t is t.  (It may in truth be that of one that has ended.)
Objects == 1..(Count * MaxStarts)
NoId == 0         \* m_id = -1

\* Where a thread is; "requeue" is between yielding READY and schedule().
Places == {"none", "born", "stored", "ready", "working", "requeue", "ended"}

VARIABLES
    call,         \* where the owner is in start() or stop()
    created,      \* Thread objects created so far
    alive,        \* those that have not been destroyed
    threads,      \* m_threads
    threadIds,    \* m_threadIds
    thrs,         \* stop()'s local thrs
    joined,       \* how many of them have been joined
    stopping,     \* m_stopping
    autoStop,     \* m_autoStop
    place,        \* where each thread is
    mid,          \* Thread::m_id
    sem,          \* Thread::m_semaphore
    idle,         \* each thread's idle fiber: it goes round ("on"), has been
                  \* told to stop by Scheduler::stopping, or has ended
    tasks,        \* tasks on the list
    hasty         \* history: stopping() was true while a task that had
                  \* yielded was not yet back on the list

ownerVars == <<call, created, alive, threads, threadIds, thrs, joined>>
flagVars == <<stopping, autoStop>>
objectVars == <<place, mid, sem>>
idleVars == <<idle, hasty>>
workVars == <<idleVars, tasks>>
startVars == <<ownerVars, flagVars, objectVars, workVars>>

InitStart ==
    /\ call = "rest" /\ created = 0 /\ alive = {}
    /\ threads = <<>> /\ threadIds = <<>> /\ thrs = <<>> /\ joined = 0
    /\ stopping = TRUE /\ autoStop = FALSE
    /\ place = [t \in Objects |-> "none"]
    /\ mid = [t \in Objects |-> NoId]
    /\ sem = [t \in Objects |-> 0]
    /\ idle = [t \in Objects |-> "on"]
    /\ tasks = 0 /\ hasty = FALSE

-----------------------------------------------------------------------------
(* The owner.                                                              *)

\* start() holds m_mutex.
Locked == call \in {"create", "collect"}

\* The threads with a task, and with one that has yielded READY.
Working == {t \in Objects : place[t] = "working"}
Yielding == {t \in Objects : place[t] = "requeue"}

\* schedule(): n entries under m_mutex.
Schedule(n) ==
    /\ ~Locked
    /\ tasks' = tasks + n
    /\ UNCHANGED <<ownerVars, flagVars, objectVars, idleVars>>

\* The owner submits a task, also before start().
Submit == call = "rest" /\ Schedule(1)

\* start() up to its loop; a scheduler that runs already is left alone.
StartCall ==
    /\ call = "rest" /\ stopping
    /\ created + Count <= Count * MaxStarts
    /\ stopping' = FALSE
    /\ call' = IF Count = 0 THEN "rest" ELSE "create"
    /\ UNCHANGED <<created, alive, threads, threadIds, thrs, joined,
                   autoStop, objectVars, workVars>>

\* Thread::Thread up to the wait: pthread_create has started the thread.
Create ==
    /\ call = "create"
    /\ created' = created + 1
    /\ alive' = alive \cup {created'}
    /\ place' = [place EXCEPT ![created'] = "born"]
    /\ call' = "collect"
    /\ UNCHANGED <<threads, threadIds, thrs, joined, flagVars, mid, sem,
                   workVars>>

\* Semaphore::wait and notify.
SemWait(t) == sem[t] > 0 /\ sem' = [sem EXCEPT ![t] = @ - 1]
SemNotify(t) == sem' = [sem EXCEPT ![t] = @ + 1]

Collected ==
    /\ threads' = Append(threads, created)
    /\ threadIds' = Append(threadIds, mid[created])
    /\ call' = IF Len(threads') = Count THEN "rest" ELSE "create"

\* Mutant: the constructor does not wait.
CollectAtOnce ==
    /\ call = "collect"
    /\ sem' = [sem EXCEPT ![created] = IF @ = 0 THEN 0 ELSE @ - 1]
    /\ Collected
    /\ UNCHANGED <<created, alive, thrs, joined, flagVars, place, mid,
                   workVars>>

\* The rest of the constructor, once the semaphore has been posted, and of
\* the pass of start()'s loop.
Collect ==
    /\ call = "collect" /\ SemWait(created)
    /\ Collected
    /\ UNCHANGED <<created, alive, thrs, joined, flagVars, place, mid,
                   workVars>>

\* Mutant: m_autoStop is not set.
StopCallHalf ==
    /\ call = "rest"
    /\ stopping' = TRUE
    /\ thrs' = threads /\ threads' = <<>>
    /\ call' = "join"
    /\ UNCHANGED <<created, alive, threadIds, joined, autoStop, objectVars,
                   workVars>>

\* stop() up to the join of the threads.  (What the root fiber does before
\* is modelled in Scheduler.)
StopCall ==
    /\ call = "rest"
    /\ autoStop' = TRUE /\ stopping' = TRUE
    /\ thrs' = threads /\ threads' = <<>>
    /\ call' = "join"
    /\ UNCHANGED <<created, alive, threadIds, joined, objectVars, workVars>>

\* Thread::join of the next one.
Join ==
    /\ call = "join" /\ joined < Len(thrs)
    /\ place[thrs[joined + 1]] = "ended"
    /\ joined' = joined + 1
    /\ UNCHANGED <<call, created, alive, threads, threadIds, thrs, flagVars,
                   objectVars, workVars>>

\* Mutant: stop() returns without having joined them all.
StopReturnEarly ==
    /\ call = "join"
    /\ alive' = alive \ Range(thrs)
    /\ thrs' = <<>> /\ joined' = 0
    /\ call' = "rest"
    /\ UNCHANGED <<created, threads, threadIds, flagVars, objectVars,
                   workVars>>

\* stop() returns: the Thread objects in thrs are destroyed.
StopReturn ==
    /\ call = "join" /\ joined = Len(thrs)
    /\ alive' = alive \ Range(thrs)
    /\ thrs' = <<>> /\ joined' = 0
    /\ call' = "rest"
    /\ UNCHANGED <<created, threads, threadIds, flagVars, objectVars,
                   workVars>>

-----------------------------------------------------------------------------
(* A thread: Thread::run and, as its function, Scheduler::run.             *)

MoveTo(t, p) == place' = [place EXCEPT ![t] = p]

StoreId(t) ==
    /\ place[t] = "born"
    /\ mid' = [mid EXCEPT ![t] = t]
    /\ MoveTo(t, "stored")
    /\ UNCHANGED <<ownerVars, flagVars, sem, workVars>>

\* m_cb is swapped out of the object and the semaphore posted.
Notify(t) ==
    /\ place[t] = "stored"
    /\ SemNotify(t)
    /\ MoveTo(t, "ready")
    /\ UNCHANGED <<ownerVars, flagVars, mid, workVars>>

\* Mutant: run() does not lock the list.
TakeTaskUnlocked(t) ==
    /\ place[t] = "ready" /\ idle[t] # "asked" /\ tasks > 0
    /\ tasks' = tasks - 1
    /\ MoveTo(t, "working")
    /\ UNCHANGED <<ownerVars, flagVars, mid, sem, idleVars>>

\* run() takes a task under m_mutex, also when its idle fiber has ended.
TakeTask(t) ==
    /\ place[t] = "ready" /\ idle[t] # "asked" /\ tasks > 0 /\ ~Locked
    /\ tasks' = tasks - 1
    /\ MoveTo(t, "working")
    /\ UNCHANGED <<ownerVars, flagVars, mid, sem, idleVars>>

\* A task is over, or parks: m_activeThreadCount goes down.
FinishTask(t) ==
    /\ place[t] = "working"
    /\ MoveTo(t, "ready")
    /\ UNCHANGED <<ownerVars, flagVars, mid, sem, workVars>>

\* A task yields READY: the count goes down, and only then is the fiber put
\* back on the list.
YieldReady(t) ==
    /\ place[t] = "working"
    /\ MoveTo(t, "requeue")
    /\ UNCHANGED <<ownerVars, flagVars, mid, sem, workVars>>
Requeue(t) ==
    /\ place[t] = "requeue" /\ ~Locked
    /\ MoveTo(t, "ready")
    /\ tasks' = tasks + 1
    /\ UNCHANGED <<ownerVars, flagVars, mid, sem, idleVars>>

\* Scheduler::stopping: the flags, the list and m_activeThreadCount.
Stopping ==
    stopping /\ autoStop /\ tasks = 0 /\ Working = {}

TurnIdle(t, how) ==
    /\ idle' = [idle EXCEPT ![t] = how]
    /\ UNCHANGED <<ownerVars, flagVars, objectVars, tasks>>

\* run() finds nothing; its idle fiber asks Scheduler::stopping.
Idle(t) ==
    /\ place[t] = "ready" /\ idle[t] = "on" /\ tasks = 0 /\ ~Locked
    /\ TurnIdle(t, IF Stopping THEN "asked" ELSE "on")
    /\ hasty' = (hasty \/ (Stopping /\ Yielding # {}))

\* The idle fiber ends, if whatever a class below asks for is true as well.
Answer(t, also) ==
    /\ idle[t] = "asked"
    /\ TurnIdle(t, IF also THEN "over" ELSE "on")
    /\ UNCHANGED hasty

\* run() finds nothing and its idle fiber has ended.
Leave(t) ==
    /\ place[t] = "ready" /\ idle[t] = "over" /\ tasks = 0 /\ ~Locked
    /\ MoveTo(t, "ended")
    /\ UNCHANGED <<ownerVars, flagVars, mid, sem, workVars>>

-----------------------------------------------------------------------------
OwnerStep == Create \/ Collect \/ Join \/ StopReturn
RunStep(t) ==
    \/ StoreId(t) \/ Notify(t) \/ TakeTask(t) \/ Requeue(t)
    \/ Idle(t) \/ Leave(t)
TaskStep(t) == FinishTask(t) \/ YieldReady(t)
ThreadStep(t) ==
    \/ RunStep(t) \/ TaskStep(t)
    \/ \E also \in BOOLEAN : Answer(t, also)

\* Tasks, and the idle fibers of a class below, schedule as well.
NextStart ==
    \/ Submit \/ StartCall \/ StopCall \/ OwnerStep
    \/ \E t \in Objects : ThreadStep(t)
    \/ \E n \in Nat : Schedule(n)

SpecStart == InitStart /\ [][NextStart]_startVars

\* Calls and threads that have begun go on.
FairStart ==
    /\ WF_startVars(OwnerStep)
    /\ \A t \in Objects : WF_startVars(ThreadStep(t))

-----------------------------------------------------------------------------
(* Properties.                                                             *)

TypeStart ==
    /\ call \in {"rest", "create", "collect", "join"}
    /\ created \in Nat /\ joined \in 0..Len(thrs)
    /\ alive \subseteq Objects
    /\ threads \in Seq(Objects) /\ thrs \in Seq(Objects)
    /\ threadIds \in Seq(Objects \cup {NoId})
    /\ stopping \in BOOLEAN /\ autoStop \in BOOLEAN
    /\ place \in [Objects -> Places]
    /\ mid \in [Objects -> Objects \cup {NoId}]
    /\ sem \in [Objects -> Nat]
    /\ idle \in [Objects -> {"on", "asked", "over"}]
    /\ tasks \in Nat /\ hasty \in BOOLEAN

\* start() reads a thread's id only after the thread has stored it: each id
\* it lists is that of the thread it has just created.
IdsExact == \A i \in DOMAIN threadIds : threadIds[i] = i

\* A task runs only when start() has listed every thread: the list a task
\* looks at (dump) never grows under it.
ListComplete ==
    Working # {} => Len(threadIds) = created

\* A Thread object is destroyed only when its thread has ended: no thread
\* posts a semaphore, or takes a function, that is gone.
DestroyedEnded == \A t \in 1..created : t \in alive \/ place[t] = "ended"

=============================================================================
