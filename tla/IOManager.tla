----------------------------- MODULE IOManager -----------------------------
(***************************************************************************)
(* The IO manager (iomanager.h/.cc): a Scheduler whose idle threads poll   *)
(* an epoll instance and turn ready events into tasks.  Tasks register for *)
(* the READ and WRITE events of file descriptors, delete and cancel them.  *)
(*                                                                         *)
(* The base class is taken at what module Scheduler shows of it: of an     *)
(* entry of its list the thread it is for is kept, m_activeThreadCount is  *)
(* the number of threads in a task.  The kernel's epoll instance is        *)
(* modelled from its use here: edge triggered, a change of the interest    *)
(* set arms it again.  epoll_wait never blocks, because idle() always      *)
(* calls it with timeout 0; so the tickle pipe wakes nobody and is left    *)
(* out.                                                                    *)
(*                                                                         *)
(* What is done under an FdContext's mutex is split where others can see   *)
(* it: schedule() and the decrement of m_pendingEventCount after it.       *)
(***************************************************************************)
EXTENDS Naturals, Sequences, SequencesExt, FiniteSets

CONSTANTS
    Threads,        \* the threads of the pool
    AnyThread,      \* thread = -1
    Pins,           \* the thread arguments clients pass to schedule()
    Fds,            \* file descriptors with an FdContext
    Events,         \* the events used, of READ and WRITE
    NoFd,           \* no descriptor
    MaxTasks,       \* bound: tasks handed to schedule() by clients
    MaxYields,      \* bound: calls of YieldToReady
    MaxAdds,        \* bound: successful calls of addEvent
    MaxArrivals     \* bound: times a descriptor becomes ready

ASSUME PoolAssumption ==
    /\ IsFiniteSet(Threads) /\ Threads # {}
    /\ AnyThread \notin Threads
    /\ Pins \subseteq Threads \cup {AnyThread}
ASSUME EventsAssumption ==
    /\ IsFiniteSet(Fds) /\ NoFd \notin Fds
    /\ Events \subseteq {"READ", "WRITE"}
ASSUME BoundsAssumption ==
    /\ MaxTasks \in Nat /\ MaxYields \in Nat
    /\ MaxAdds \in Nat /\ MaxArrivals \in Nat

Signals == Events \cup {"HUP"}      \* EPOLLIN, EPOLLOUT, EPOLLERR | EPOLLHUP

VARIABLES
    events,     \* FdContext::events
    ctx,        \* the events whose EventContext is set
    pending,    \* m_pendingEventCount
    queue,      \* the scheduler's m_fibers: the thread each entry is for
    pc,         \* where each thread is
    idleTerm,   \* whether the thread's idle fiber has ended
    got,        \* the events array of idle(): what epoll_wait reported
    fd,         \* the descriptor whose mutex the thread holds
    todo,       \* the events it is to trigger there
    back,       \* where it goes on afterwards
    owner,      \* the owner: "up", in stop(), or done with it
    interest,   \* kernel: the events registered with epoll
    level,      \* kernel: what the descriptor is ready for
    edge,       \* kernel: the descriptor is on epoll's ready list
    hasty,      \* history: a thread found the base class stopping while
                \* another was about to put a READY fiber back on the list
    made, yields, adds, arrivals    \* counters of the bounds

fdVars == <<events, ctx, pending>>
threadVars == <<pc, idleTerm, got, fd, todo, back>>
kernelVars == <<interest, level, edge>>
boundVars == <<made, yields, adds, arrivals>>
noteVars == <<hasty, boundVars>>
vars == <<fdVars, queue, threadVars, owner, kernelVars, noteVars>>

Holding == {"trigger", "count"}
PcValues == {"pick", "ask", "askPending", "wait", "handle", "task", "settle",
             "requeue", "exited"} \cup Holding

At(S) == {t \in Threads : pc[t] \in S}
Unlocked(f) == \A t \in At(Holding) : fd[t] # f

\* The threads m_activeThreadCount counts: those in the code of a task.
Active ==
    {t \in Threads : \/ pc[t] = "task"
                     \/ pc[t] \in Holding /\ back[t] = "task"}

\* The threads whose fiber may be EXEC: it is until run() has stored HOLD.
Executing == Active \cup At({"settle"})

Goto(t, place) == pc' = [pc EXCEPT ![t] = place]

Init ==
    /\ events = [f \in Fds |-> {}] /\ ctx = [f \in Fds |-> {}]
    /\ pending = 0 /\ queue = <<>>
    /\ pc = [t \in Threads |-> "pick"]
    /\ idleTerm = [t \in Threads |-> FALSE]
    /\ got = [t \in Threads |-> [f \in Fds |-> {}]]
    /\ fd = [t \in Threads |-> NoFd]
    /\ todo = [t \in Threads |-> {}]
    /\ back = [t \in Threads |-> "task"]
    /\ owner = "up"
    /\ interest = [f \in Fds |-> {}] /\ level = [f \in Fds |-> {}]
    /\ edge = [f \in Fds |-> FALSE]
    /\ hasty = FALSE
    /\ made = 0 /\ yields = 0 /\ adds = 0 /\ arrivals = 0

-----------------------------------------------------------------------------
(* The kernel.                                                             *)

\* What epoll reports of f to a process interested in S.
Report(f, S) == level[f] \cap (S \cup {"HUP"})

\* EPOLL_CTL_ADD, MOD or DEL: the events registered for f become S.
EpollCtl(f, S) ==
    /\ interest' = [interest EXCEPT ![f] = S]
    /\ edge' = [edge EXCEPT ![f] = S # {} /\ Report(f, S) # {}]
    /\ UNCHANGED level

\* Data or space arrives at f, or its peer hangs up.
Arrive(f, s) ==
    /\ arrivals < MaxArrivals
    /\ arrivals' = arrivals + 1
    /\ level' = [level EXCEPT ![f] = @ \cup {s}]
    /\ edge' = [edge EXCEPT ![f] =
                  @ \/ (interest[f] # {} /\ s \in interest[f] \cup {"HUP"})]
    /\ UNCHANGED <<fdVars, queue, threadVars, owner, interest, hasty, made,
                   yields, adds>>

-----------------------------------------------------------------------------
(* The threads' loop, Scheduler::run, and IOManager::idle.                 *)

For(t, p) == p \in {AnyThread, t}

\* The first entry for t is taken, and the thread counted active.  A fiber
\* woken before it has parked is passed over while it executes elsewhere.
Pick(t) ==
    /\ pc[t] = "pick"
    /\ \E i \in DOMAIN queue :
         /\ For(t, queue[i])
         /\ (\A k \in 1..(i - 1) : ~For(t, queue[k])) \/ Executing # {}
         /\ queue' = RemoveAt(queue, i)
    /\ Goto(t, "task")
    /\ UNCHANGED <<fdVars, idleTerm, got, fd, todo, back, owner, kernelVars,
                   noteVars>>

\* Nothing for t on the list, or only fibers that still execute elsewhere:
\* leave the loop if the idle fiber has ended, else switch to it.
PickNothing(t) ==
    /\ pc[t] = "pick"
    /\ (\A i \in DOMAIN queue : ~For(t, queue[i])) \/ Executing # {}
    /\ Goto(t, IF idleTerm[t] THEN "exited" ELSE "ask")
    /\ UNCHANGED <<fdVars, queue, idleTerm, got, fd, todo, back, owner,
                   kernelVars, noteVars>>

\* Scheduler::stopping(), under the scheduler's mutex.
SchedulerStopping == owner # "up" /\ queue = <<>> /\ Active = {}

\* stopping() is evaluated in two steps: the base class's, then the count.
AskScheduler(t) ==
    /\ pc[t] = "ask"
    /\ Goto(t, IF SchedulerStopping THEN "askPending" ELSE "wait")
    /\ hasty' = (hasty \/ (SchedulerStopping /\ At({"requeue"}) # {}))
    /\ UNCHANGED <<fdVars, queue, idleTerm, got, fd, todo, back, owner,
                   kernelVars, boundVars>>

\* Mutant: m_pendingEventCount is not consulted.
AskPendingNot(t) ==
    /\ pc[t] = "askPending"
    /\ idleTerm' = [idleTerm EXCEPT ![t] = TRUE]
    /\ Goto(t, "pick")
    /\ UNCHANGED <<fdVars, queue, got, fd, todo, back, owner, kernelVars,
                   noteVars>>

AskPending(t) ==
    /\ pc[t] = "askPending"
    /\ idleTerm' = [idleTerm EXCEPT ![t] = pending = 0]
    /\ Goto(t, IF pending = 0 THEN "pick" ELSE "wait")
    /\ UNCHANGED <<fdVars, queue, got, fd, todo, back, owner, kernelVars,
                   noteVars>>

\* epoll_wait with timeout 0: takes what is on the ready list.
EpollWait(t) ==
    /\ pc[t] = "wait"
    /\ got' = [got EXCEPT ![t] =
                 [f \in Fds |->
                    IF edge[f] THEN Report(f, interest[f]) ELSE {}]]
    /\ edge' = [f \in Fds |-> FALSE]
    /\ Goto(t, "handle")
    /\ UNCHANGED <<fdVars, queue, idleTerm, fd, todo, back, owner, interest,
                   level, noteVars>>

\* Mutant: a hang-up stands for both events, registered or not.
RealAnyHup(t, f) ==
    (got[t][f] \cap Events) \cup (IF "HUP" \in got[t][f] THEN Events ELSE {})

\* real_events: an error or a hang-up stands for every event registered.
Real(t, f) ==
    (got[t][f] \cap Events)
        \cup (IF "HUP" \in got[t][f] THEN events[f] ELSE {})

Handled(t, f) == got' = [got EXCEPT ![t][f] = {}]

\* Others have dealt with the events that were reported.
HandleStale(t) ==
    /\ pc[t] = "handle"
    /\ \E f \in Fds :
         /\ got[t][f] # {} /\ Unlocked(f)
         /\ events[f] \cap Real(t, f) = {}
         /\ Handled(t, f)
    /\ UNCHANGED <<fdVars, queue, pc, idleTerm, fd, todo, back, owner,
                   kernelVars, noteVars>>

\* Mutant: the events left over are not registered again.
HandleReadyForgetsRest(t) ==
    /\ pc[t] = "handle"
    /\ \E f \in Fds :
         /\ got[t][f] # {} /\ Unlocked(f)
         /\ events[f] \cap Real(t, f) # {}
         /\ EpollCtl(f, {})
         /\ Handled(t, f)
         /\ fd' = [fd EXCEPT ![t] = f]
         /\ todo' = [todo EXCEPT ![t] = Real(t, f)]
    /\ back' = [back EXCEPT ![t] = "handle"]
    /\ Goto(t, "trigger")
    /\ UNCHANGED <<fdVars, queue, idleTerm, owner, noteVars>>

\* One reported descriptor: what is left stays registered, the rest is to
\* be triggered.
HandleReady(t) ==
    /\ pc[t] = "handle"
    /\ \E f \in Fds :
         /\ got[t][f] # {} /\ Unlocked(f)
         /\ events[f] \cap Real(t, f) # {}
         /\ EpollCtl(f, events[f] \ Real(t, f))
         /\ Handled(t, f)
         /\ fd' = [fd EXCEPT ![t] = f]
         /\ todo' = [todo EXCEPT ![t] = Real(t, f)]
    /\ back' = [back EXCEPT ![t] = "handle"]
    /\ Goto(t, "trigger")
    /\ UNCHANGED <<fdVars, queue, idleTerm, owner, noteVars>>

\* The idle fiber yields when the events array is dealt with.
IdleYield(t) ==
    /\ pc[t] = "handle"
    /\ \A f \in Fds : got[t][f] = {}
    /\ Goto(t, "pick")
    /\ UNCHANGED <<fdVars, queue, idleTerm, got, fd, todo, back, owner,
                   kernelVars, noteVars>>

\* The event a thread triggers next: READ before WRITE.
First(t) == IF "READ" \in todo[t] THEN "READ" ELSE "WRITE"

\* triggerEvent: the waiting fiber or callback goes on the list and the
\* EventContext is empty again.  TriggerAssert below is its assertion.
Trigger(t) ==
    /\ pc[t] = "trigger"
    /\ First(t) \in events[fd[t]]
    /\ events' = [events EXCEPT ![fd[t]] = @ \ {First(t)}]
    /\ ctx' = [ctx EXCEPT ![fd[t]] = @ \ {First(t)}]
    /\ queue' = Append(queue, AnyThread)
    /\ Goto(t, "count")
    /\ UNCHANGED <<pending, idleTerm, got, fd, todo, back, owner, kernelVars,
                   noteVars>>

\* One event is done with; after the last the mutex is released.
NextTrigger(t) ==
    LET rest == todo[t] \ {First(t)} IN
    /\ todo' = [todo EXCEPT ![t] = rest]
    /\ IF rest # {}
         THEN Goto(t, "trigger") /\ UNCHANGED <<fd, back>>
         ELSE /\ Goto(t, back[t])
              /\ fd' = [fd EXCEPT ![t] = NoFd]
              /\ back' = [back EXCEPT ![t] = "task"]

\* Mutant: the count is left alone.
CountOmitted(t) ==
    /\ pc[t] = "count"
    /\ NextTrigger(t)
    /\ UNCHANGED <<fdVars, queue, idleTerm, got, owner, kernelVars,
                   noteVars>>

\* --m_pendingEventCount, after schedule() has released the list.
Count(t) ==
    /\ pc[t] = "count"
    /\ pending' = pending - 1
    /\ NextTrigger(t)
    /\ UNCHANGED <<events, ctx, queue, idleTerm, got, owner, kernelVars,
                   noteVars>>

-----------------------------------------------------------------------------
(* A task: what the code of a fiber or a callback does on thread t.        *)

\* Mutant: the event is not counted.
AddEventUncounted(t, f, e) ==
    /\ pc[t] = "task" /\ Unlocked(f)
    /\ adds < MaxAdds
    /\ e \notin events[f]
    /\ adds' = adds + 1
    /\ EpollCtl(f, events[f] \cup {e})
    /\ events' = [events EXCEPT ![f] = @ \cup {e}]
    /\ ctx' = [ctx EXCEPT ![f] = @ \cup {e}]
    /\ UNCHANGED <<pending, queue, threadVars, owner, hasty, made, yields,
                   arrivals>>

\* addEvent, when epoll_ctl succeeds (a failure changes nothing).
AddEvent(t, f, e) ==
    /\ pc[t] = "task" /\ Unlocked(f)
    /\ adds < MaxAdds
    /\ e \notin events[f]
    /\ adds' = adds + 1
    /\ EpollCtl(f, events[f] \cup {e})
    /\ pending' = pending + 1
    /\ events' = [events EXCEPT ![f] = @ \cup {e}]
    /\ ctx' = [ctx EXCEPT ![f] = @ \cup {e}]
    /\ UNCHANGED <<queue, threadVars, owner, hasty, made, yields, arrivals>>

\* Mutant: the event stays registered with epoll.
DelEventKeepsInterest(t, f, e) ==
    /\ pc[t] = "task" /\ Unlocked(f)
    /\ e \in events[f]
    /\ pending' = pending - 1
    /\ events' = [events EXCEPT ![f] = @ \ {e}]
    /\ ctx' = [ctx EXCEPT ![f] = @ \ {e}]
    /\ UNCHANGED <<queue, threadVars, owner, kernelVars, noteVars>>

\* delEvent: the event is withdrawn, nothing is triggered.
DelEvent(t, f, e) ==
    /\ pc[t] = "task" /\ Unlocked(f)
    /\ e \in events[f]
    /\ EpollCtl(f, events[f] \ {e})
    /\ pending' = pending - 1
    /\ events' = [events EXCEPT ![f] = @ \ {e}]
    /\ ctx' = [ctx EXCEPT ![f] = @ \ {e}]
    /\ UNCHANGED <<queue, threadVars, owner, noteVars>>

\* cancelEvent (S is one event) and cancelAll (all of f's): no longer
\* registered, and triggered.
CancelSet(t, f, S) ==
    /\ pc[t] = "task" /\ Unlocked(f)
    /\ S # {} /\ S \subseteq events[f]
    /\ EpollCtl(f, events[f] \ S)
    /\ fd' = [fd EXCEPT ![t] = f]
    /\ todo' = [todo EXCEPT ![t] = S]
    /\ back' = [back EXCEPT ![t] = "task"]
    /\ Goto(t, "trigger")
    /\ UNCHANGED <<fdVars, queue, idleTerm, got, owner, noteVars>>

CancelEvent(t, f, e) == CancelSet(t, f, {e})
CancelAll(t, f) == CancelSet(t, f, events[f])

\* The task reads or writes until the descriptor would block.
Consume(t, f, e) ==
    /\ pc[t] = "task"
    /\ e \in level[f]
    /\ level' = [level EXCEPT ![f] = @ \ {e}]
    /\ UNCHANGED <<fdVars, queue, threadVars, owner, interest, edge,
                   noteVars>>

\* A client's schedule().
Schedule(p) ==
    /\ made < MaxTasks
    /\ made' = made + 1
    /\ queue' = Append(queue, p)
    /\ UNCHANGED <<hasty, yields, adds, arrivals>>

\* schedule() of something else, or of the fiber itself for another thread
\* (switchTo, which then parks).
TaskSchedules(t) ==
    /\ pc[t] = "task"
    /\ \E p \in Pins : Schedule(p)
    /\ UNCHANGED <<fdVars, threadVars, owner, kernelVars>>

\* The task ends or parks: run() has the thread back and has decremented
\* m_activeThreadCount.
EndTask(t) ==
    /\ pc[t] = "task"
    /\ Goto(t, "settle")
    /\ UNCHANGED <<fdVars, queue, idleTerm, got, fd, todo, back, owner,
                   kernelVars, noteVars>>

\* The fiber's state is set (HOLD, or INIT of a cb_fiber used again).
Settle(t) ==
    /\ pc[t] = "settle"
    /\ Goto(t, "pick")
    /\ UNCHANGED <<fdVars, queue, idleTerm, got, fd, todo, back, owner,
                   kernelVars, noteVars>>

\* The task yields READY: m_activeThreadCount is decremented before the
\* fiber is on the list again.
YieldReady(t) ==
    /\ pc[t] = "task" /\ yields < MaxYields
    /\ yields' = yields + 1
    /\ Goto(t, "requeue")
    /\ UNCHANGED <<fdVars, queue, idleTerm, got, fd, todo, back, owner,
                   kernelVars, hasty, made, adds, arrivals>>

\* The READY fiber goes back on the list, for any thread.
Requeue(t) ==
    /\ pc[t] = "requeue"
    /\ queue' = Append(queue, AnyThread)
    /\ Goto(t, "pick")
    /\ UNCHANGED <<fdVars, idleTerm, got, fd, todo, back, owner, kernelVars,
                   noteVars>>

-----------------------------------------------------------------------------
(* The owner: schedules tasks, then destroys the manager (stop()).         *)

OwnerSchedules ==
    /\ owner = "up"
    /\ \E p \in Pins : Schedule(p)
    /\ UNCHANGED <<fdVars, threadVars, owner, kernelVars>>

StopBegin ==
    /\ owner = "up"
    /\ owner' = "stopping"
    /\ UNCHANGED <<fdVars, queue, threadVars, kernelVars, noteVars>>

\* Mutant: stop() does not join its threads.
StopJoinNobody ==
    /\ owner = "stopping"
    /\ owner' = "joined"
    /\ UNCHANGED <<fdVars, queue, threadVars, kernelVars, noteVars>>

StopJoin ==
    /\ owner = "stopping"
    /\ \A t \in Threads : pc[t] = "exited"
    /\ owner' = "joined"
    /\ UNCHANGED <<fdVars, queue, threadVars, kernelVars, noteVars>>

Joined == owner = "joined" /\ UNCHANGED vars

-----------------------------------------------------------------------------
RunLoop(t) == Pick(t) \/ PickNothing(t) \/ Settle(t) \/ Requeue(t)
IdleLoop(t) ==
    \/ AskScheduler(t) \/ AskPending(t) \/ EpollWait(t)
    \/ HandleStale(t) \/ HandleReady(t) \/ IdleYield(t)
Triggers(t) == Trigger(t) \/ Count(t)
Task(t) ==
    \/ TaskSchedules(t) \/ EndTask(t) \/ YieldReady(t)
    \/ \E f \in Fds : CancelAll(t, f)
    \/ \E f \in Fds, e \in Events :
         AddEvent(t, f, e) \/ DelEvent(t, f, e) \/ CancelEvent(t, f, e)
         \/ Consume(t, f, e)

ThreadStep(t) == RunLoop(t) \/ IdleLoop(t) \/ Triggers(t) \/ Task(t)

Next ==
    \/ \E t \in Threads : ThreadStep(t)
    \/ \E f \in Fds, s \in Signals : Arrive(f, s)
    \/ OwnerSchedules \/ StopBegin \/ StopJoin \/ Joined

Spec == Init /\ [][Next]_vars

\* The kernel keeps scheduling every thread; stop() goes on once called.
FairSpec ==
    Spec /\ (\A t \in Threads : WF_vars(ThreadStep(t))) /\ WF_vars(StopJoin)
-----------------------------------------------------------------------------
(* Properties.                                                             *)

TypeOK ==
    /\ events \in [Fds -> SUBSET Events] /\ ctx \in [Fds -> SUBSET Events]
    /\ pending \in Nat
    /\ queue \in Seq(Threads \cup {AnyThread})
    /\ pc \in [Threads -> PcValues]
    /\ idleTerm \in [Threads -> BOOLEAN]
    /\ got \in [Threads -> [Fds -> SUBSET Signals]]
    /\ fd \in [Threads -> Fds \cup {NoFd}]
    /\ todo \in [Threads -> SUBSET Events]
    /\ back \in [Threads -> {"task", "handle"}]
    /\ owner \in {"up", "stopping", "joined"}
    /\ interest \in [Fds -> SUBSET Events]
    /\ level \in [Fds -> SUBSET Signals]
    /\ edge \in [Fds -> BOOLEAN]
    /\ hasty \in BOOLEAN
    /\ made \in Nat /\ yields \in Nat /\ adds \in Nat /\ arrivals \in Nat

Armed == {s \in Fds \X Events : s[2] \in events[s[1]]}

\* m_pendingEventCount is the number of events registered, plus the threads
\* between a schedule() and the decrement that belongs to it.  One decrement
\* too few and stop() never returns, one too many and the size_t wraps.
PendingExact == pending = Cardinality(Armed) + Cardinality(At({"count"}))

\* The three records of a descriptor's events agree whenever its mutex is
\* free: FdContext::events, the EventContexts (the assertion of addEvent),
\* and what epoll has registered.
ContextsInSync ==
    \A f \in Fds :
        Unlocked(f) => events[f] = ctx[f] /\ events[f] = interest[f]

\* The assertion of triggerEvent: the event it is told to trigger is
\* registered.
TriggerAssert ==
    \A t \in At({"trigger"}) : First(t) \in events[fd[t]]

AllGone == \A t \in Threads : pc[t] = "exited"

\* A thread leaves the pool only when there is nothing left to do: no task
\* on the list, none running, no event anybody waits for.
ExitMeansDone ==
    (\E t \in Threads : pc[t] = "exited") =>
        queue = <<>> /\ Active = {} /\ Armed = {}

\* The last thread does not leave work behind: when all have left, the list
\* is empty and no event is registered.  The exception is the moment before
\* a READY fiber is on the list again: a thread that takes the base class to
\* be stopping just then can make stop() return with an event registered.
WorkHasThread == AllGone /\ ~hasty => queue = <<>> /\ Armed = {}

Hub == INSTANCE EventHub WITH
           Slots <- Fds \X Events,
           armed <- Armed,
           tasks <- Len(queue) + Cardinality(Active)
                      + Cardinality(At({"requeue"})),
           excused <- hasty,
           closed <- owner = "joined"

\* The manager implements the abstract hub.
ImplementsHub == Hub!HubSpec

\* An event that has occurred reaches whoever waits for it, unless it is
\* withdrawn or its data is consumed by another task.
EventDelivered ==
    \A f \in Fds, e \in Events :
        (e \in events[f] /\ e \in level[f])
            ~> (e \notin events[f] \/ e \notin level[f])

\* stop() returns, unless somebody waits for an event that does not occur.
StopReturns ==
    (owner = "stopping")
        ~> (owner = "joined" \/ \E s \in Armed : s[2] \notin level[s[1]])
=============================================================================
