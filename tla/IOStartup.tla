----------------------------- MODULE IOStartup -----------------------------
(***************************************************************************)
(* The IOManager as it comes up and goes down: its constructor sizes the   *)
(* table of contexts and only then calls start(); the tasks of the threads *)
(* ThreadStart brings up use the table of FdTable; an event that occurs or *)
(* is cancelled becomes a task; a thread leaves when nothing is left to do *)
(* and no event is registered; the destructor calls stop() again.          *)
(***************************************************************************)
EXTENDS ThreadStart, FdTable

CONSTANT MaxTasks     \* bound: tasks that wait, run, or are to come with an
                      \* event that is registered or being added

ASSUME StartupAssumption == Threads = Objects /\ MaxTasks \in Nat

vars == <<startVars, tableVars>>

Init == InitStart /\ InitEmpty

\* IOManager::IOManager: contextResize, then start(); only then is there an
\* object to call.
Constructed == size # 0
Started == ~stopping \/ autoStop

Adding == {t \in Threads : args[t].op = "add"}
HasRoom == tasks + Cardinality(Working \cup Yielding)
              + Cardinality(events) + Cardinality(Adding) < MaxTasks

\* The owner's steps and the threads', but for those of a task.
Managing ==
    /\ Constructed
    /\ \/ Started /\ ((Submit /\ HasRoom) \/ StopCall)
       \/ StartCall \/ OwnerStep
       \/ \E t \in Objects : RunStep(t)
    /\ UNCHANGED tableVars

\* Mutant: the count of events is not asked.
AskPendingNot(t) == Answer(t, TRUE) /\ UNCHANGED tableVars

\* IOManager::stopping, once Scheduler::stopping has said yes: is
\* m_pendingEventCount 0?  It counts the registered events, those of contexts
\* that the table has dropped included.
AskPending(t) == Answer(t, events = {}) /\ UNCHANGED tableVars

\* cancelEvent and cancelAll schedule what they take; delEvent, which names
\* one event, does not.
Removing(t) ==
    /\ RemoveEvent(t)
    /\ \/ Schedule(Cardinality(Removed(t)))
       \/ Cardinality(args[t].evs) = 1 /\ UNCHANGED startVars

\* A task makes one step of a call, or is over, or yields between its calls.
Tasking(t) ==
    /\ place[t] = "working"
    /\ \/ LookUp(t) /\ (t \in Adding' => HasRoom) /\ UNCHANGED startVars
       \/ (Grow(t) \/ AddEvent(t)) /\ UNCHANGED startVars
       \/ Removing(t)
       \/ step[t] = "free" /\ TaskStep(t) /\ UNCHANGED tableVars

\* The idle fiber of a thread is told of events and schedules what waits for
\* them.
Polling(fd, evs) ==
    /\ \E t \in Objects : place[t] = "ready" /\ idle[t] = "on"
    /\ Trigger(fd, evs)
    /\ Schedule(Cardinality(evs))

Next ==
    \/ Construct /\ UNCHANGED startVars
    \/ Managing
    \/ \E t \in Objects : AskPending(t) \/ Tasking(t)
    \/ \E fd \in Fds, evs \in SUBSET Events : Polling(fd, evs)

Spec == Init /\ [][Next]_vars

\* The owner's calls and the threads go on; a task ends, or yields.
FairSpec ==
    /\ Spec
    /\ WF_startVars(OwnerStep)
    /\ \A t \in Objects : WF_startVars(ThreadStep(t))

-----------------------------------------------------------------------------
\* What may keep the threads from leaving: an event is registered, or a task
\* has yielded READY.
KeptGoing == events # {} \/ Yielding # {}

\* start() returns: the thread it waits for needs nothing start() holds.
\* stop() returns, unless events are registered, or tasks yield, for ever:
\* every thread leaves, although the flags, the list and the two counts are
\* read at different moments.
CallsReturn ==
    /\ call \in {"create", "collect"} ~> call = "rest"
    /\ call = "join" ~> (call = "rest" \/ KeptGoing)

\* When stop() returns no event is registered, not even with a context that
\* the table has dropped: nobody would be left to run what waits for it.  (A
\* task that yields READY while stop() is under way can spoil this.)
StopsClean ==
    call = "join" /\ joined = Len(thrs) /\ ~hasty => events = {}
=============================================================================
