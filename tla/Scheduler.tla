----------------------------- MODULE Scheduler -----------------------------
(***************************************************************************)
(* The N:M coroutine scheduler of sylar: Scheduler (scheduler.h/.cc) and   *)
(* the part of Fiber (fiber.h/.cc) it drives.  Several threads run the     *)
(* loop of Scheduler::run over one task list under m_mutex; the bodies of  *)
(* the fibers submit tasks, suspend, are woken and end; the thread that    *)
(* owns the scheduler calls start() and stop().                            *)
(*                                                                         *)
(* One action is one atomic section of the code: the locked pick, the part *)
(* of run() up to the context switch, one step of a fiber body, the        *)
(* decrement of m_activeThreadCount after the switch back, and the         *)
(* handling of the fiber's state after it are separate steps, because      *)
(* other threads run between them.                                         *)
(***************************************************************************)
EXTENDS Naturals, Sequences, SequencesExt, FiniteSets

CONSTANTS
    Workers,      \* the threads start() creates (m_threadCount of them)
    Caller,       \* the thread that owns the scheduler (m_rootThread)
    UseCaller,    \* the constructor's use_caller
    Fibers,       \* the fiber objects that may be created
    Jobs,         \* the functions submitted: each runs once, in some fiber
    Pins,         \* the thread arguments clients pass to schedule()
    AnyThread,    \* thread = -1
    None,         \* a null fiber or cb
    AllowReady,   \* whether the bodies call YieldToReady
    MaxWaits,     \* wake-ups one fiber may register for at a time
    MaxSuspends   \* bound: suspensions over the whole behaviour

Threads == Workers \cup (IF UseCaller THEN {Caller} ELSE {})

ASSUME ThreadsAssumption ==
    /\ IsFiniteSet(Workers)
    /\ Caller \notin Workers
    /\ UseCaller \in BOOLEAN
    /\ Threads # {}                       \* SYLAR_ASSERT(threads > 0)
ASSUME NamesAssumption ==
    /\ None \notin Fibers \cup Jobs
    /\ AnyThread \notin Threads
    /\ Pins \subseteq Threads \cup {AnyThread}
ASSUME BoundsAssumption ==
    /\ AllowReady \in BOOLEAN
    /\ MaxWaits \in Nat
    /\ MaxSuspends \in Nat

FiberState == {"INIT", "HOLD", "EXEC", "TERM", "READY", "EXCEPT"}
Entry ==
    {e \in [fiber : Fibers \cup {None}, cb : Jobs \cup {None},
            thread : Threads \cup {AnyThread}] :
       e.fiber = None \/ e.cb = None}
NoEntry == [fiber |-> None, cb |-> None, thread |-> AnyThread]
FiberEntry(f, p) == [fiber |-> f, cb |-> None, thread |-> p]
CbEntry(j, p) == [fiber |-> None, cb |-> j, thread |-> p]

VARIABLES
    queue,       \* m_fibers
    fstate,      \* Fiber::m_state; "FREE" before the object exists
    cbOf,        \* Fiber::m_cb
    active,      \* m_activeThreadCount
    idleCount,   \* m_idleThreadCount
    stopping,    \* m_stopping
    autoStop,    \* m_autoStop
    pc,          \* where each thread is in run()
    ft,          \* run()'s local ft
    cbFiber,     \* run()'s local cb_fiber
    idleTerm,    \* whether run()'s local idle_fiber is TERM
    owner,       \* where the owning thread is in its use of the scheduler
    waits,       \* wake-ups a fiber has registered for and not received
    suspends,    \* suspensions so far, bounded by MaxSuspends
    submitted,   \* history: the functions handed to schedule()
    finished,    \* history: the functions that returned or threw
    pin          \* history: the thread the last schedule() of a fiber named

poolVars == <<queue, fstate, cbOf, cbFiber>>
countVars == <<active, idleCount>>
stopVars == <<stopping, autoStop>>
threadVars == <<pc, ft, idleTerm>>
historyVars == <<submitted, finished, pin>>
clientVars == <<waits, suspends>>
vars == <<poolVars, countVars, stopVars, threadVars, owner, clientVars,
          historyVars>>

-----------------------------------------------------------------------------
(* What the thread's loop is doing.  A thread at "run" or "parking" is in  *)
(* the body of a fiber; at "parking" the body is bound to YieldToHold next.*)

InBody == {"run", "parking"}
Busy == {"dispatch", "swapped"} \cup InBody

PcValues == {"off", "pick", "idle", "settle", "exited"} \cup Busy

OwnerValues == {"setup", "up", "halting", "check", "calling", "join",
                "stopped"}

\* The fiber thread t is in: ft.fiber, or cb_fiber once ft has been reset.
Running(t) == IF ft[t].fiber # None THEN ft[t].fiber ELSE cbFiber[t]

JobOf(e) == IF e.fiber # None THEN cbOf[e.fiber] ELSE e.cb

Ended(f) == fstate[f] \in {"TERM", "EXCEPT"}

Init ==
    /\ queue = <<>>
    /\ fstate = [f \in Fibers |-> "FREE"]
    /\ cbOf = [f \in Fibers |-> None]
    /\ cbFiber = [t \in Threads |-> None]
    /\ active = 0 /\ idleCount = 0
    /\ stopping = TRUE /\ autoStop = FALSE
    /\ pc = [t \in Threads |-> "off"]
    /\ ft = [t \in Threads |-> NoEntry]
    /\ idleTerm = [t \in Threads |-> FALSE]
    /\ owner = "setup"
    /\ waits = [f \in Fibers |-> 0]
    /\ suspends = 0
    /\ submitted = {} /\ finished = {}
    /\ pin = [f \in Fibers |-> AnyThread]

-----------------------------------------------------------------------------
(* Putting tasks on the list: schedule() and its users.  Each takes        *)
(* m_mutex once.  tickle() only writes a log line in this class.           *)

Enqueue(entries) == queue' = queue \o entries

\* schedule(cb, p): a function that run() will put in its cb_fiber.
SubmitCb(j, p) ==
    /\ j \in Jobs \ submitted
    /\ Enqueue(<<CbEntry(j, p)>>)
    /\ submitted' = submitted \cup {j}
    /\ UNCHANGED <<fstate, cbOf, pin>>

\* schedule(Fiber::ptr(new Fiber(cb)), p).
SubmitFiber(j, p) ==
    /\ j \in Jobs \ submitted
    /\ \E f \in Fibers :
         /\ fstate[f] = "FREE"
         /\ fstate' = [fstate EXCEPT ![f] = "INIT"]
         /\ cbOf' = [cbOf EXCEPT ![f] = j]
         /\ pin' = [pin EXCEPT ![f] = p]
         /\ Enqueue(<<FiberEntry(f, p)>>)
    /\ submitted' = submitted \cup {j}

\* schedule(begin, end): the whole batch enters the list in one lock.
SubmitBatch(j, k) ==
    /\ {j, k} \subseteq Jobs \ submitted /\ j # k
    /\ Enqueue(<<CbEntry(j, AnyThread), CbEntry(k, AnyThread)>>)
    /\ submitted' = submitted \cup {j, k}
    /\ UNCHANGED <<fstate, cbOf, pin>>

\* Mutant: a wake-up of a fiber that has not parked yet is dropped.
WakeParkedOnly(f, p) ==
    /\ waits[f] > 0
    /\ waits' = [waits EXCEPT ![f] = @ - 1]
    /\ IF fstate[f] = "HOLD" THEN Enqueue(<<FiberEntry(f, p)>>)
                             ELSE UNCHANGED queue
    /\ pin' = [pin EXCEPT ![f] = p]
    /\ UNCHANGED <<fstate, cbOf, submitted>>

\* schedule(fiber, p) for a fiber that registered to be woken: what
\* IOManager::FdContext::triggerEvent does with the fiber it holds.
Wake(f, p) ==
    /\ waits[f] > 0
    /\ waits' = [waits EXCEPT ![f] = @ - 1]
    /\ Enqueue(<<FiberEntry(f, p)>>)
    /\ pin' = [pin EXCEPT ![f] = p]
    /\ UNCHANGED <<fstate, cbOf, submitted>>

Schedule ==
    \/ \E j \in Jobs, p \in Pins : SubmitCb(j, p) /\ UNCHANGED waits
    \/ \E j \in Jobs, p \in Pins : SubmitFiber(j, p) /\ UNCHANGED waits
    \/ \E j, k \in Jobs : SubmitBatch(j, k) /\ UNCHANGED waits
    \/ \E f \in Fibers, p \in Pins : Wake(f, p)

-----------------------------------------------------------------------------
(* The loop of Scheduler::run on thread t.                                 *)

\* Mutants: the scan forgets one of its tests.
EligibleIgnoringExec(t, e) == e.thread \in {AnyThread, t}
EligibleAnyThread(t, e) == e.fiber # None => fstate[e.fiber] # "EXEC"
EligibleUnparked(t, e) ==
    /\ e.thread \in {AnyThread, t}
    /\ e.fiber # None => fstate[e.fiber] \in {"INIT", "READY"}

\* The tests the scan of m_fibers makes on one entry.
Eligible(t, e) ==
    /\ e.thread \in {AnyThread, t}
    /\ e.fiber # None => fstate[e.fiber] # "EXEC"

\* Mutant: the entry is copied but not erased.
PickKeepsEntry(t) ==
    /\ pc[t] = "pick"
    /\ \E i \in DOMAIN queue :
         /\ Eligible(t, queue[i])
         /\ \A k \in 1..(i - 1) : ~Eligible(t, queue[k])
         /\ ft' = [ft EXCEPT ![t] = queue[i]]
    /\ active' = active + 1
    /\ pc' = [pc EXCEPT ![t] = "dispatch"]
    /\ UNCHANGED <<poolVars, idleCount, stopVars, idleTerm, owner,
                   clientVars, historyVars>>

\* The first eligible entry is taken off the list, and the thread counted
\* active, under one lock.
Pick(t) ==
    /\ pc[t] = "pick"
    /\ \E i \in DOMAIN queue :
         /\ Eligible(t, queue[i])
         /\ \A k \in 1..(i - 1) : ~Eligible(t, queue[k])
         /\ ft' = [ft EXCEPT ![t] = queue[i]]
         /\ queue' = RemoveAt(queue, i)
    /\ active' = active + 1
    /\ pc' = [pc EXCEPT ![t] = "dispatch"]
    /\ UNCHANGED <<fstate, cbOf, cbFiber, idleCount, stopVars, idleTerm,
                   owner, clientVars, historyVars>>

\* Mutant: m_idleThreadCount is not incremented.
PickNothingUncounted(t) ==
    /\ pc[t] = "pick"
    /\ \A i \in DOMAIN queue : ~Eligible(t, queue[i])
    /\ pc' = [pc EXCEPT ![t] = IF idleTerm[t] THEN "exited" ELSE "idle"]
    /\ UNCHANGED <<poolVars, countVars, stopVars, ft, idleTerm, owner,
                   clientVars, historyVars>>

\* The list held nothing for t: leave the loop if the idle fiber is TERM,
\* else switch to it.
PickNothing(t) ==
    /\ pc[t] = "pick"
    /\ \A i \in DOMAIN queue : ~Eligible(t, queue[i])
    /\ IF idleTerm[t]
         THEN /\ pc' = [pc EXCEPT ![t] = "exited"]
              /\ UNCHANGED idleCount
         ELSE /\ pc' = [pc EXCEPT ![t] = "idle"]
              /\ idleCount' = idleCount + 1
    /\ UNCHANGED <<poolVars, active, stopVars, ft, idleTerm, owner,
                   clientVars, historyVars>>

\* Mutant: m_activeThreadCount is not consulted.
StoppingIgnoresActive == autoStop /\ stopping /\ queue = <<>>

\* Scheduler::stopping(), evaluated under m_mutex.
Stopping == autoStop /\ stopping /\ queue = <<>> /\ active = 0

\* One pass of Scheduler::idle(): its fiber ends when stopping() holds and
\* yields otherwise; either way run() decrements m_idleThreadCount.
Idle(t) ==
    /\ pc[t] = "idle"
    /\ idleTerm' = [idleTerm EXCEPT ![t] = Stopping]
    /\ idleCount' = idleCount - 1
    /\ pc' = [pc EXCEPT ![t] = "pick"]
    /\ UNCHANGED <<poolVars, active, stopVars, ft, owner, clientVars,
                   historyVars>>

\* run() switches to the fiber it picked.  SwapInAssert below is the
\* assertion of swapIn().
DispatchFiber(t) ==
    LET f == ft[t].fiber IN
    /\ pc[t] = "dispatch"
    /\ f # None
    /\ ~Ended(f)
    /\ fstate[f] # "EXEC"
    /\ fstate' = [fstate EXCEPT ![f] = "EXEC"]
    /\ pc' = [pc EXCEPT ![t] = "run"]
    /\ UNCHANGED <<queue, cbOf, cbFiber, countVars, stopVars, ft, idleTerm,
                   owner, clientVars, historyVars>>

\* The fiber object that will carry a function: the thread's cb_fiber, reset
\* and used again, or a new one.
CarrierFor(t, f) ==
    IF cbFiber[t] # None THEN f = cbFiber[t] ELSE fstate[f] = "FREE"

\* run() switches to cb_fiber with the function it picked; ft is reset first.
DispatchCb(t) ==
    /\ pc[t] = "dispatch"
    /\ ft[t].cb # None
    /\ \E f \in Fibers :
         /\ CarrierFor(t, f)
         /\ fstate' = [fstate EXCEPT ![f] = "EXEC"]
         /\ cbOf' = [cbOf EXCEPT ![f] = ft[t].cb]
         /\ cbFiber' = [cbFiber EXCEPT ![t] = f]
         /\ pin' = [pin EXCEPT ![f] = ft[t].thread]
    /\ ft' = [ft EXCEPT ![t] = NoEntry]
    /\ pc' = [pc EXCEPT ![t] = "run"]
    /\ UNCHANGED <<queue, countVars, stopVars, idleTerm, owner, clientVars,
                   submitted, finished>>

\* Mutant: the entry is dropped but the thread stays counted as active.
DispatchEndedUncounted(t) ==
    /\ pc[t] = "dispatch"
    /\ ft[t].fiber # None /\ Ended(ft[t].fiber)
    /\ ft' = [ft EXCEPT ![t] = NoEntry]
    /\ pc' = [pc EXCEPT ![t] = "pick"]
    /\ UNCHANGED <<poolVars, countVars, stopVars, idleTerm, owner,
                   clientVars, historyVars>>

\* The entry's fiber ended before its turn came: the entry is dropped.
DispatchEnded(t) ==
    /\ pc[t] = "dispatch"
    /\ ft[t].fiber # None /\ Ended(ft[t].fiber)
    /\ active' = active - 1
    /\ ft' = [ft EXCEPT ![t] = NoEntry]
    /\ pc' = [pc EXCEPT ![t] = "pick"]
    /\ UNCHANGED <<poolVars, idleCount, stopVars, idleTerm, owner,
                   clientVars, historyVars>>

\* Mutant: the decrement is made for fibers but not for functions.
SwapBackFibersOnly(t) ==
    /\ pc[t] = "swapped"
    /\ active' = IF ft[t].fiber # None THEN active - 1 ELSE active
    /\ pc' = [pc EXCEPT ![t] = "settle"]
    /\ UNCHANGED <<poolVars, idleCount, stopVars, ft, idleTerm, owner,
                   clientVars, historyVars>>

\* Back from the switch: --m_activeThreadCount, outside the lock.
SwapBack(t) ==
    /\ pc[t] = "swapped"
    /\ active' = active - 1
    /\ pc' = [pc EXCEPT ![t] = "settle"]
    /\ UNCHANGED <<poolVars, idleCount, stopVars, ft, idleTerm, owner,
                   clientVars, historyVars>>

\* The pointers run() lets go of at the end of a round on t.
Release(t, keep) ==
    /\ ft' = [ft EXCEPT ![t] = NoEntry]
    /\ cbFiber' = IF ft[t].fiber = None /\ ~keep
                    THEN [cbFiber EXCEPT ![t] = None] ELSE cbFiber
    /\ pc' = [pc EXCEPT ![t] = "pick"]
    /\ UNCHANGED <<countVars, stopVars, idleTerm, owner, clientVars,
                   historyVars>>

\* Mutant: a READY fiber made by run() is let go without being scheduled.
SettleReadyDropsCb(t) ==
    LET f == Running(t) IN
    /\ pc[t] = "settle"
    /\ fstate[f] = "READY"
    /\ IF ft[t].fiber # None THEN Enqueue(<<FiberEntry(f, AnyThread)>>)
                             ELSE UNCHANGED queue
    /\ UNCHANGED <<fstate, cbOf>>
    /\ Release(t, FALSE)

\* The fiber yielded READY: it goes back on the list, for any thread.
SettleReady(t) ==
    LET f == Running(t) IN
    /\ pc[t] = "settle"
    /\ fstate[f] = "READY"
    /\ Enqueue(<<FiberEntry(f, AnyThread)>>)
    /\ UNCHANGED <<fstate, cbOf>>
    /\ Release(t, FALSE)

\* The fiber ended.  A fiber made by run() is reset to be used again.
SettleEnded(t) ==
    LET f == Running(t) IN
    /\ pc[t] = "settle"
    /\ Ended(f)
    /\ IF ft[t].fiber # None
         THEN UNCHANGED <<fstate, cbOf>>
         ELSE /\ fstate' = [fstate EXCEPT ![f] = "INIT"]
              /\ cbOf' = [cbOf EXCEPT ![f] = None]
    /\ UNCHANGED queue
    /\ Release(t, TRUE)

\* Any other state: the fiber is parked.
SettleHold(t) ==
    LET f == Running(t) IN
    /\ pc[t] = "settle"
    /\ fstate[f] # "READY" /\ ~Ended(f)
    /\ fstate' = [fstate EXCEPT ![f] = "HOLD"]
    /\ UNCHANGED <<queue, cbOf>>
    /\ Release(t, FALSE)

-----------------------------------------------------------------------------
(* The body of the fiber thread t is in.                                   *)

BodySchedule(t) ==
    /\ pc[t] = "run"
    /\ Schedule
    /\ UNCHANGED <<cbFiber, countVars, stopVars, threadVars, owner, suspends,
                   finished>>

\* The body hands its own fiber to whoever will wake it (addEvent, for one
\* event or several) and is about to YieldToHold; a wake-up may come before it
\* has done so, when its entry cannot be picked yet.
Register(t) ==
    LET f == Running(t) IN
    /\ pc[t] = "run"
    /\ suspends < MaxSuspends
    /\ \E n \in 1..MaxWaits :
         /\ waits[f] + n <= MaxWaits
         /\ waits' = [waits EXCEPT ![f] = @ + n]
    /\ suspends' = suspends + 1
    /\ pc' = [pc EXCEPT ![t] = "parking"]
    /\ UNCHANGED <<poolVars, countVars, stopVars, ft, idleTerm, owner,
                   historyVars>>

\* switchTo(p): the body schedules its own fiber on thread p, then
\* YieldToHold.  It returns at once when t already is that thread.
SwitchTo(t) ==
    LET f == Running(t) IN
    /\ pc[t] = "run"
    /\ suspends < MaxSuspends
    /\ \E p \in Pins \ {AnyThread, t} :
         /\ Enqueue(<<FiberEntry(f, p)>>)
         /\ pin' = [pin EXCEPT ![f] = p]
    /\ suspends' = suspends + 1
    /\ pc' = [pc EXCEPT ![t] = "parking"]
    /\ UNCHANGED <<fstate, cbOf, cbFiber, countVars, stopVars, ft, idleTerm,
                   owner, waits, submitted, finished>>

\* Mutant: HOLD is stored before the context switch.
YieldToHoldEarly(t) ==
    /\ pc[t] = "parking"
    /\ fstate' = [fstate EXCEPT ![Running(t)] = "HOLD"]
    /\ pc' = [pc EXCEPT ![t] = "swapped"]
    /\ UNCHANGED <<queue, cbOf, cbFiber, countVars, stopVars, ft, idleTerm,
                   owner, clientVars, historyVars>>

\* YieldToHold: m_state stays EXEC until run() has the thread back.
YieldToHold(t) ==
    /\ pc[t] = "parking"
    /\ pc' = [pc EXCEPT ![t] = "swapped"]
    /\ UNCHANGED <<poolVars, countVars, stopVars, ft, idleTerm, owner,
                   clientVars, historyVars>>

\* YieldToReady: READY is stored before the context switch.
YieldToReady(t) ==
    /\ AllowReady
    /\ pc[t] = "run"
    /\ suspends < MaxSuspends
    /\ suspends' = suspends + 1
    /\ fstate' = [fstate EXCEPT ![Running(t)] = "READY"]
    /\ pc' = [pc EXCEPT ![t] = "swapped"]
    /\ UNCHANGED <<queue, cbOf, cbFiber, countVars, stopVars, ft, idleTerm,
                   owner, waits, historyVars>>

\* MainFunc after the function returned, or threw.
Return(t) ==
    LET f == Running(t) IN
    /\ pc[t] = "run"
    /\ fstate' = [fstate EXCEPT ![f] = "TERM"]
    /\ cbOf' = [cbOf EXCEPT ![f] = None]
    /\ finished' = finished \cup {cbOf[f]}
    /\ pc' = [pc EXCEPT ![t] = "swapped"]
    /\ UNCHANGED <<queue, cbFiber, countVars, stopVars, ft, idleTerm, owner,
                   clientVars, submitted, pin>>

Throw(t) ==
    LET f == Running(t) IN
    /\ pc[t] = "run"
    /\ fstate' = [fstate EXCEPT ![f] = "EXCEPT"]
    /\ finished' = finished \cup {cbOf[f]}
    /\ pc' = [pc EXCEPT ![t] = "swapped"]
    /\ UNCHANGED <<queue, cbOf, cbFiber, countVars, stopVars, ft, idleTerm,
                   owner, clientVars, submitted, pin>>

-----------------------------------------------------------------------------
(* The thread that owns the scheduler.                                     *)

\* schedule() from outside, before stop().
OwnerSchedule ==
    /\ owner \in {"setup", "up"}
    /\ Schedule
    /\ UNCHANGED <<cbFiber, countVars, stopVars, threadVars, owner, suspends,
                   finished>>

\* start(): the threads it creates wait for m_mutex, which it holds.
Start ==
    /\ owner = "setup" /\ stopping
    /\ stopping' = FALSE
    /\ pc' = [t \in Threads |-> IF t \in Workers THEN "pick" ELSE pc[t]]
    /\ owner' = "up"
    /\ UNCHANGED <<poolVars, countVars, autoStop, ft, idleTerm, clientVars,
                   historyVars>>

\* Mutant: m_autoStop is not set.
StopBeginNoAutoStop ==
    /\ owner = "up"
    /\ owner' = "halting"
    /\ UNCHANGED <<poolVars, countVars, stopVars, threadVars, clientVars,
                   historyVars>>

\* stop() up to the assertions on GetThis(); with no worker and an unused
\* root fiber it may return at once.
StopBegin ==
    /\ owner = "up"
    /\ autoStop' = TRUE
    /\ IF UseCaller /\ Workers = {}
         THEN /\ stopping' = TRUE
              /\ owner' = IF queue = <<>> /\ active = 0
                            THEN "stopped" ELSE "halting"
         ELSE /\ UNCHANGED stopping
              /\ owner' = "halting"
    /\ UNCHANGED <<poolVars, countVars, threadVars, clientVars, historyVars>>

StopRequest ==
    /\ owner = "halting"
    /\ stopping' = TRUE
    /\ owner' = "check"
    /\ UNCHANGED <<poolVars, countVars, autoStop, threadVars, clientVars,
                   historyVars>>

\* The owner runs the loop itself, in the root fiber, when there is work.
StopCall ==
    /\ owner = "check"
    /\ IF UseCaller /\ ~Stopping
         THEN /\ owner' = "calling"
              /\ pc' = [pc EXCEPT ![Caller] = "pick"]
         ELSE /\ owner' = "join"
              /\ UNCHANGED pc
    /\ UNCHANGED <<poolVars, countVars, stopVars, ft, idleTerm, clientVars,
                   historyVars>>

\* The root fiber ended: call() returns.
StopResume ==
    /\ owner = "calling" /\ pc[Caller] = "exited"
    /\ owner' = "join"
    /\ UNCHANGED <<poolVars, countVars, stopVars, threadVars, clientVars,
                   historyVars>>

\* Every thread of the pool has been joined.
StopJoin ==
    /\ owner = "join"
    /\ \A t \in Workers : pc[t] = "exited"
    /\ owner' = "stopped"
    /\ UNCHANGED <<poolVars, countVars, stopVars, threadVars, clientVars,
                   historyVars>>

\* The owner is done with the scheduler: nothing moves any more.
Stopped == owner = "stopped" /\ UNCHANGED vars

-----------------------------------------------------------------------------
RunLoop(t) ==
    \/ Pick(t) \/ PickNothing(t) \/ Idle(t)
    \/ DispatchFiber(t) \/ DispatchCb(t) \/ DispatchEnded(t)
    \/ SwapBack(t)
    \/ SettleReady(t) \/ SettleEnded(t) \/ SettleHold(t)

Body(t) ==
    \/ BodySchedule(t) \/ Register(t) \/ SwitchTo(t)
    \/ YieldToHold(t) \/ YieldToReady(t) \/ Return(t) \/ Throw(t)

OwnerStops == StopBegin \/ StopRequest \/ StopCall \/ StopResume \/ StopJoin

Next ==
    \/ \E t \in Threads : RunLoop(t) \/ Body(t)
    \/ OwnerSchedule \/ Start \/ OwnerStops
    \/ Stopped

Spec == Init /\ [][Next]_vars

\* A thread of the pool keeps being scheduled by the kernel and the body it
\* is in goes on; once stop() is called the owner goes on with it.
Fairness ==
    /\ \A t \in Threads : WF_vars(RunLoop(t) \/ Body(t))
    /\ WF_vars(StopRequest \/ StopCall \/ StopResume \/ StopJoin)

FairSpec == Spec /\ Fairness
-----------------------------------------------------------------------------
(* Properties.                                                             *)

TypeOK ==
    /\ queue \in Seq(Entry)
    /\ fstate \in [Fibers -> FiberState \cup {"FREE"}]
    /\ cbOf \in [Fibers -> Jobs \cup {None}]
    /\ cbFiber \in [Threads -> Fibers \cup {None}]
    /\ active \in Nat /\ idleCount \in Nat
    /\ stopping \in BOOLEAN /\ autoStop \in BOOLEAN
    /\ pc \in [Threads -> PcValues]
    /\ ft \in [Threads -> Entry]
    /\ idleTerm \in [Threads -> BOOLEAN]
    /\ owner \in OwnerValues
    /\ waits \in [Fibers -> Nat]
    /\ suspends \in Nat
    /\ submitted \subseteq Jobs /\ finished \subseteq Jobs \cup {None}
    /\ pin \in [Fibers -> Threads \cup {AnyThread}]

At(S) == {t \in Threads : pc[t] \in S}

\* The two counters that stopping() and IOManager::tickle() read are exact:
\* m_activeThreadCount counts the threads that hold a task between the locked
\* pick and the decrement after the switch back, on every path of run(), and
\* m_idleThreadCount those in their idle fiber.  A path that forgets one of
\* them keeps the pool from ever stopping, or stops it early.
CountersExact ==
    /\ active = Cardinality(At(Busy))
    /\ idleCount = Cardinality(At({"idle"}))

OnFiber == InBody \cup {"swapped", "settle"}

\* No fiber is being executed, or being put away, by two threads.  The
\* fiber's context is saved into one object, so two threads in it would run
\* on one stack.
OneRunner ==
    \A t, u \in At(OnFiber) : Running(t) = Running(u) => t = u

\* The assertion in Fiber::swapIn: a thread about to switch to a fiber finds
\* it not executing.  run() tests EXEC under m_mutex but swapIn() stores EXEC
\* after the lock is gone.
SwapInAssert ==
    \A t \in At({"dispatch"}) :
        ft[t].fiber # None => fstate[ft[t].fiber] # "EXEC"

Queued(f) == \E i \in DOMAIN queue : queue[i].fiber = f
PickedUp(f) == \E t \in At({"dispatch"}) : ft[t].fiber = f

\* A parked fiber is still known to somebody: a wake-up is registered for it,
\* or has been sent and is on the list or in a thread's hands.  A fiber whose
\* wake-up came between its registration and its parking would otherwise be
\* lost (and ~Fiber would find it in HOLD).
ParkedIsReachable ==
    \A f \in Fibers :
        fstate[f] = "HOLD" => waits[f] > 0 \/ Queued(f) \/ PickedUp(f)

\* The threads that will not look at the list again.
Gone(t) ==
    \/ pc[t] = "exited"
    \/ t = Caller /\ owner \in {"join", "stopped"}

\* No task waits for a thread that has left its loop: stopping() let it go
\* only when all tasks were done, so none that only it may run can follow.
NoOrphan ==
    \A i \in DOMAIN queue :
        queue[i].thread # AnyThread => ~Gone(queue[i].thread)

\* A fiber runs on the thread the schedule() call that made it runnable
\* named, if it named one.
PinRespected ==
    \A t \in At({"run"}) : pin[Running(t)] \in {AnyThread, t}

\* Once stopping() has been true it stays true: a thread may leave on the
\* strength of it although others are still in their loops.
StoppingIsFinal == [][Stopping => Stopping']_vars

\* The status of a function as a user of the pool sees it.
Carries(f, j) == cbOf[f] = j /\ fstate[f] # "FREE"
JobRunning(j) == \E t \in At(InBody) : cbOf[Running(t)] = j
JobReady(j) ==
    \/ \E i \in DOMAIN queue : JobOf(queue[i]) = j
    \/ \E t \in At({"dispatch"}) : JobOf(ft[t]) = j
    \/ \E f \in Fibers : Carries(f, j) /\ fstate[f] = "READY"
JobParked(j) ==
    \E f \in Fibers : Carries(f, j) /\ fstate[f] \in {"EXEC", "HOLD"}

JobStatus(j) ==
    CASE j \notin submitted -> "new"
      [] j \in finished     -> IF JobRunning(j) THEN "again" ELSE "done"
      [] j \in submitted \ finished ->
           IF JobRunning(j) THEN "running"
           ELSE IF JobReady(j) THEN "ready"
           ELSE IF JobParked(j) THEN "parked" ELSE "lost"

Pool == INSTANCE TaskPool WITH
            Capacity <- Cardinality(Threads),
            status <- [j \in Jobs |-> JobStatus(j)],
            halted <- owner = "stopped"

\* The scheduler implements the abstract pool: no function is lost, run
\* twice, run by two threads or run after it finished, and stop() returns
\* only when none can run.
ImplementsPool == Pool!PoolSpec

\* stop() returns: every thread, the owner's own included, finds its way out
\* of the loop.
StopReturns == (owner = "halting") ~> (owner = "stopped")

\* A fiber that was woken while parked is resumed, whatever the other fibers
\* do and wherever it stands in the list.
WokenIsResumed ==
    \A f \in Fibers :
        (fstate[f] = "HOLD" /\ Queued(f)) ~> (fstate[f] = "EXEC")
=============================================================================
