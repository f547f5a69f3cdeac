-------------------------- MODULE IOManagerProofs --------------------------
(***************************************************************************)
(* Theorems about IOManager, for every number of threads and descriptors.  *)
(* First the records of the registered events agree and the pending count  *)
(* is exact, then nobody leaves the pool while it has work, then the       *)
(* manager implements the abstract hub.                                    *)
(***************************************************************************)
EXTENDS IOManager, FiniteSetTheorems, SequenceTheorems, TLAPS

-----------------------------------------------------------------------------
(* Types.                                                                  *)

\* What RemoveAt, the erase() of the pick, makes of the list.
LEMMA RemoveAtLength ==
  ASSUME NEW S, NEW s \in Seq(S), NEW i \in DOMAIN s
  PROVE  /\ RemoveAt(s, i) \in Seq(S)
         /\ Len(RemoveAt(s, i)) = Len(s) - 1
  <1> DEFINE a == SubSeq(s, 1, i - 1)
             b == SubSeq(s, i + 1, Len(s))
  <1>1. Len(s) \in Nat /\ i \in 1..Len(s)
    OBVIOUS
  <1>2. a \in Seq(S) /\ Len(a) = i - 1 /\ b \in Seq(S) /\ Len(b) = Len(s) - i
    BY <1>1
  <1>3. RemoveAt(s, i) = a \o b
    BY DEF RemoveAt
  <1> HIDE DEF a, b
  <1>4. a \o b \in Seq(S) /\ Len(a \o b) = Len(a) + Len(b)
    BY <1>2, ConcatProperties
  <1> QED BY <1>1, <1>2, <1>3, <1>4

\* Initially every variable has its type.
LEMMA InitType == Init => TypeOK
  <1> SUFFICES ASSUME Init PROVE TypeOK
    OBVIOUS
  <1>1. queue \in Seq(Threads \cup {AnyThread})
    BY DEF Init
  <1> QED BY <1>1 DEF Init, TypeOK, PcValues, Holding

\* What the thread's loop does keeps the types.
LEMMA LoopType ==
  ASSUME TypeOK, NEW t \in Threads, RunLoop(t) \/ IdleLoop(t)
  PROVE  TypeOK'
  <1>1. CASE Pick(t)
    <2>1. queue' \in Seq(Threads \cup {AnyThread})
      BY <1>1, RemoveAtLength DEF Pick, TypeOK
    <2> QED BY <1>1, <2>1 DEF Pick, Goto, TypeOK, PcValues, fdVars,
                              kernelVars, noteVars, boundVars
  <1>2. CASE PickNothing(t)
    BY <1>2 DEF PickNothing, Goto, TypeOK, PcValues, fdVars, kernelVars,
                noteVars, boundVars
  <1>3. CASE AskScheduler(t)
    BY <1>3 DEF AskScheduler, Goto, TypeOK, PcValues, Holding, fdVars,
                kernelVars, noteVars, boundVars
  <1>4. CASE AskPending(t)
    BY <1>4 DEF AskPending, Goto, TypeOK, PcValues, fdVars, kernelVars,
                noteVars, boundVars
  <1>5. CASE EpollWait(t)
    <2>1. \A f \in Fds : (IF edge[f] THEN Report(f, interest[f]) ELSE {})
                           \in SUBSET Signals
      BY DEF Report, Signals, TypeOK
    <2>2. got' \in [Threads -> [Fds -> SUBSET Signals]]
      BY <1>5, <2>1 DEF EpollWait, TypeOK
    <2> QED BY <1>5, <2>2 DEF EpollWait, Goto, TypeOK, PcValues, fdVars,
                              noteVars, boundVars
  <1>6. CASE HandleStale(t)
    BY <1>6 DEF HandleStale, Handled, TypeOK, fdVars, kernelVars, noteVars,
                boundVars
  <1>7. CASE HandleReady(t)
    <2>1. PICK f \in Fds :
            /\ EpollCtl(f, events[f] \ Real(t, f))
            /\ Handled(t, f)
            /\ fd' = [fd EXCEPT ![t] = f]
            /\ todo' = [todo EXCEPT ![t] = Real(t, f)]
      BY <1>7 DEF HandleReady
    <2>2. Real(t, f) \subseteq Events
      BY DEF Real, TypeOK
    <2>3. interest' \in [Fds -> SUBSET Events] /\ edge' \in [Fds -> BOOLEAN]
          /\ level' = level
      BY <2>1, <2>2 DEF EpollCtl, TypeOK
    <2>4. got' \in [Threads -> [Fds -> SUBSET Signals]]
      BY <2>1 DEF Handled, TypeOK
    <2> QED
      BY <1>7, <2>1, <2>2, <2>3, <2>4
         DEF HandleReady, Goto, TypeOK, PcValues, Holding, fdVars, noteVars,
             boundVars
  <1>8. CASE IdleYield(t)
    BY <1>8 DEF IdleYield, Goto, TypeOK, PcValues, fdVars, kernelVars,
                noteVars, boundVars
  <1>9. CASE Settle(t) \/ Requeue(t)
    <2>1. queue' \in Seq(Threads \cup {AnyThread})
      BY <1>9 DEF Settle, Requeue, TypeOK
    <2>2. pc' \in [Threads -> PcValues]
      BY <1>9 DEF Settle, Requeue, Goto, TypeOK, PcValues
    <2> QED BY <1>9, <2>1, <2>2 DEF Settle, Requeue, TypeOK, fdVars,
                                    kernelVars, noteVars, boundVars
  <1> QED BY <1>1, <1>2, <1>3, <1>4, <1>5, <1>6, <1>7, <1>8, <1>9
             DEF RunLoop, IdleLoop

\* Triggering an event keeps the types, if a count is there to decrement.
LEMMA TriggerType ==
  ASSUME TypeOK, NEW t \in Threads, Triggers(t),
         pc[t] = "count" => pending # 0
  PROVE  TypeOK'
  <1>1. CASE Trigger(t)
    <2>1. ASSUME NEW g \in [Fds -> SUBSET Events]
          PROVE  [g EXCEPT ![fd[t]] = @ \ {First(t)}]
                   \in [Fds -> SUBSET Events]
      OBVIOUS
    <2>2. events' \in [Fds -> SUBSET Events] /\ ctx' \in [Fds -> SUBSET Events]
      BY <1>1, <2>1 DEF Trigger, TypeOK
    <2> QED BY <1>1, <2>2 DEF Trigger, Goto, TypeOK, PcValues, Holding,
                              kernelVars, noteVars, boundVars
  <1>2. CASE Count(t)
    <2>1. pending' \in Nat
      BY <1>2 DEF Count, TypeOK
    <2>2. CASE todo[t] \ {First(t)} # {}
      BY <1>2, <2>1, <2>2 DEF Count, NextTrigger, Goto, TypeOK, PcValues,
                              Holding, kernelVars, noteVars, boundVars
    <2>3. CASE todo[t] \ {First(t)} = {}
      BY <1>2, <2>1, <2>3 DEF Count, NextTrigger, Goto, TypeOK, PcValues,
                              Holding, kernelVars, noteVars, boundVars
    <2> QED BY <2>2, <2>3
  <1> QED BY <1>1, <1>2 DEF Triggers

\* A client's schedule() keeps the types of the list and the counters.
LEMMA ScheduleType ==
  ASSUME TypeOK, NEW p \in Pins, Schedule(p)
  PROVE  /\ queue' \in Seq(Threads \cup {AnyThread})
         /\ Len(queue') = Len(queue) + 1
         /\ hasty' \in BOOLEAN /\ made' \in Nat /\ yields' \in Nat
         /\ adds' \in Nat /\ arrivals' \in Nat
  BY PoolAssumption DEF Schedule, TypeOK

\* What a task does keeps the types, if the events it deletes are counted.
LEMMA TaskType ==
  ASSUME TypeOK, NEW t \in Threads, Task(t), Armed # {} => pending # 0
  PROVE  TypeOK'
  <1>1. CASE TaskSchedules(t)
    BY <1>1, ScheduleType DEF TaskSchedules, TypeOK, fdVars, threadVars,
                              kernelVars
  <1>2. CASE EndTask(t) \/ YieldReady(t)
    <2>1. pc' \in [Threads -> PcValues]
      BY <1>2 DEF EndTask, YieldReady, Goto, TypeOK, PcValues
    <2>2. yields' \in Nat
      BY <1>2 DEF EndTask, YieldReady, TypeOK, noteVars, boundVars
    <2> QED BY <1>2, <2>1, <2>2 DEF EndTask, YieldReady, TypeOK, fdVars,
                                    kernelVars, noteVars, boundVars
  <1>3. ASSUME NEW f \in Fds, CancelAll(t, f)
        PROVE  TypeOK'
    BY <1>3 DEF CancelAll, CancelSet, EpollCtl, Goto, TypeOK, PcValues,
                Holding, fdVars, noteVars, boundVars
  <1>4. ASSUME NEW f \in Fds, NEW e \in Events, AddEvent(t, f, e)
        PROVE  TypeOK'
    BY <1>4, BoundsAssumption
       DEF AddEvent, EpollCtl, TypeOK, threadVars
  <1>5. ASSUME NEW f \in Fds, NEW e \in Events, DelEvent(t, f, e)
        PROVE  TypeOK'
    <2>1. <<f, e>> \in Armed
      BY <1>5 DEF DelEvent, Armed
    <2>2. pending' \in Nat
      BY <1>5, <2>1 DEF DelEvent, TypeOK
    <2> QED BY <1>5, <2>2 DEF DelEvent, EpollCtl, TypeOK, threadVars,
                              noteVars, boundVars
  <1>6. ASSUME NEW f \in Fds, NEW e \in Events, CancelEvent(t, f, e)
        PROVE  TypeOK'
    BY <1>6 DEF CancelEvent, CancelSet, EpollCtl, Goto, TypeOK, PcValues,
                Holding, fdVars, noteVars, boundVars
  <1>7. ASSUME NEW f \in Fds, NEW e \in Events, Consume(t, f, e)
        PROVE  TypeOK'
    BY <1>7 DEF Consume, TypeOK, fdVars, threadVars, noteVars, boundVars
  <1> QED BY <1>1, <1>2, <1>3, <1>4, <1>5, <1>6, <1>7 DEF Task

\* What the kernel and the owner do keeps the types.
LEMMA OutsideType ==
  ASSUME TypeOK,
         \/ \E f \in Fds, s \in Signals : Arrive(f, s)
         \/ OwnerSchedules \/ StopBegin \/ StopJoin \/ Joined
         \/ UNCHANGED vars
  PROVE  TypeOK'
  <1>1. ASSUME NEW f \in Fds, NEW s \in Signals, Arrive(f, s)
        PROVE  TypeOK'
    BY <1>1, BoundsAssumption DEF Arrive, TypeOK, fdVars, threadVars
  <1>2. CASE OwnerSchedules
    BY <1>2, ScheduleType DEF OwnerSchedules, TypeOK, fdVars, threadVars,
                              kernelVars
  <1>3. CASE StopBegin \/ StopJoin
    BY <1>3 DEF StopBegin, StopJoin, TypeOK, fdVars, threadVars, kernelVars,
                noteVars, boundVars
  <1>4. CASE UNCHANGED vars
    BY <1>4 DEF vars, TypeOK, fdVars, threadVars, kernelVars, noteVars,
                boundVars
  <1> QED BY <1>1, <1>2, <1>3, <1>4 DEF Joined

-----------------------------------------------------------------------------
(* The records of the events.  While a thread holds a descriptor's mutex   *)
(* the events it is to trigger are no longer registered with epoll.        *)

Mutex == \A t, u \in At(Holding) : fd[t] = fd[u] => t = u

HeldInSync ==
    \A t \in At(Holding) :
        /\ fd[t] \in Fds /\ todo[t] # {}
        /\ interest[fd[t]] = events[fd[t]] \ todo[t]

CountDone == \A t \in At({"count"}) : First(t) \notin events[fd[t]]

SyncInv ==
    /\ TypeOK /\ PendingExact /\ ContextsInSync
    /\ Mutex /\ HeldInSync /\ CountDone
    /\ events = ctx

\* There are finitely many slots; what registering and removing one does to
\* their number.
LEMMA ArmedStep ==
  ASSUME TypeOK, NEW f \in Fds, NEW e \in Events
  PROVE  /\ IsFiniteSet(Armed) /\ Cardinality(Armed) \in Nat
         /\ e \notin events[f] /\ events' = [events EXCEPT ![f] = @ \cup {e}]
              => Cardinality(Armed') = Cardinality(Armed) + 1
         /\ e \in events[f] /\ events' = [events EXCEPT ![f] = @ \ {e}]
              => /\ Cardinality(Armed') = Cardinality(Armed) - 1
                 /\ Cardinality(Armed) # 0
  <1>1. IsFiniteSet(Fds \X Events)
    <2>1. IsFiniteSet({"READ", "WRITE"})
      BY FS_EmptySet, FS_AddElement, IsFiniteSet({} \cup {"READ"}),
         ({} \cup {"READ"}) \cup {"WRITE"} = {"READ", "WRITE"}
    <2>2. IsFiniteSet(Events)
      BY <2>1, EventsAssumption, FS_Subset
    <2> QED BY <2>2, EventsAssumption, FS_Product
  <1>2. IsFiniteSet(Armed) /\ Cardinality(Armed) \in Nat
    BY <1>1, FS_Subset, FS_CardinalityType DEF Armed
  <1>3. ASSUME e \notin events[f],
               events' = [events EXCEPT ![f] = @ \cup {e}]
        PROVE  Cardinality(Armed') = Cardinality(Armed) + 1
    <2>1. Armed' = Armed \cup {<<f, e>>} /\ <<f, e>> \notin Armed
      BY <1>3 DEF Armed, TypeOK
    <2> QED BY <2>1, <1>2, FS_AddElement
  <1>4. ASSUME e \in events[f],
               events' = [events EXCEPT ![f] = @ \ {e}]
        PROVE  /\ Cardinality(Armed') = Cardinality(Armed) - 1
               /\ Cardinality(Armed) # 0
    <2>1. Armed' = Armed \ {<<f, e>>} /\ <<f, e>> \in Armed
      BY <1>4 DEF Armed, TypeOK
    <2> QED BY <2>1, <1>2, FS_RemoveElement, FS_EmptySet
  <1> QED BY <1>2, <1>3, <1>4

\* What a step of one thread does to the set of threads at some places.
LEMMA AtStep ==
  ASSUME TypeOK, NEW S, NEW t \in Threads, NEW v, Goto(t, v)
  PROVE  /\ IsFiniteSet(At(S)) /\ Cardinality(At(S)) \in Nat
         /\ (pc[t] \in S <=> v \in S) => At(S)' = At(S)
         /\ pc[t] \notin S /\ v \in S
              => Cardinality(At(S)') = Cardinality(At(S)) + 1
         /\ pc[t] \in S /\ v \notin S
              => /\ Cardinality(At(S)') = Cardinality(At(S)) - 1
                 /\ Cardinality(At(S)) # 0
  <1>1. pc' = [pc EXCEPT ![t] = v] /\ pc \in [Threads -> PcValues]
    BY DEF Goto, TypeOK
  <1>2. IsFiniteSet(At(S)) /\ Cardinality(At(S)) \in Nat
    BY PoolAssumption, FS_Subset, FS_CardinalityType DEF At
  <1>3. ASSUME pc[t] \in S <=> v \in S PROVE At(S)' = At(S)
    BY <1>1, <1>3 DEF At
  <1>4. ASSUME pc[t] \notin S, v \in S
        PROVE  Cardinality(At(S)') = Cardinality(At(S)) + 1
    <2>1. At(S)' = At(S) \cup {t} /\ t \notin At(S)
      BY <1>1, <1>4 DEF At
    <2> QED BY <2>1, <1>2, FS_AddElement
  <1>5. ASSUME pc[t] \in S, v \notin S
        PROVE  /\ Cardinality(At(S)') = Cardinality(At(S)) - 1
               /\ Cardinality(At(S)) # 0
    <2>1. At(S)' = At(S) \ {t} /\ t \in At(S)
      BY <1>1, <1>5 DEF At
    <2> QED BY <2>1, <1>2, FS_RemoveElement, FS_EmptySet
  <1> QED BY <1>2, <1>3, <1>4, <1>5

\* The count of a thread about to decrement, and of a registered event, is
\* there.
LEMMA PendingPositive ==
  ASSUME SyncInv
  PROVE  /\ \A t \in Threads : pc[t] = "count" => pending # 0
         /\ Armed # {} => pending # 0
  <1>1. IsFiniteSet(At({"count"})) /\ Cardinality(At({"count"})) \in Nat
    BY PoolAssumption, FS_Subset, FS_CardinalityType DEF At
  <1>2. ASSUME NEW t \in Threads, pc[t] = "count" PROVE pending # 0
    <2>1. Cardinality(At({"count"})) # 0
      BY <1>1, <1>2, FS_EmptySet DEF At
    <2>2. \A s \in Fds \X Events : Cardinality(Armed) \in Nat
      BY ArmedStep DEF SyncInv
    <2>3. Cardinality(Armed) \in Nat
      <3>1. CASE Fds \X Events = {}
        BY <3>1, FS_EmptySet DEF Armed
      <3> QED BY <2>2, <3>1
    <2> QED BY <2>1, <2>3, <1>1 DEF SyncInv, PendingExact
  <1>3. ASSUME NEW s \in Armed PROVE pending # 0
    <2>1. PICK f \in Fds, e \in Events : s = <<f, e>> /\ e \in events[f]
      BY <1>3 DEF Armed
    <2>2. IsFiniteSet(Armed) /\ Cardinality(Armed) \in Nat
      BY <2>1, ArmedStep DEF SyncInv
    <2>3. Cardinality(Armed) # 0
      BY <2>2, <1>3, FS_EmptySet
    <2> QED BY <2>2, <2>3, <1>1 DEF SyncInv, PendingExact
  <1> QED BY <1>2, <1>3

\* Steps that leave the records alone and take and release no mutex.
LEMMA SyncKept ==
  ASSUME SyncInv, TypeOK', UNCHANGED <<fdVars, fd, todo, interest>>,
         \A t \in Threads : pc[t] \in Holding \/ pc'[t] \in Holding
                              => pc'[t] = pc[t]
  PROVE  SyncInv'
  <1>1. At(Holding)' = At(Holding) /\ At({"count"})' = At({"count"})
    BY DEF At, Holding
  <1>2. PendingExact' /\ ContextsInSync'
    BY <1>1 DEF SyncInv, PendingExact, ContextsInSync, Armed, Unlocked,
                fdVars
  <1>3. Mutex' /\ HeldInSync' /\ CountDone'
    BY <1>1 DEF SyncInv, Mutex, HeldInSync, CountDone, First, fdVars
  <1> QED BY <1>2, <1>3 DEF SyncInv, fdVars

\* HandleReady, cancelEvent and cancelAll: the mutex is taken, and what is to
\* be triggered is no longer registered with epoll.
LEMMA SyncTake ==
  ASSUME SyncInv, TypeOK', NEW t \in Threads, NEW f \in Fds,
         NEW S \in SUBSET Events, S # {},
         pc[t] \notin Holding, Unlocked(f),
         EpollCtl(f, events[f] \ S), Goto(t, "trigger"),
         fd' = [fd EXCEPT ![t] = f], todo' = [todo EXCEPT ![t] = S],
         UNCHANGED fdVars
  PROVE  SyncInv'
  <1>1. /\ At(Holding)' = At(Holding) \cup {t} /\ t \notin At(Holding)
        /\ At({"count"})' = At({"count"}) /\ t \notin At({"count"})
    BY DEF Goto, At, Holding, SyncInv, TypeOK
  <1>2. /\ \A u \in Threads \ {t} : fd'[u] = fd[u] /\ todo'[u] = todo[u]
        /\ fd'[t] = f /\ todo'[t] = S
    BY DEF SyncInv, TypeOK
  <1>3. /\ \A g \in Fds \ {f} : interest'[g] = interest[g]
        /\ interest'[f] = events[f] \ S
    BY DEF EpollCtl, SyncInv, TypeOK
  <1>4. \A u \in At(Holding) : u \in Threads /\ u # t /\ fd[u] # f
    BY <1>1 DEF Unlocked, At
  <1>5. PendingExact'
    BY <1>1 DEF SyncInv, PendingExact, Armed, fdVars
  <1>6. Mutex'
    BY <1>1, <1>2, <1>4 DEF Mutex, SyncInv
  <1>7. HeldInSync'
    BY <1>1, <1>2, <1>3, <1>4 DEF HeldInSync, SyncInv, fdVars
  <1>8. CountDone'
    <2>1. \A u \in At({"count"}) : u \in Threads \ {t}
      BY <1>1 DEF At
    <2> QED BY <1>1, <1>2, <2>1 DEF CountDone, First, SyncInv, fdVars
  <1>9. ContextsInSync'
    <2>1. ASSUME NEW g \in Fds, Unlocked(g)'
          PROVE  g # f /\ Unlocked(g)
      BY <2>1, <1>1, <1>2, <1>4 DEF Unlocked
    <2> QED BY <2>1, <1>3 DEF ContextsInSync, SyncInv, fdVars
  <1> QED BY <1>5, <1>6, <1>7, <1>8, <1>9 DEF SyncInv, fdVars

\* The event a thread triggers next is one it is to trigger.
LEMMA FirstOfTodo ==
  ASSUME SyncInv, NEW t \in At(Holding)
  PROVE  First(t) \in todo[t] /\ First(t) \in Events
  <1>1. todo[t] \subseteq {"READ", "WRITE"} /\ todo[t] \subseteq Events
        /\ todo[t] # {}
    BY EventsAssumption DEF SyncInv, TypeOK, HeldInSync, At
  <1>2. CASE "READ" \in todo[t]
    BY <1>1, <1>2 DEF First
  <1>3. CASE "READ" \notin todo[t]
    BY <1>1, <1>3 DEF First
  <1> QED BY <1>2, <1>3

\* triggerEvent keeps the records.
LEMMA SyncTrigger ==
  ASSUME SyncInv, TypeOK', NEW t \in Threads, Trigger(t)
  PROVE  SyncInv'
  <1> DEFINE f == fd[t]
             e == First(t)
  <1>1. t \in At(Holding) /\ pc[t] = "trigger"
    BY DEF Trigger, At, Holding
  <1>2. f \in Fds /\ e \in todo[t] /\ e \in Events /\ e \in events[f]
    BY <1>1, FirstOfTodo DEF SyncInv, HeldInSync, Trigger
  <1>3. /\ events' = [events EXCEPT ![f] = @ \ {e}]
        /\ ctx' = [ctx EXCEPT ![f] = @ \ {e}]
        /\ UNCHANGED <<pending, fd, todo, interest>> /\ Goto(t, "count")
    BY DEF Trigger, kernelVars
  <1> HIDE DEF f, e
  <1>4. At(Holding)' = At(Holding) /\ At({"count"})' = At({"count"}) \cup {t}
    BY <1>1, <1>3 DEF Goto, At, Holding, SyncInv, TypeOK
  <1>5. PendingExact'
    <2>1. Cardinality(Armed') = Cardinality(Armed) - 1
          /\ Cardinality(Armed) \in Nat
      BY <1>2, <1>3, ArmedStep DEF SyncInv
    <2>2. Cardinality(At({"count"})') = Cardinality(At({"count"})) + 1
          /\ Cardinality(At({"count"})) \in Nat
      BY <1>1, <1>3, AtStep DEF SyncInv
    <2> QED BY <2>1, <2>2, <1>3 DEF PendingExact, SyncInv
  <1>6. \A u \in At(Holding) \ {t} : fd[u] # f
    BY <1>1 DEF Mutex, SyncInv, f
  <1>7. /\ \A g \in Fds \ {f} : events'[g] = events[g]
        /\ events'[f] = events[f] \ {e}
    BY <1>2, <1>3 DEF SyncInv, TypeOK
  <1>8. HeldInSync'
    <2>1. \A u \in At(Holding) \ {t} : fd[u] \in Fds \ {f}
      BY <1>6 DEF SyncInv, HeldInSync
    <2>2. \A u \in At(Holding) \ {t} :
            interest[fd[u]] = events'[fd[u]] \ todo[u]
      BY <2>1, <1>7 DEF SyncInv, HeldInSync
    <2>3. interest[f] = events'[f] \ todo[t]
      BY <1>1, <1>2, <1>7 DEF SyncInv, HeldInSync, f
    <2> QED BY <2>2, <2>3, <1>3, <1>4 DEF HeldInSync, SyncInv, f
  <1>9. CountDone'
    <2>1. ASSUME NEW u \in At({"count"})' PROVE (First(u) \notin events[fd[u]])'
      <3>1. CASE u = t
        BY <3>1, <1>3, <1>7 DEF First, f, e
      <3>2. CASE u # t
        <4>1. u \in At({"count"}) /\ u \in At(Holding) \ {t}
          BY <2>1, <3>2, <1>4 DEF At, Holding
        <4>2. fd[u] \in Fds \ {f}
          BY <4>1, <1>6 DEF SyncInv, HeldInSync
        <4> QED BY <4>1, <4>2, <1>3, <1>7 DEF First, SyncInv, CountDone
      <3> QED BY <3>1, <3>2
    <2> QED BY <2>1 DEF CountDone
  <1>10. ContextsInSync'
    <2>1. ASSUME NEW g \in Fds, Unlocked(g)' PROVE g # f /\ Unlocked(g)
      BY <2>1, <1>1, <1>3, <1>4 DEF Unlocked, f
    <2>2. events' = ctx'
      BY <1>3 DEF SyncInv
    <2> QED BY <2>1, <2>2, <1>3, <1>7 DEF SyncInv, ContextsInSync
  <1>11. Mutex' /\ events' = ctx'
    BY <1>3, <1>4 DEF SyncInv, Mutex
  <1> QED BY <1>5, <1>8, <1>9, <1>10, <1>11 DEF SyncInv

\* The decrement, and the release of the mutex after the last event.
LEMMA SyncCount ==
  ASSUME SyncInv, TypeOK', NEW t \in Threads, Count(t)
  PROVE  SyncInv'
  <1> DEFINE f == fd[t]
             rest == todo[t] \ {First(t)}
  <1>1. t \in At(Holding) /\ t \in At({"count"}) /\ pc[t] = "count"
    BY DEF Count, At, Holding
  <1>2. /\ f \in Fds /\ interest[f] = events[f] \ rest
        /\ rest \in SUBSET Events
    BY <1>1, FirstOfTodo DEF SyncInv, HeldInSync, CountDone, TypeOK
  <1>3. /\ UNCHANGED <<events, ctx, interest>> /\ pending' = pending - 1
        /\ todo' = [todo EXCEPT ![t] = rest]
    BY DEF Count, NextTrigger, kernelVars
  <1>4. PICK v \in {"trigger", back[t]} :
          /\ Goto(t, v)
          /\ rest # {} => v = "trigger" /\ UNCHANGED fd
          /\ rest = {} => v = back[t] /\ fd' = [fd EXCEPT ![t] = NoFd]
    BY DEF Count, NextTrigger
  <1> HIDE DEF f, rest
  <1>5. v # "count" /\ (v \in Holding <=> v = "trigger")
        /\ back[t] \notin Holding
    BY <1>4 DEF SyncInv, TypeOK, Holding
  <1>6. PendingExact'
    <2>1. /\ Cardinality(At({"count"})') = Cardinality(At({"count"})) - 1
          /\ Cardinality(At({"count"})) \in Nat
          /\ Cardinality(At({"count"})) # 0
      BY <1>1, <1>4, <1>5, AtStep DEF SyncInv
    <2>2. Armed' = Armed
      BY <1>3 DEF Armed
    <2>3. Cardinality(Armed) \in Nat
      <3>1. CASE Events = {}
        BY <3>1, FS_EmptySet DEF Armed
      <3>2. ASSUME NEW e \in Events PROVE Cardinality(Armed) \in Nat
        BY <1>2, ArmedStep DEF SyncInv
      <3> QED BY <3>1, <3>2
    <2> QED BY <2>1, <2>2, <2>3, <1>3 DEF PendingExact, SyncInv
  <1>7. \A u \in Threads \ {t} :
          fd'[u] = fd[u] /\ todo'[u] = todo[u] /\ pc'[u] = pc[u]
    BY <1>3, <1>4 DEF Goto, SyncInv, TypeOK
  <1>8. todo'[t] = rest /\ pc'[t] = v
    BY <1>3, <1>4 DEF Goto, SyncInv, TypeOK
  <1>9. /\ At(Holding)' = IF rest # {} THEN At(Holding)
                                     ELSE At(Holding) \ {t}
        /\ At({"count"})' = At({"count"}) \ {t}
    BY <1>1, <1>4, <1>5, <1>7, <1>8 DEF At
  <1>10. rest # {} => fd'[t] = f
    BY <1>4 DEF f
  <1>11. \A u \in At(Holding)' : u \in At(Holding) /\ fd'[u] = fd[u]
    BY <1>7, <1>9, <1>10 DEF f, At
  <1>12. Mutex'
    BY <1>11 DEF Mutex, SyncInv
  <1>13. HeldInSync'
    <2>1. ASSUME NEW u \in At(Holding)'
          PROVE  /\ fd'[u] \in Fds /\ todo'[u] # {}
                 /\ interest'[fd'[u]] = events'[fd'[u]] \ todo'[u]
      <3>1. CASE u = t
        BY <2>1, <3>1, <1>2, <1>3, <1>8, <1>9, <1>10
      <3>2. CASE u # t
        BY <2>1, <3>2, <1>3, <1>7, <1>11 DEF SyncInv, HeldInSync, At
      <3> QED BY <3>1, <3>2
    <2> QED BY <2>1 DEF HeldInSync
  <1>14. CountDone'
    <2>1. \A u \in At({"count"})' : u \in Threads \ {t} /\ u \in At({"count"})
      BY <1>9 DEF At
    <2> QED BY <2>1, <1>3, <1>7 DEF CountDone, SyncInv, First
  <1>15. ContextsInSync'
    <2>1. ASSUME NEW g \in Fds, Unlocked(g)'
          PROVE  Unlocked(g) \/ (g = f /\ rest = {})
      <3>1. ASSUME NEW u \in At(Holding), fd[u] = g, g # f \/ rest # {}
            PROVE  FALSE
        <4>1. u \in At(Holding)' /\ fd'[u] = g
          BY <3>1, <1>7, <1>9, <1>10 DEF f, At
        <4> QED BY <4>1, <2>1 DEF Unlocked
      <3>2. CASE g = f /\ rest = {}
        BY <3>2
      <3>3. CASE g # f \/ rest # {}
        <4>1. \A u \in At(Holding) : fd[u] # g
          BY <3>1, <3>3
        <4> QED BY <4>1 DEF Unlocked
      <3> QED BY <3>2, <3>3
    <2>2. ASSUME NEW g \in Fds, Unlocked(g)'
          PROVE  events[g] = ctx[g] /\ events[g] = interest[g]
      BY <2>1, <2>2, <1>2 DEF SyncInv, ContextsInSync
    <2> QED BY <2>2, <1>3 DEF ContextsInSync
  <1> QED BY <1>3, <1>6, <1>12, <1>13, <1>14, <1>15 DEF SyncInv

\* addEvent and delEvent: one event of an unlocked descriptor comes or goes
\* in all the records at once.
LEMMA SyncSet ==
  ASSUME SyncInv, TypeOK', NEW f \in Fds, NEW S \in SUBSET Events,
         Unlocked(f), EpollCtl(f, S),
         events' = [events EXCEPT ![f] = S], ctx' = [ctx EXCEPT ![f] = S],
         UNCHANGED threadVars, PendingExact'
  PROVE  SyncInv'
  <1>1. At(Holding)' = At(Holding) /\ At({"count"})' = At({"count"})
    BY DEF At, threadVars
  <1>2. \A u \in At(Holding) : fd[u] \in Fds \ {f}
    BY DEF Unlocked, SyncInv, HeldInSync
  <1>3. /\ \A g \in Fds \ {f} : /\ events'[g] = events[g] /\ ctx'[g] = ctx[g]
                               /\ interest'[g] = interest[g]
        /\ events'[f] = S /\ ctx'[f] = S /\ interest'[f] = S
    BY DEF EpollCtl, SyncInv, TypeOK
  <1>4. Mutex' /\ HeldInSync'
    BY <1>1, <1>2, <1>3 DEF SyncInv, Mutex, HeldInSync, threadVars
  <1>5. CountDone'
    <2>1. \A u \in At({"count"}) : u \in At(Holding)
      BY DEF At, Holding
    <2> QED BY <1>1, <1>2, <1>3, <2>1
               DEF SyncInv, CountDone, First, threadVars
  <1>6. ContextsInSync'
    <2>1. ASSUME NEW g \in Fds, Unlocked(g)', g # f PROVE Unlocked(g)
      BY <2>1, <1>1 DEF Unlocked, threadVars
    <2> QED BY <2>1, <1>3 DEF SyncInv, ContextsInSync
  <1>7. events' = ctx'
    BY DEF SyncInv
  <1> QED BY <1>4, <1>5, <1>6, <1>7 DEF SyncInv

\* What a task does keeps the records.
LEMMA SyncTask ==
  ASSUME SyncInv, TypeOK', NEW t \in Threads, Task(t)
  PROVE  SyncInv'
  <1>1. CASE TaskSchedules(t)
    <2>1. UNCHANGED <<fdVars, pc, fd, todo, interest>>
      BY <1>1 DEF TaskSchedules, threadVars, kernelVars
    <2> QED BY <2>1, SyncKept
  <1>2. CASE EndTask(t) \/ YieldReady(t)
    <2>1. /\ UNCHANGED <<fdVars, fd, todo, interest>>
          /\ \A u \in Threads : pc[u] \in Holding \/ pc'[u] \in Holding
                                => pc'[u] = pc[u]
      BY <1>2 DEF EndTask, YieldReady, Goto, kernelVars, Holding, SyncInv,
                  TypeOK
    <2> QED BY <2>1, SyncKept
  <1>3. ASSUME NEW f \in Fds, NEW S \in SUBSET Events, CancelSet(t, f, S)
        PROVE  SyncInv'
    BY <1>3, SyncTake DEF CancelSet, Holding
  <1>4. ASSUME NEW f \in Fds, NEW e \in Events, AddEvent(t, f, e)
        PROVE  SyncInv'
    <2>1. UNCHANGED threadVars /\ pending' = pending + 1
      BY <1>4 DEF AddEvent
    <2>2. /\ Cardinality(Armed') = Cardinality(Armed) + 1
          /\ Cardinality(Armed) \in Nat
      BY <1>4, ArmedStep DEF AddEvent, SyncInv
    <2>3. At({"count"})' = At({"count"}) /\ Cardinality(At({"count"})) \in Nat
      BY <2>1, PoolAssumption, FS_Subset, FS_CardinalityType
         DEF At, threadVars
    <2>4. PendingExact'
      BY <2>1, <2>2, <2>3 DEF PendingExact, SyncInv
    <2>5. ctx' = [ctx EXCEPT ![f] = events[f] \cup {e}]
          /\ events' = [events EXCEPT ![f] = events[f] \cup {e}]
      BY <1>4 DEF AddEvent, SyncInv, TypeOK
    <2> QED BY <1>4, <2>1, <2>4, <2>5, SyncSet DEF AddEvent, SyncInv, TypeOK
  <1>5. ASSUME NEW f \in Fds, NEW e \in Events, DelEvent(t, f, e)
        PROVE  SyncInv'
    <2>1. UNCHANGED threadVars /\ pending' = pending - 1
      BY <1>5 DEF DelEvent
    <2>2. /\ Cardinality(Armed') = Cardinality(Armed) - 1
          /\ Cardinality(Armed) \in Nat
      BY <1>5, ArmedStep DEF DelEvent, SyncInv
    <2>3. At({"count"})' = At({"count"}) /\ Cardinality(At({"count"})) \in Nat
      BY <2>1, PoolAssumption, FS_Subset, FS_CardinalityType
         DEF At, threadVars
    <2>4. PendingExact'
      BY <2>1, <2>2, <2>3 DEF PendingExact, SyncInv
    <2>5. ctx' = [ctx EXCEPT ![f] = events[f] \ {e}]
          /\ events' = [events EXCEPT ![f] = events[f] \ {e}]
      BY <1>5 DEF DelEvent, SyncInv, TypeOK
    <2> QED BY <1>5, <2>1, <2>4, <2>5, SyncSet DEF DelEvent, SyncInv, TypeOK
  <1>6. ASSUME NEW f \in Fds, NEW e \in Events, Consume(t, f, e)
        PROVE  SyncInv'
    <2>1. UNCHANGED <<fdVars, pc, fd, todo, interest>>
      BY <1>6 DEF Consume, threadVars
    <2> QED BY <2>1, SyncKept
  <1>7. ASSUME NEW f \in Fds PROVE events[f] \in SUBSET Events
    BY DEF SyncInv, TypeOK
  <1>8. ASSUME NEW f \in Fds, CancelAll(t, f) PROVE SyncInv'
    BY <1>3, <1>7, <1>8 DEF CancelAll
  <1>9. ASSUME NEW f \in Fds, NEW e \in Events, CancelEvent(t, f, e)
        PROVE  SyncInv'
    BY <1>3, <1>9 DEF CancelEvent
  <1> QED BY <1>1, <1>2, <1>4, <1>5, <1>6, <1>8, <1>9 DEF Task

\* What a thread's loop does keeps the records.
LEMMA SyncLoop ==
  ASSUME SyncInv, TypeOK', NEW t \in Threads, RunLoop(t) \/ IdleLoop(t)
  PROVE  SyncInv'
  <1>1. ASSUME NEW v, Goto(t, v), UNCHANGED <<fdVars, fd, todo, interest>>,
               pc[t] \notin Holding, v \notin Holding
        PROVE  SyncInv'
    <2>1. \A u \in Threads : pc[u] \in Holding \/ pc'[u] \in Holding
                              => pc'[u] = pc[u]
      BY <1>1 DEF Goto, SyncInv, TypeOK
    <2> QED BY <1>1, <2>1, SyncKept
  <1>2. CASE Pick(t)
    BY <1>1, <1>2 DEF Pick, Holding, kernelVars
  <1>3. CASE PickNothing(t)
    BY <1>1, <1>3 DEF PickNothing, Holding, kernelVars
  <1>4. CASE AskScheduler(t)
    BY <1>1, <1>4 DEF AskScheduler, Holding, kernelVars
  <1>5. CASE AskPending(t)
    BY <1>1, <1>5 DEF AskPending, Holding, kernelVars
  <1>6. CASE EpollWait(t)
    BY <1>1, <1>6 DEF EpollWait, Holding
  <1>7. CASE HandleStale(t)
    <2>1. UNCHANGED <<fdVars, pc, fd, todo, interest>>
      BY <1>7 DEF HandleStale, kernelVars
    <2> QED BY <2>1, SyncKept
  <1>8. CASE HandleReady(t)
    <2>1. PICK f \in Fds :
            /\ Unlocked(f) /\ events[f] \cap Real(t, f) # {}
            /\ EpollCtl(f, events[f] \ Real(t, f))
            /\ fd' = [fd EXCEPT ![t] = f]
            /\ todo' = [todo EXCEPT ![t] = Real(t, f)]
      BY <1>8 DEF HandleReady
    <2>2. Real(t, f) \in SUBSET Events /\ Real(t, f) # {}
      BY <2>1 DEF Real, SyncInv, TypeOK
    <2>3. /\ pc[t] \notin Holding /\ Goto(t, "trigger") /\ UNCHANGED fdVars
      BY <1>8 DEF HandleReady, Holding
    <2> QED BY <2>1, <2>2, <2>3, SyncTake
  <1>9. CASE IdleYield(t)
    BY <1>1, <1>9 DEF IdleYield, Holding, kernelVars
  <1>10. CASE Settle(t) \/ Requeue(t)
    BY <1>1, <1>10 DEF Settle, Requeue, Holding, kernelVars
  <1> QED BY <1>2, <1>3, <1>4, <1>5, <1>6, <1>7, <1>8, <1>9, <1>10
             DEF RunLoop, IdleLoop

\* What the kernel and the owner do keeps the records.
LEMMA SyncOutside ==
  ASSUME SyncInv, TypeOK',
         \/ \E f \in Fds, s \in Signals : Arrive(f, s)
         \/ OwnerSchedules \/ StopBegin \/ StopJoin \/ Joined
         \/ UNCHANGED vars
  PROVE  SyncInv'
  <1>1. UNCHANGED <<fdVars, pc, fd, todo, interest>>
    BY DEF Arrive, OwnerSchedules, StopBegin, StopJoin, Joined, vars,
           threadVars, kernelVars
  <1> QED BY <1>1, SyncKept

\* Every step keeps the types and the records.
LEMMA NextSync == SyncInv /\ [Next]_vars => SyncInv'
  <1> SUFFICES ASSUME SyncInv, [Next]_vars PROVE SyncInv'
    OBVIOUS
  <1>0. TypeOK
    BY DEF SyncInv
  <1>1. ASSUME NEW t \in Threads, RunLoop(t) \/ IdleLoop(t) PROVE SyncInv'
    BY <1>0, <1>1, LoopType, SyncLoop
  <1>2. ASSUME NEW t \in Threads, Triggers(t) PROVE SyncInv'
    <2>1. TypeOK'
      BY <1>0, <1>2, TriggerType, PendingPositive
    <2> QED BY <1>2, <2>1, SyncTrigger, SyncCount DEF Triggers
  <1>3. ASSUME NEW t \in Threads, Task(t) PROVE SyncInv'
    BY <1>0, <1>3, TaskType, PendingPositive, SyncTask
  <1>4. CASE \/ \E f \in Fds, s \in Signals : Arrive(f, s)
             \/ OwnerSchedules \/ StopBegin \/ StopJoin \/ Joined
             \/ UNCHANGED vars
    BY <1>0, <1>4, OutsideType, SyncOutside
  <1> QED BY <1>1, <1>2, <1>3, <1>4 DEF Next, ThreadStep

\* Initially nothing is registered.
LEMMA InitSync == Init => SyncInv
  <1> SUFFICES ASSUME Init PROVE SyncInv
    OBVIOUS
  <1>1. TypeOK
    BY InitType
  <1>2. Armed = {} /\ At(Holding) = {} /\ At({"count"}) = {}
    BY DEF Init, Armed, At, Holding
  <1>3. PendingExact
    <2>1. Cardinality(Armed) = 0 /\ Cardinality(At({"count"})) = 0
      BY <1>2, FS_EmptySet
    <2>2. pending = 0
      BY DEF Init
    <2> QED BY <2>1, <2>2 DEF PendingExact
  <1> QED BY <1>1, <1>2, <1>3 DEF Init, SyncInv, ContextsInSync, Mutex,
                                  HeldInSync, CountDone, At, Holding

\* For any pool and any descriptors, at every moment: m_pendingEventCount is
\* the number of registered events and of decrements still to be made, and
\* whenever a descriptor's mutex is free its events, its EventContexts and
\* its registration with epoll agree.
THEOREM RecordsAgree == Spec => [](TypeOK /\ PendingExact /\ ContextsInSync)
  <1>1. SyncInv => TypeOK /\ PendingExact /\ ContextsInSync
    BY DEF SyncInv
  <1> QED BY <1>1, InitSync, NextSync, PTL DEF Spec

-----------------------------------------------------------------------------
(* Nobody leaves the pool while it has work, although a single thread may  *)
(* be wrong about it: a thread whose idle fiber has ended does not poll,   *)
(* but it still takes tasks, and the last thread to ask finds the truth,   *)
(* unless a READY fiber has been overlooked.                               *)

Retired == {t \in Threads : idleTerm[t]}

RetiredPlaces ==
    \A t \in Threads :
        /\ pc[t] = "exited" => t \in Retired
        /\ pc[t] = "askPending" => owner # "up"
        /\ t \in Retired =>
             /\ owner # "up"
             /\ pc[t] \notin {"ask", "askPending", "wait", "handle"}
             /\ pc[t] \in Holding => back[t] = "task"

Asked == Retired \cup At({"askPending"})
Yielding == At({"requeue"})

\* When everybody has found the base class ready to stop, it is.
QuietInv ==
    ~hasty /\ Threads = Asked =>
        queue = <<>> /\ Active = {} /\ Yielding = {}

\* When everybody has found the count 0 as well, nothing is registered.
DoneInv == ~hasty /\ Threads = Retired => Armed = {}

JoinedInv == owner = "joined" => AllGone

DrainInv ==
    /\ SyncInv
    /\ RetiredPlaces /\ QuietInv /\ DoneInv /\ JoinedInv

\* Initially no thread has retired.
LEMMA InitDrain == Init => DrainInv
  <1> SUFFICES ASSUME Init PROVE DrainInv
    OBVIOUS
  <1>1. SyncInv
    BY InitSync
  <1>2. Retired = {} /\ At({"askPending"}) = {}
    BY DEF Init, Retired, At
  <1> QED BY <1>1, <1>2, PoolAssumption
             DEF Init, DrainInv, RetiredPlaces, Asked, QuietInv, DoneInv,
                 JoinedInv, AllGone

\* A thread that is in a task, holds a mutex, or puts a fiber back on the
\* list: then not everybody has retired or asks for the pending count.
LEMMA BusyThread ==
  ASSUME DrainInv, ~hasty, NEW t \in Threads,
         pc[t] \in {"task", "requeue"} \/ pc[t] \in Holding
  PROVE  Threads # Asked
  <1>1. ASSUME Threads = Asked PROVE FALSE
    <2>1. t \in Retired
      BY <1>1 DEF Asked, At, Holding
    <2>2. t \in Active \/ t \in Yielding
      BY <2>1 DEF DrainInv, RetiredPlaces, Active, Yielding, At
    <2> QED BY <1>1, <2>2 DEF DrainInv, QuietInv
  <1> QED BY <1>1

\* Where the step of a thread in a task, or holding a mutex, leads.
LEMMA BusyStep ==
  ASSUME TypeOK, NEW t \in Threads, Triggers(t) \/ Task(t)
  PROVE  /\ pc[t] = "task" \/ pc[t] \in Holding
         /\ UNCHANGED <<idleTerm, owner, hasty>>
         /\ \A u \in Threads \ {t} : pc'[u] = pc[u] /\ back'[u] = back[u]
         /\ pc'[t] \notin {"ask", "askPending", "wait", "exited"}
         /\ pc[t] = "task" \/ back[t] = "task"
              => /\ pc'[t] # "handle"
                 /\ pc'[t] \in Holding => back'[t] = "task"
  <1> USE DEF Holding
  <1>1. CASE Trigger(t)
    BY <1>1 DEF Trigger, Goto, TypeOK, noteVars
  <1>2. CASE Count(t)
    <2>1. /\ pc[t] = "count" /\ UNCHANGED <<idleTerm, owner, hasty>>
          /\ \/ Goto(t, "trigger") /\ UNCHANGED back
             \/ Goto(t, back[t]) /\ back' = [back EXCEPT ![t] = "task"]
      BY <1>2 DEF Count, NextTrigger, noteVars
    <2>2. back[t] \in {"task", "handle"}
      BY DEF TypeOK
    <2> QED BY <2>1, <2>2 DEF Goto, TypeOK
  <1>3. ASSUME NEW f \in Fds, NEW S, CancelSet(t, f, S)
        PROVE  /\ UNCHANGED <<idleTerm, owner, hasty>> /\ pc[t] = "task"
               /\ pc' = [pc EXCEPT ![t] = "trigger"]
               /\ back' = [back EXCEPT ![t] = "task"]
    BY <1>3 DEF CancelSet, Goto, noteVars
  <1>4. CASE EndTask(t) \/ YieldReady(t)
    BY <1>4 DEF EndTask, YieldReady, Goto, TypeOK, noteVars
  <1>5. ASSUME \/ TaskSchedules(t)
               \/ \E f \in Fds, e \in Events :
                    AddEvent(t, f, e) \/ DelEvent(t, f, e) \/ Consume(t, f, e)
        PROVE  /\ UNCHANGED <<pc, back, idleTerm, owner, hasty>>
               /\ pc[t] = "task"
    BY <1>5 DEF TaskSchedules, Schedule, AddEvent, DelEvent, Consume,
                threadVars, noteVars
  <1>6. CASE \E f \in Fds, S \in SUBSET Events : CancelSet(t, f, S)
    BY <1>3, <1>6 DEF TypeOK
  <1>7. CASE \/ TaskSchedules(t)
             \/ \E f \in Fds, e \in Events :
                  AddEvent(t, f, e) \/ DelEvent(t, f, e) \/ Consume(t, f, e)
    BY <1>5, <1>7
  <1>8. Task(t) => \/ EndTask(t) \/ YieldReady(t) \/ TaskSchedules(t)
                   \/ \E f \in Fds, S \in SUBSET Events : CancelSet(t, f, S)
                   \/ \E f \in Fds, e \in Events :
                        AddEvent(t, f, e) \/ DelEvent(t, f, e)
                        \/ Consume(t, f, e)
    BY DEF Task, CancelAll, CancelEvent, TypeOK
  <1> QED BY <1>1, <1>2, <1>4, <1>6, <1>7, <1>8 DEF Triggers

\* Such a step keeps the threads that have retired where they may be.
LEMMA DrainBusy ==
  ASSUME DrainInv, SyncInv', NEW t \in Threads, Triggers(t) \/ Task(t)
  PROVE  DrainInv'
  <1>0. TypeOK /\ TypeOK'
    BY DEF DrainInv, SyncInv
  <1>1. /\ pc[t] = "task" \/ pc[t] \in Holding
        /\ UNCHANGED <<idleTerm, owner, hasty>>
        /\ \A u \in Threads \ {t} : pc'[u] = pc[u] /\ back'[u] = back[u]
        /\ pc'[t] \notin {"ask", "askPending", "wait", "exited"}
        /\ pc[t] = "task" \/ back[t] = "task"
             => /\ pc'[t] # "handle"
                /\ pc'[t] \in Holding => back'[t] = "task"
    BY <1>0, BusyStep
  <1>2. ~hasty => Threads # Asked
    BY <1>1, BusyThread
  <1>3. Retired' = Retired /\ At({"askPending"})' \subseteq At({"askPending"})
    BY <1>1 DEF Retired, At
  <1>4. QuietInv' /\ DoneInv'
    <2>1. Retired \subseteq Threads /\ At({"askPending"}) \subseteq Threads
      BY DEF Retired, At
    <2>2. ~hasty => Threads # Asked' /\ Threads # Retired'
      BY <1>2, <1>3, <2>1 DEF Asked
    <2> QED BY <1>1, <2>2 DEF QuietInv, DoneInv
  <1>5. RetiredPlaces'
    BY <1>1, <1>3 DEF DrainInv, RetiredPlaces
  <1>6. JoinedInv'
    <2>1. ~AllGone
      BY <1>1 DEF AllGone, Holding
    <2> QED BY <2>1, <1>1 DEF DrainInv, JoinedInv
  <1> QED BY <1>4, <1>5, <1>6 DEF DrainInv

\* Steps of the loop.  AskScheduler makes the base class's stopping() known
\* to one more thread, AskPending the count.
LEMMA DrainLoop ==
  ASSUME DrainInv, SyncInv', NEW t \in Threads, RunLoop(t) \/ IdleLoop(t)
  PROVE  DrainInv'
  <1>0. /\ TypeOK /\ TypeOK' /\ RetiredPlaces /\ QuietInv /\ DoneInv
        /\ JoinedInv /\ PendingExact
    BY DEF DrainInv, SyncInv
  <1>1. ASSUME pc[t] # "exited", UNCHANGED owner PROVE JoinedInv'
    BY <1>0, <1>1 DEF JoinedInv, AllGone
  <1>2. CASE Pick(t)
    <2>1. UNCHANGED <<hasty, owner>> /\ queue # <<>>
      BY <1>2 DEF Pick, noteVars
    <2>2. ~hasty => Threads # Asked
      BY <1>0, <2>1 DEF QuietInv
    <2>3. Retired' = Retired /\ At({"askPending"})' = At({"askPending"})
      BY <1>0, <1>2 DEF Pick, Goto, Retired, At, TypeOK
    <2>4. Asked' = Asked /\ (Threads = Retired => Threads = Asked)
      BY <2>3 DEF Asked, Retired, At
    <2>5. RetiredPlaces'
      BY <1>0, <1>2 DEF Pick, Goto, RetiredPlaces, Retired, Holding, TypeOK
    <2>6. QuietInv' /\ DoneInv'
      BY <2>1, <2>2, <2>3, <2>4 DEF QuietInv, DoneInv
    <2> QED BY <2>1, <2>5, <2>6, <1>1, <1>2 DEF Pick, DrainInv
  <1>3. CASE PickNothing(t) \/ Settle(t)
    <2>1. Retired' = Retired /\ At({"askPending"})' = At({"askPending"})
          /\ Yielding' = Yielding
      BY <1>0, <1>3 DEF PickNothing, Settle, Goto, Retired, At, Yielding,
                        TypeOK
    <2>2. Active' = Active /\ Armed' = Armed
          /\ UNCHANGED <<queue, hasty, owner>>
      BY <1>0, <1>3 DEF PickNothing, Settle, Goto, Active, Armed, Holding,
                        fdVars, noteVars, TypeOK
    <2>3. RetiredPlaces'
      BY <1>0, <1>3 DEF PickNothing, Settle, Goto, RetiredPlaces, Retired,
                        Holding, TypeOK
    <2>4. QuietInv' /\ DoneInv'
      BY <2>1, <2>2, <1>0 DEF QuietInv, DoneInv, Asked
    <2> QED BY <2>2, <2>3, <2>4, <1>1, <1>3
               DEF PickNothing, Settle, DrainInv
  <1>4. CASE AskScheduler(t)
    <2>1. Retired' = Retired /\ Active' = Active /\ Armed' = Armed
          /\ Yielding' = Yielding /\ UNCHANGED <<queue, owner>>
      BY <1>0, <1>4 DEF AskScheduler, Goto, Retired, Active, Armed, At,
                        Yielding, Holding, fdVars, TypeOK
    <2>2. /\ hasty => hasty'
          /\ SchedulerStopping /\ Yielding # {} => hasty'
      BY <1>4 DEF AskScheduler, Yielding
    <2>3. QuietInv'
      <3>1. CASE SchedulerStopping
        BY <3>1, <2>1, <2>2 DEF SchedulerStopping, QuietInv
      <3>2. CASE ~SchedulerStopping
        <4>1. t \notin Retired'
          BY <2>1, <1>0, <1>4 DEF AskScheduler, RetiredPlaces
        <4>2. t \notin At({"askPending"})'
          BY <3>2, <1>0, <1>4 DEF AskScheduler, Goto, At, TypeOK
        <4> QED BY <4>1, <4>2 DEF QuietInv, Asked
      <3> QED BY <3>1, <3>2
    <2>4. RetiredPlaces'
      BY <1>0, <1>4 DEF AskScheduler, SchedulerStopping, Goto,
                        RetiredPlaces, Retired, Holding, TypeOK
    <2>5. DoneInv'
      BY <2>1, <2>2, <1>0 DEF DoneInv
    <2> QED BY <2>1, <2>3, <2>4, <2>5, <1>1, <1>4
               DEF AskScheduler, DrainInv
  <1>5. CASE AskPending(t)
    <2>1. /\ Asked' \subseteq Asked
          /\ Active' = Active /\ Armed' = Armed /\ Yielding' = Yielding
          /\ UNCHANGED <<queue, hasty, owner>>
      BY <1>0, <1>5 DEF AskPending, Goto, Retired, Asked, At, Active, Armed,
                        Yielding, Holding, fdVars, noteVars, TypeOK
    <2>2. QuietInv'
      <3>1. Asked \subseteq Threads
        BY DEF Asked, Retired, At
      <3>2. Threads = Asked' => Threads = Asked
        BY <3>1, <2>1
      <3> QED BY <3>2, <2>1, <1>0 DEF QuietInv
    <2>3. DoneInv'
      <3>1. CASE pending = 0
        <4>1. ASSUME NEW s \in Armed PROVE FALSE
          BY <3>1, <4>1, PendingPositive DEF DrainInv
        <4> QED BY <4>1, <2>1 DEF DoneInv
      <3>2. CASE pending # 0
        <4>1. t \notin Retired'
          BY <3>2, <1>0, <1>5 DEF AskPending, Retired, TypeOK
        <4> QED BY <4>1 DEF DoneInv
      <3> QED BY <3>1, <3>2
    <2>4. RetiredPlaces'
      BY <1>0, <1>5 DEF AskPending, Goto, RetiredPlaces, Retired, Holding,
                        TypeOK
    <2> QED BY <2>2, <2>3, <2>4, <1>1, <1>5 DEF AskPending, DrainInv
  <1>6. ASSUME NEW v \in {"handle", "pick", "trigger"},
               pc[t] \in {"wait", "handle"}, Goto(t, v), UNCHANGED idleTerm,
               UNCHANGED owner,
               \A u \in Threads \ {t} : back'[u] = back[u]
        PROVE  DrainInv'
    <2>1. t \notin Retired /\ t \notin At({"askPending"})
      BY <1>0, <1>6 DEF RetiredPlaces, At
    <2>2. t \notin Retired' /\ t \notin At({"askPending"})'
      BY <2>1, <1>0, <1>6 DEF Retired, At, Goto, TypeOK
    <2>3. QuietInv' /\ DoneInv'
      BY <2>2 DEF QuietInv, DoneInv, Asked
    <2>4. RetiredPlaces'
      BY <2>2, <1>0, <1>6 DEF RetiredPlaces, Retired, Goto, TypeOK
    <2> QED BY <2>3, <2>4, <1>1, <1>6 DEF DrainInv
  <1>7. CASE EpollWait(t)
    BY <1>6, <1>7 DEF EpollWait
  <1>8. CASE HandleStale(t)
    <2>1. UNCHANGED <<pc, back, idleTerm, owner>> /\ pc[t] = "handle"
      BY <1>8 DEF HandleStale
    <2>2. Goto(t, "handle")
      BY <2>1, <1>0 DEF Goto, TypeOK
    <2> QED BY <2>1, <2>2, <1>6
  <1>9. CASE HandleReady(t)
    BY <1>0, <1>6, <1>9 DEF HandleReady, TypeOK
  <1>10. CASE IdleYield(t)
    BY <1>6, <1>10 DEF IdleYield
  <1>11. CASE Requeue(t)
    <2>1. UNCHANGED <<hasty, owner>> /\ (~hasty => Threads # Asked)
      BY <1>11, BusyThread DEF Requeue, noteVars
    <2>2. Retired' = Retired /\ At({"askPending"})' = At({"askPending"})
      BY <1>0, <1>11 DEF Requeue, Goto, Retired, At, TypeOK
    <2>3. Asked' = Asked /\ (Threads = Retired => Threads = Asked)
      BY <2>2 DEF Asked, Retired, At
    <2>4. RetiredPlaces'
      BY <1>0, <1>11 DEF Requeue, Goto, RetiredPlaces, Retired, Holding,
                         TypeOK
    <2>5. QuietInv' /\ DoneInv'
      BY <2>1, <2>2, <2>3 DEF QuietInv, DoneInv
    <2> QED BY <2>1, <2>4, <2>5, <1>1, <1>11 DEF Requeue, DrainInv
  <1> QED BY <1>2, <1>3, <1>4, <1>5, <1>7, <1>8, <1>9, <1>10, <1>11
             DEF RunLoop, IdleLoop

\* The kernel and the owner change nothing about who has retired; stop() can
\* only make it true that it has been called, and no task comes after it.
LEMMA DrainOutside ==
  ASSUME DrainInv, SyncInv',
         \/ \E f \in Fds, s \in Signals : Arrive(f, s)
         \/ OwnerSchedules \/ StopBegin \/ StopJoin \/ Joined
         \/ UNCHANGED vars
  PROVE  DrainInv'
  <1>0. /\ RetiredPlaces /\ QuietInv /\ DoneInv /\ JoinedInv
    BY DEF DrainInv
  <1>1. /\ UNCHANGED <<fdVars, threadVars>>
        /\ owner' = owner \/ owner = "up" \/ (owner' = "joined" /\ AllGone)
        /\ owner # "up" => owner' # "up"
        /\ queue' = queue \/ owner = "up"
        /\ UNCHANGED hasty
        /\ owner' # "joined" \/ owner = "joined" \/ AllGone
    BY DEF Arrive, OwnerSchedules, Schedule, StopBegin, StopJoin, Joined,
           vars, noteVars, AllGone
  <1>2. /\ Retired' = Retired /\ Active' = Active /\ Armed' = Armed
        /\ \A S : At(S)' = At(S)
        /\ AllGone' = AllGone
    BY <1>1 DEF Retired, Active, Armed, At, AllGone, fdVars, threadVars
  <1>3. RetiredPlaces' /\ JoinedInv' /\ DoneInv'
    BY <1>0, <1>1, <1>2 DEF RetiredPlaces, JoinedInv, DoneInv, threadVars
  <1>4. QuietInv'
    <2>1. CASE owner = "up"
      <3>1. PICK t \in Threads : TRUE
        BY PoolAssumption
      <3>2. t \notin Asked
        BY <2>1, <1>0 DEF RetiredPlaces, Asked, At
      <3> QED BY <3>2, <1>2 DEF QuietInv, Asked
    <2>2. CASE owner # "up"
      BY <2>2, <1>0, <1>1, <1>2 DEF QuietInv, Asked, Yielding
    <2> QED BY <2>1, <2>2
  <1> QED BY <1>3, <1>4 DEF DrainInv

\* Every step keeps the invariant.
LEMMA NextDrain == DrainInv /\ [Next]_vars => DrainInv'
  <1> SUFFICES ASSUME DrainInv, [Next]_vars PROVE DrainInv'
    OBVIOUS
  <1>1. SyncInv'
    BY NextSync DEF DrainInv
  <1> QED BY <1>1, DrainBusy, DrainLoop, DrainOutside DEF Next, ThreadStep

\* When every thread has left, nothing is on the list and nobody waits.
LEMMA GoneMeansDone ==
  ASSUME DrainInv, AllGone, ~hasty
  PROVE  queue = <<>> /\ Active = {} /\ Yielding = {} /\ Armed = {}
  <1>1. Threads = Retired
    BY DEF AllGone, DrainInv, RetiredPlaces, Retired
  <1>2. Threads = Asked
    BY <1>1 DEF Asked, At
  <1> QED BY <1>1, <1>2 DEF DrainInv, QuietInv, DoneInv

\* For any pool and any descriptors: as long as a task is on the list or an
\* event is registered, some thread is still in its loop, if no thread took
\* the base class to be stopping while a READY fiber was off the list.  The
\* two reads of IOManager::stopping() are not atomic and a thread may leave
\* too early, but by them alone never the last one.
THEOREM SomebodyStays == Spec => []WorkHasThread
  <1>1. DrainInv => WorkHasThread
    BY GoneMeansDone DEF WorkHasThread
  <1> QED BY <1>1, InitDrain, NextDrain, PTL DEF Spec

-----------------------------------------------------------------------------
(* The manager implements the hub.                                         *)

Tasks == Len(queue) + Cardinality(Active) + Cardinality(Yielding)

\* What a step of one thread does to the set of threads that put a READY
\* fiber back on the list.
LEMMA YieldingStep ==
  ASSUME TypeOK, NEW t \in Threads, NEW v, Goto(t, v)
  PROVE  /\ pc[t] # "requeue" /\ v # "requeue" => Yielding' = Yielding
         /\ pc[t] # "requeue" /\ v = "requeue"
              => Cardinality(Yielding') = Cardinality(Yielding) + 1
         /\ pc[t] = "requeue" /\ v # "requeue"
              => Cardinality(Yielding') = Cardinality(Yielding) - 1
  <1>1. PICK S : S = {"requeue"}
    OBVIOUS
  <1>2. Yielding = At(S) /\ Yielding' = At(S)'
    BY <1>1 DEF Yielding
  <1>3. \A x : x \in S <=> x = "requeue"
    BY <1>1
  <1> QED BY <1>2, <1>3, AtStep

\* The three numbers are numbers.
LEMMA TasksType ==
  ASSUME TypeOK
  PROVE  /\ Len(queue) \in Nat /\ Cardinality(Active) \in Nat
         /\ Cardinality(Yielding) \in Nat /\ Tasks \in Nat
         /\ \A t \in Threads : t \in Active \/ t \in Yielding => Tasks > 0
  <1>1. IsFiniteSet(Active) /\ IsFiniteSet(Yielding)
    BY PoolAssumption, FS_Subset DEF Active, Yielding, At
  <1>2. Cardinality(Active) \in Nat /\ Cardinality(Yielding) \in Nat
    BY <1>1, FS_CardinalityType
  <1>3. Len(queue) \in Nat
    BY DEF TypeOK
  <1>4. ASSUME NEW t \in Threads, t \in Active \/ t \in Yielding
        PROVE  Cardinality(Active) # 0 \/ Cardinality(Yielding) # 0
    BY <1>1, <1>4, FS_EmptySet
  <1>5. Tasks \in Nat
    BY <1>2, <1>3 DEF Tasks
  <1> QED BY <1>2, <1>3, <1>4, <1>5 DEF Tasks

\* What a step of one thread does to the set of threads in a task.
LEMMA ActiveStep ==
  ASSUME TypeOK, NEW t \in Threads,
         \A u \in Threads \ {t} : pc'[u] = pc[u] /\ back'[u] = back[u]
  PROVE  /\ IsFiniteSet(Active) /\ Cardinality(Active) \in Nat
         /\ (t \in Active <=> t \in Active') => Active' = Active
         /\ t \notin Active /\ t \in Active'
              => Cardinality(Active') = Cardinality(Active) + 1
         /\ t \in Active /\ t \notin Active'
              => Cardinality(Active') = Cardinality(Active) - 1
         /\ t \in Active => Cardinality(Active) # 0
  <1>1. IsFiniteSet(Active) /\ Cardinality(Active) \in Nat
    BY PoolAssumption, FS_Subset, FS_CardinalityType DEF Active
  <1>2. Active' \ {t} = Active \ {t}
    BY DEF Active
  <1>3. ASSUME t \notin Active, t \in Active'
        PROVE  Cardinality(Active') = Cardinality(Active) + 1
    <2>1. Active' = Active \cup {t}
      BY <1>2, <1>3
    <2> QED BY <2>1, <1>1, <1>3, FS_AddElement
  <1>4. ASSUME t \in Active, t \notin Active'
        PROVE  Cardinality(Active') = Cardinality(Active) - 1
    <2>1. Active' = Active \ {t}
      BY <1>2, <1>4
    <2> QED BY <2>1, <1>1, <1>4, FS_RemoveElement
  <1>5. t \in Active => Cardinality(Active) # 0
    BY <1>1, FS_EmptySet
  <1>6. ASSUME t \in Active <=> t \in Active' PROVE Active' = Active
    <2>1. \A u : u \in Active' <=> u \in Active
      BY <1>2, <1>6
    <2> QED BY <2>1
  <1> QED BY <1>1, <1>3, <1>4, <1>5, <1>6

\* Initially the hub is empty and open.
LEMMA InitHub == Init => Hub!HubInit
  <1> SUFFICES ASSUME Init PROVE Hub!HubInit
    OBVIOUS
  <1>1. Armed = {} /\ Active = {} /\ Yielding = {}
    BY DEF Init, Armed, Active, Yielding, At, Holding
  <1>2. /\ Len(queue) = 0 /\ Cardinality(Active) = 0
        /\ Cardinality(Yielding) = 0
    BY <1>1, FS_EmptySet DEF Init
  <1> QED BY <1>1, <1>2 DEF Init, Hub!HubInit, Yielding

\* A step that the hub does not see.
LEMMA HubVars ==
  ASSUME UNCHANGED <<Armed, owner, hasty>>, Tasks' = Tasks
  PROVE  UNCHANGED Hub!hub
  BY DEF Hub!hub, Tasks, Yielding

\* Whoever makes a step has not left: the hub is open.
LEMMA HubOpen ==
  ASSUME DrainInv, NEW t \in Threads, pc[t] # "exited"
  PROVE  owner # "joined"
  BY DEF DrainInv, JoinedInv, AllGone

\* A thread's loop moves a task between the list and a thread, moves
\* nothing, or overlooks a task.
LEMMA HubLoop ==
  ASSUME DrainInv, TypeOK', NEW t \in Threads, RunLoop(t) \/ IdleLoop(t)
  PROVE  [Hub!HubNext]_(Hub!hub)
  <1>0. TypeOK
    BY DEF DrainInv, SyncInv
  <1>1. ASSUME UNCHANGED <<fdVars, owner, hasty, queue>>,
               \A u \in Threads \ {t} : pc'[u] = pc[u] /\ back'[u] = back[u],
               t \notin Active, t \notin Active',
               t \notin Yielding, t \notin Yielding'
        PROVE  UNCHANGED Hub!hub
    <2>1. Active' = Active /\ Armed' = Armed
      BY <1>0, <1>1, ActiveStep DEF Armed, fdVars
    <2>2. Yielding' = Yielding
      BY <1>1 DEF Yielding, At
    <2> QED BY <1>1, <2>1, <2>2, HubVars DEF Tasks
  <1>2. CASE Pick(t)
    <2>1. /\ t \notin Active /\ t \in Active'
          /\ \A u \in Threads \ {t} : pc'[u] = pc[u] /\ back'[u] = back[u]
      BY <1>0, <1>2 DEF Pick, Goto, Active, Holding, TypeOK
    <2>2. Cardinality(Active') = Cardinality(Active) + 1
      BY <1>0, <2>1, ActiveStep
    <2>3. Yielding' = Yielding
      BY <1>0, <1>2 DEF Pick, Goto, Yielding, At, TypeOK
    <2>4. Len(queue') = Len(queue) - 1
      BY <1>0, <1>2, RemoveAtLength DEF Pick, TypeOK
    <2>5. Tasks' = Tasks
      BY <1>0, <2>2, <2>3, <2>4, TasksType DEF Tasks
    <2>6. UNCHANGED <<Armed, owner, hasty>>
      BY <1>2 DEF Pick, Armed, fdVars, noteVars
    <2> QED BY <2>5, <2>6, HubVars
  <1>3. ASSUME NEW v \in {"exited", "ask", "askPending", "wait", "pick",
                          "handle"},
               pc[t] \notin Holding \cup {"task", "requeue"}, Goto(t, v),
               UNCHANGED <<fdVars, owner, hasty, queue, back>>
        PROVE  UNCHANGED Hub!hub
    <2>1. /\ t \notin Active /\ t \notin Active'
          /\ t \notin Yielding /\ t \notin Yielding'
          /\ \A u \in Threads \ {t} : pc'[u] = pc[u] /\ back'[u] = back[u]
      BY <1>0, <1>3 DEF Goto, Active, Yielding, At, Holding, TypeOK
    <2> QED BY <1>1, <1>3, <2>1
  <1>4. CASE PickNothing(t) \/ Settle(t)
    BY <1>3, <1>4 DEF PickNothing, Settle, Holding, noteVars
  <1>5. CASE AskScheduler(t)
    <2>1. CASE hasty' = hasty
      BY <1>3, <1>5, <2>1 DEF AskScheduler, Holding
    <2>2. CASE hasty' # hasty
      <3>1. SchedulerStopping /\ Yielding # {} /\ hasty'
        BY <1>0, <1>5, <2>2 DEF AskScheduler, Yielding, TypeOK
      <3>2. Tasks > 0
        <4>1. PICK u \in Yielding : TRUE
          BY <3>1
        <4> QED BY <1>0, <4>1, TasksType DEF Yielding, At
      <3>3. /\ Active' = Active /\ Yielding' = Yielding /\ Armed' = Armed
            /\ UNCHANGED <<queue, owner>>
        BY <1>0, <1>5 DEF AskScheduler, Goto, Active, Yielding, At, Armed,
                          Holding, fdVars, TypeOK
      <3>4. owner # "joined"
        BY <1>5, HubOpen DEF AskScheduler
      <3>5. Hub!Overlook
        BY <3>1, <3>2, <3>3 DEF Hub!Overlook, Tasks, Yielding
      <3> QED BY <3>4, <3>5 DEF Hub!HubNext
    <2> QED BY <2>1, <2>2
  <1>6. CASE AskPending(t)
    BY <1>3, <1>6 DEF AskPending, Holding, noteVars
  <1>7. CASE EpollWait(t)
    BY <1>3, <1>7 DEF EpollWait, Holding, noteVars
  <1>8. CASE HandleStale(t)
    <2>1. UNCHANGED <<fdVars, owner, hasty, queue, back, pc>>
      BY <1>8 DEF HandleStale, noteVars
    <2> QED BY <2>1, HubVars DEF Tasks, Active, Yielding, At, Armed, fdVars
  <1>9. CASE HandleReady(t)
    <2>1. /\ t \notin Active /\ t \notin Active'
          /\ t \notin Yielding /\ t \notin Yielding'
          /\ \A u \in Threads \ {t} : pc'[u] = pc[u] /\ back'[u] = back[u]
      BY <1>0, <1>9 DEF HandleReady, Goto, Active, Yielding, At, Holding,
                        TypeOK
    <2>2. UNCHANGED <<fdVars, owner, hasty, queue>>
      BY <1>9 DEF HandleReady, noteVars
    <2> QED BY <1>1, <2>1, <2>2
  <1>10. CASE IdleYield(t)
    BY <1>3, <1>10 DEF IdleYield, Holding, noteVars
  <1>11. CASE Requeue(t)
    <2>1. /\ pc[t] = "requeue" /\ pc' = [pc EXCEPT ![t] = "pick"]
          /\ Goto(t, "pick")
          /\ queue' = Append(queue, AnyThread)
          /\ UNCHANGED <<fdVars, owner, hasty, back>>
      BY <1>11 DEF Requeue, Goto, noteVars
    <2>2. Active' = Active
      BY <1>0, <2>1 DEF Active, Holding, TypeOK
    <2>3. Cardinality(Yielding') = Cardinality(Yielding) - 1
      BY <1>0, <2>1, YieldingStep
    <2>4. Len(queue') = Len(queue) + 1
      BY <1>0, <2>1 DEF TypeOK
    <2>5. Tasks' = Tasks
      BY <1>0, <2>2, <2>3, <2>4, TasksType DEF Tasks
    <2> QED BY <2>1, <2>5, HubVars DEF Armed, fdVars
  <1> QED BY <1>2, <1>4, <1>5, <1>6, <1>7, <1>8, <1>9, <1>10, <1>11
             DEF RunLoop, IdleLoop

\* triggerEvent hands its event over; the decrement is invisible.
LEMMA HubTriggers ==
  ASSUME DrainInv, TypeOK', NEW t \in Threads, Triggers(t)
  PROVE  [Hub!HubNext]_(Hub!hub)
  <1>0. TypeOK /\ SyncInv
    BY DEF DrainInv, SyncInv
  <1>1. CASE Trigger(t)
    <2> DEFINE s == <<fd[t], First(t)>>
    <2>1. t \in At(Holding)
      BY <1>1 DEF Trigger, At, Holding
    <2>2. fd[t] \in Fds /\ First(t) \in Events
      BY <2>1, <1>0, FirstOfTodo DEF SyncInv, HeldInSync
    <2>3. s \in Armed /\ Armed' = Armed \ {s}
      BY <1>0, <1>1, <2>2 DEF Trigger, Armed, TypeOK
    <2>4. Active' = Active /\ Yielding' = Yielding
      BY <1>0, <1>1 DEF Trigger, Goto, Active, Yielding, At, Holding, TypeOK
    <2>5. Tasks' = Tasks + 1
      <3>1. Len(queue') = Len(queue) + 1
        BY <1>0, <1>1 DEF Trigger, TypeOK
      <3> HIDE DEF s
      <3> QED BY <1>0, <2>4, <3>1, TasksType DEF Tasks
    <2>6. UNCHANGED <<owner, hasty>> /\ owner # "joined"
      BY <1>1, HubOpen DEF Trigger, noteVars
    <2>7. Hub!HandOver(s)
      BY <2>3, <2>5, <2>6 DEF Hub!HandOver, Tasks, Yielding
    <2>8. s \in Fds \X Events
      BY <2>2
    <2> QED BY <2>6, <2>7, <2>8 DEF Hub!HubNext
  <1>2. CASE Count(t)
    <2>1. /\ pc[t] = "count" /\ UNCHANGED <<events, owner, hasty, queue>>
          /\ \/ Goto(t, "trigger") /\ UNCHANGED back
             \/ Goto(t, back[t]) /\ back' = [back EXCEPT ![t] = "task"]
      BY <1>2 DEF Count, NextTrigger, noteVars
    <2>2. back[t] \in {"task", "handle"}
      BY <1>0 DEF TypeOK
    <2>3. /\ t \in Active <=> t \in Active'
          /\ \A u \in Threads \ {t} : pc'[u] = pc[u] /\ back'[u] = back[u]
      BY <1>0, <2>1, <2>2 DEF Goto, Active, Holding, TypeOK
    <2>4. Active' = Active
      BY <1>0, <2>3, ActiveStep
    <2>5. Yielding' = Yielding
      BY <1>0, <2>1, <2>2 DEF Goto, Yielding, At, TypeOK
    <2> QED BY <2>1, <2>4, <2>5, HubVars DEF Tasks, Armed
  <1> QED BY <1>1, <1>2 DEF Triggers

\* A task arms, withdraws, hands in, yields and ends.
LEMMA HubTask ==
  ASSUME DrainInv, TypeOK', NEW t \in Threads, Task(t)
  PROVE  [Hub!HubNext]_(Hub!hub)
  <1>0. TypeOK
    BY DEF DrainInv, SyncInv
  <1>1. pc[t] = "task" /\ t \in Active
    BY DEF Task, TaskSchedules, EndTask, YieldReady, CancelAll, CancelEvent,
           CancelSet, AddEvent, DelEvent, Consume, Active
  <1>3. Tasks > 0
    BY <1>0, <1>1, TasksType
  <1>4. owner # "joined"
    BY <1>1, HubOpen
  <1>5. CASE TaskSchedules(t)
    <2>1. PICK p \in Pins : Schedule(p)
      BY <1>5 DEF TaskSchedules
    <2>2. /\ UNCHANGED <<fdVars, pc, back, owner, hasty>>
          /\ Len(queue') = Len(queue) + 1
      BY <1>0, <1>5, <2>1, ScheduleType
         DEF TaskSchedules, Schedule, threadVars
    <2>3. Active' = Active /\ Armed' = Armed /\ Yielding' = Yielding
      BY <2>2 DEF Active, Armed, Yielding, At, fdVars
    <2>4. Tasks' = Tasks + 1
      BY <1>0, <2>2, <2>3, TasksType DEF Tasks
    <2>5. Hub!HandIn
      BY <2>2, <2>3, <2>4 DEF Hub!HandIn, Tasks, Yielding
    <2> QED BY <1>4, <2>5 DEF Hub!HubNext
  <1>6. CASE EndTask(t) \/ YieldReady(t)
    <2>1. /\ UNCHANGED <<fdVars, owner, hasty, queue, back>>
          /\ \/ Goto(t, "settle") /\ EndTask(t)
             \/ Goto(t, "requeue") /\ YieldReady(t)
      BY <1>6 DEF EndTask, YieldReady, noteVars
    <2>2. /\ t \notin Active'
          /\ \A u \in Threads \ {t} : pc'[u] = pc[u] /\ back'[u] = back[u]
      BY <1>0, <2>1 DEF Goto, Active, Holding, TypeOK
    <2>3. Cardinality(Active') = Cardinality(Active) - 1
      BY <1>0, <1>1, <2>2, ActiveStep
    <2>4. CASE Goto(t, "settle")
      <3>1. Yielding' = Yielding
        BY <1>0, <1>1, <2>4, YieldingStep
      <3>2. Tasks' = Tasks - 1
        BY <1>0, <2>1, <2>3, <3>1, TasksType DEF Tasks
      <3>3. Hub!EndTask
        BY <1>3, <2>1, <3>2 DEF Hub!EndTask, Armed, fdVars, Tasks, Yielding
      <3> QED BY <1>4, <3>3 DEF Hub!HubNext
    <2>5. CASE Goto(t, "requeue")
      <3>1. Cardinality(Yielding') = Cardinality(Yielding) + 1
        BY <1>0, <1>1, <2>5, YieldingStep
      <3>2. Tasks' = Tasks
        BY <1>0, <2>1, <2>3, <3>1, TasksType DEF Tasks
      <3> QED BY <2>1, <3>2, HubVars DEF Armed, fdVars
    <2> QED BY <2>1, <2>4, <2>5
  <1>7. ASSUME NEW f \in Fds, NEW S, CancelSet(t, f, S)
        PROVE  UNCHANGED Hub!hub
    <2>1. /\ UNCHANGED <<fdVars, owner, hasty, queue>>
          /\ t \in Active' /\ Goto(t, "trigger")
          /\ \A u \in Threads \ {t} : pc'[u] = pc[u] /\ back'[u] = back[u]
      BY <1>0, <1>7 DEF CancelSet, Goto, Active, Holding, noteVars, TypeOK
    <2>2. Active' = Active
      BY <1>0, <1>1, <2>1, ActiveStep
    <2>3. Yielding' = Yielding
      BY <1>0, <1>1, <2>1, YieldingStep
    <2> QED BY <2>1, <2>2, <2>3, HubVars DEF Tasks, Armed, fdVars
  <1>8. ASSUME NEW f \in Fds, NEW e \in Events, AddEvent(t, f, e)
        PROVE  Hub!HubNext
    <2>1. <<f, e>> \notin Armed /\ Armed' = Armed \cup {<<f, e>>}
      BY <1>0, <1>8 DEF AddEvent, Armed, TypeOK
    <2>2. UNCHANGED <<owner, hasty, queue>> /\ Active' = Active
          /\ Yielding' = Yielding
      BY <1>8 DEF AddEvent, Active, Yielding, At, threadVars
    <2>3. Hub!Arm(<<f, e>>)
      BY <1>3, <2>1, <2>2 DEF Hub!Arm, Tasks, Yielding
    <2> QED BY <1>4, <2>3 DEF Hub!HubNext
  <1>9. ASSUME NEW f \in Fds, NEW e \in Events, DelEvent(t, f, e)
        PROVE  Hub!HubNext
    <2>1. <<f, e>> \in Armed /\ Armed' = Armed \ {<<f, e>>}
      BY <1>0, <1>9 DEF DelEvent, Armed, TypeOK
    <2>2. UNCHANGED <<owner, hasty, queue>> /\ Active' = Active
          /\ Yielding' = Yielding
      BY <1>9 DEF DelEvent, Active, Yielding, At, threadVars, noteVars
    <2>3. Hub!Withdraw(<<f, e>>)
      BY <1>3, <2>1, <2>2 DEF Hub!Withdraw, Tasks, Yielding
    <2> QED BY <1>4, <2>3 DEF Hub!HubNext
  <1>10. ASSUME NEW f \in Fds, NEW e \in Events, Consume(t, f, e)
         PROVE  UNCHANGED Hub!hub
    <2>1. UNCHANGED <<fdVars, owner, hasty, queue, pc, back>>
      BY <1>10 DEF Consume, threadVars, noteVars
    <2> QED BY <2>1, HubVars DEF Tasks, Active, Yielding, At, Armed, fdVars
  <1> QED BY <1>5, <1>6, <1>7, <1>8, <1>9, <1>10
             DEF Task, CancelAll, CancelEvent

\* The owner hands in before stop(), and closes when all have left.
LEMMA HubOutside ==
  ASSUME DrainInv,
         \/ \E f \in Fds, s \in Signals : Arrive(f, s)
         \/ OwnerSchedules \/ StopBegin \/ StopJoin \/ Joined
         \/ UNCHANGED vars
  PROVE  [Hub!HubNext]_(Hub!hub)
  <1>0. TypeOK
    BY DEF DrainInv, SyncInv
  <1>1. UNCHANGED <<Armed, Active, Yielding, hasty>>
    BY DEF Arrive, OwnerSchedules, Schedule, StopBegin, StopJoin, Joined,
           vars, threadVars, fdVars, noteVars, Armed, Active, Yielding, At
  <1>2. CASE OwnerSchedules
    <2>1. PICK p \in Pins : Schedule(p)
      BY <1>2 DEF OwnerSchedules
    <2>2. Len(queue') = Len(queue) + 1 /\ owner = "up" /\ owner' = "up"
      BY <1>0, <1>2, <2>1, ScheduleType DEF OwnerSchedules
    <2>3. Tasks' = Tasks + 1
      BY <1>0, <1>1, <2>2, TasksType DEF Tasks
    <2>4. Hub!HandIn
      BY <1>1, <2>2, <2>3 DEF Hub!HandIn, Tasks, Yielding
    <2> QED BY <2>2, <2>4 DEF Hub!HubNext
  <1>3. CASE StopJoin
    <2>1. AllGone /\ owner = "stopping"
      BY <1>3 DEF StopJoin, AllGone
    <2>2. ~hasty => Tasks = 0 /\ Armed = {}
      <3>1. ASSUME ~hasty
            PROVE  queue = <<>> /\ Active = {} /\ Yielding = {} /\ Armed = {}
        BY <2>1, <3>1, GoneMeansDone
      <3>2. ASSUME ~hasty
            PROVE  Len(queue) = 0 /\ Cardinality(Active) = 0
                   /\ Cardinality(Yielding) = 0
        BY <3>1, <3>2, FS_EmptySet
      <3> QED BY <3>1, <3>2 DEF Tasks
    <2>3. owner' = "joined" /\ UNCHANGED queue
      BY <1>3 DEF StopJoin
    <2>4. Hub!Close
      BY <1>1, <2>2, <2>3 DEF Hub!Close, Tasks, Yielding
    <2> QED BY <2>1, <2>4 DEF Hub!HubNext
  <1>4. CASE StopBegin
    <2>1. owner = "up" /\ owner' = "stopping" /\ UNCHANGED queue
      BY <1>4 DEF StopBegin
    <2> QED BY <2>1, <1>1 DEF Hub!hub, Yielding
  <1>5. CASE \/ \E f \in Fds, s \in Signals : Arrive(f, s)
             \/ Joined \/ UNCHANGED vars
    <2>1. UNCHANGED <<owner, queue>>
      BY <1>5 DEF Arrive, Joined, vars
    <2> QED BY <2>1, <1>1, HubVars DEF Tasks
  <1> QED BY <1>2, <1>3, <1>4, <1>5

\* For any pool and any descriptors the manager implements the hub: every
\* registered event is handed over as one task or withdrawn, stop() returns
\* only when nothing is left or a task had been overlooked, and after it
\* nothing happens.
THEOREM ManagerImplementsHub == Spec => ImplementsHub
  <1>1. DrainInv /\ [Next]_vars => [Hub!HubNext]_(Hub!hub)
    <2> SUFFICES ASSUME DrainInv, [Next]_vars
                 PROVE  [Hub!HubNext]_(Hub!hub)
      OBVIOUS
    <2>1. TypeOK /\ TypeOK'
      BY NextDrain DEF DrainInv, SyncInv
    <2> QED BY <2>1, HubLoop, HubTriggers, HubTask, HubOutside
               DEF Next, ThreadStep
  <1> QED BY <1>1, InitHub, InitDrain, NextDrain, PTL
             DEF Spec, ImplementsHub, Hub!HubSpec

-----------------------------------------------------------------------------
(* Without READY yields no task is ever off the list and uncounted.        *)

\* For any pool whose tasks do not yield READY: when all threads have left,
\* the list is empty and no event is registered.
THEOREM NoYieldNoWorkLeft ==
  ASSUME MaxYields = 0
  PROVE  Spec => [](AllGone => queue = <<>> /\ Armed = {})
  <1> DEFINE Calm == yields = 0 /\ Yielding = {} /\ ~hasty
  <1>1. Init => Calm
    BY DEF Init, Yielding, At
  <1>2. TypeOK /\ Calm /\ [Next]_vars => Calm'
    <2> SUFFICES ASSUME TypeOK, Calm, [Next]_vars PROVE Calm'
      OBVIOUS
    <2>1. ASSUME UNCHANGED <<yields, hasty>>,
                 \A t \in Threads : pc'[t] = pc[t] \/ pc'[t] # "requeue"
          PROVE  Calm'
      BY <2>1 DEF Yielding, At
    <2>2. ASSUME NEW t \in Threads, AskScheduler(t) PROVE Calm'
      <3>1. /\ UNCHANGED yields
            /\ pc' = [pc EXCEPT ![t] = IF SchedulerStopping
                                         THEN "askPending" ELSE "wait"]
        BY <2>2 DEF AskScheduler, Goto, boundVars
      <3>2. \A u \in Threads : pc'[u] = pc[u] \/ pc'[u] # "requeue"
        BY <3>1 DEF TypeOK
      <3>3. hasty' = hasty
        BY <2>2 DEF AskScheduler, Yielding, TypeOK
      <3> QED BY <2>1, <3>1, <3>2, <3>3
    <2>3. ASSUME NEW t \in Threads, YieldReady(t) PROVE FALSE
      BY <2>3 DEF YieldReady
    <2>4. ASSUME NEW t \in Threads, RunLoop(t)
          PROVE  Calm'
      BY <2>1, <2>4 DEF RunLoop, Pick, PickNothing, Settle, Requeue, Goto,
                        noteVars, boundVars, TypeOK
    <2>5. ASSUME NEW t \in Threads, IdleLoop(t) PROVE Calm'
      BY <2>1, <2>2, <2>5
         DEF IdleLoop, AskPending, EpollWait, HandleStale, HandleReady,
             IdleYield, Goto, noteVars, boundVars, TypeOK
    <2>6. ASSUME NEW t \in Threads, Triggers(t) PROVE Calm'
      <3>1. back[t] # "requeue"
        BY DEF TypeOK
      <3> QED BY <2>1, <2>6, <3>1
              DEF Triggers, Trigger, Count, NextTrigger, Goto, noteVars,
                  boundVars, TypeOK
    <2>7. ASSUME NEW t \in Threads, Task(t) PROVE Calm'
      BY <2>1, <2>3, <2>7
         DEF Task, TaskSchedules, Schedule, EndTask, CancelAll, CancelEvent,
             CancelSet, AddEvent, DelEvent, Consume, Goto, noteVars,
             boundVars, threadVars, TypeOK
    <2>8. CASE \/ \E f \in Fds, s \in Signals : Arrive(f, s)
               \/ OwnerSchedules \/ StopBegin \/ StopJoin \/ Joined
               \/ UNCHANGED vars
      BY <2>1, <2>8
         DEF Arrive, OwnerSchedules, Schedule, StopBegin, StopJoin, Joined,
             vars, noteVars, boundVars, threadVars
    <2> QED BY <2>4, <2>5, <2>6, <2>7, <2>8 DEF Next, ThreadStep
  <1>3. DrainInv /\ Calm => (AllGone => queue = <<>> /\ Armed = {})
    BY GoneMeansDone
  <1>4. DrainInv => TypeOK
    BY DEF DrainInv, SyncInv
  <1> HIDE DEF Calm
  <1> QED BY <1>1, <1>2, <1>3, <1>4, InitDrain, NextDrain, PTL DEF Spec

-----------------------------------------------------------------------------
(* With one thread, nobody withdraws an event between epoll_wait and the   *)
(* triggering of what it reported, and the thread that leaves is the last. *)

\* What epoll_wait reported to t and t has not dealt with is registered.
Current(t) == \A f \in Fds : got[t][f] \cap Events \subseteq events[f]

MaskTrue(t) ==
    /\ pc[t] = "trigger" => todo[t] \subseteq events[fd[t]]
    /\ pc[t] = "count" => todo[t] \ {First(t)} \subseteq events[fd[t]]
    /\ pc[t] = "handle" => Current(t)
    /\ pc[t] \in Holding /\ back[t] = "handle" =>
         Current(t) /\ got[t][fd[t]] = {}

LEMMA MaskLoop ==
  ASSUME NEW t, Threads = {t}, SyncInv, MaskTrue(t), RunLoop(t) \/ IdleLoop(t)
  PROVE  MaskTrue(t)'
  <1> USE DEF SyncInv, TypeOK
  <1>1. CASE \/ RunLoop(t) \/ AskScheduler(t)
             \/ AskPending(t) \/ IdleYield(t)
    <2>1. pc'[t] \notin Holding \cup {"handle"}
      BY <1>1 DEF RunLoop, Pick, PickNothing, Settle, Requeue, AskScheduler,
                  AskPending, IdleYield,
                  Goto, Holding
    <2> QED BY <2>1 DEF MaskTrue, Holding
  <1>2. CASE EpollWait(t)
    <2>1. /\ \A f \in Fds : got'[t][f] \subseteq interest[f] \cup {"HUP"}
          /\ pc'[t] = "handle" /\ UNCHANGED events
      BY <1>2 DEF EpollWait, Report, Goto, fdVars
    <2>2. \A f \in Fds : events[f] = interest[f]
      BY <1>2 DEF EpollWait, ContextsInSync, Unlocked, At, Holding
    <2>3. Current(t)'
      BY <2>1, <2>2, EventsAssumption DEF Current
    <2> QED BY <2>1, <2>3 DEF MaskTrue, Holding
  <1>3. CASE HandleStale(t)
    <2>1. /\ UNCHANGED <<events, pc>> /\ pc[t] = "handle"
          /\ \A f \in Fds : got'[t][f] \subseteq got[t][f]
      BY <1>3 DEF HandleStale, Handled, fdVars
    <2> QED BY <2>1 DEF MaskTrue, Current, Holding
  <1>4. CASE HandleReady(t)
    <2>1. PICK f \in Fds : /\ Handled(t, f)
                           /\ fd' = [fd EXCEPT ![t] = f]
                           /\ todo' = [todo EXCEPT ![t] = Real(t, f)]
      BY <1>4 DEF HandleReady
    <2>2. /\ pc[t] = "handle" /\ pc'[t] = "trigger"
          /\ UNCHANGED events
      BY <1>4 DEF HandleReady, Goto, fdVars
    <2>3. Current(t)
      BY <2>2 DEF MaskTrue
    <2>4. Real(t, f) \subseteq events[f]
      BY <2>3 DEF Current, Real
    <2>5. /\ fd'[t] = f /\ todo'[t] = Real(t, f) /\ got'[t][f] = {}
          /\ \A g \in Fds : got'[t][g] \subseteq got[t][g]
      BY <2>1 DEF Handled
    <2>6. Current(t)'
      BY <2>2, <2>3, <2>5 DEF Current
    <2> QED BY <2>2, <2>4, <2>5, <2>6 DEF MaskTrue, Holding
  <1> QED BY <1>1, <1>2, <1>3, <1>4 DEF IdleLoop

LEMMA MaskTrigger ==
  ASSUME NEW t, Threads = {t}, SyncInv, MaskTrue(t), Triggers(t)
  PROVE  MaskTrue(t)'
  <1>1. t \in At(Holding) /\ pc[t] \in Holding
    BY DEF Triggers, Trigger, Count, At, Holding
  <1> DEFINE f == fd[t]
             e == First(t)
  <1>2. f \in Fds /\ e \in todo[t]
    BY <1>1, FirstOfTodo DEF SyncInv, HeldInSync
  <1> HIDE DEF f, e
  <1>3. CASE Trigger(t)
    <2>1. /\ pc[t] = "trigger" /\ pc'[t] = "count"
          /\ events' = [events EXCEPT ![f] = @ \ {e}]
          /\ UNCHANGED <<todo, fd, back, got>>
      BY <1>3 DEF Trigger, Goto, SyncInv, TypeOK, f, e
    <2>2. events'[f] = events[f] \ {e} /\ \A g \in Fds \ {f} :
                                            events'[g] = events[g]
      BY <1>2, <2>1 DEF SyncInv, TypeOK
    <2>3. First(t)' = e /\ fd'[t] = f /\ fd[t] = f
      BY <2>1 DEF First, e, f
    <2>4. todo'[t] \ {e} \subseteq events'[f]
      BY <2>1, <2>2 DEF MaskTrue, f
    <2>5. back[t] = "handle" => Current(t)' /\ got'[t][f] = {}
      BY <1>1, <2>1, <2>2 DEF MaskTrue, Current, f
    <2> QED BY <2>1, <2>3, <2>4, <2>5 DEF MaskTrue
  <1>4. CASE Count(t)
    <2>1. /\ pc[t] = "count" /\ UNCHANGED <<events, got>>
          /\ todo'[t] = todo[t] \ {e}
          /\ \/ /\ pc'[t] = "trigger" /\ fd'[t] = f
                /\ back'[t] = back[t]
             \/ pc'[t] = back[t]
      BY <1>4 DEF Count, NextTrigger, Goto, SyncInv, TypeOK, f, e
    <2>2. back[t] \in {"task", "handle"}
      BY DEF SyncInv, TypeOK
    <2>3. /\ todo'[t] \subseteq events[f]
          /\ back[t] = "handle" => Current(t) /\ got[t][f] = {}
      BY <1>1, <2>1 DEF MaskTrue, f, e
    <2>4. Current(t)' <=> Current(t)
      BY <2>1 DEF Current
    <2>5. CASE pc'[t] = "trigger" /\ fd'[t] = f /\ back'[t] = back[t]
      BY <2>1, <2>3, <2>4, <2>5 DEF MaskTrue
    <2>6. CASE pc'[t] = back[t]
      BY <2>2, <2>3, <2>4, <2>6 DEF MaskTrue, Holding
    <2> QED BY <2>1, <2>5, <2>6
  <1> QED BY <1>3, <1>4 DEF Triggers

LEMMA MaskTask ==
  ASSUME NEW t, Threads = {t}, SyncInv, Task(t)
  PROVE  MaskTrue(t)'
  <1> USE DEF SyncInv, TypeOK
  <1>1. ASSUME NEW f \in Fds, NEW S \in SUBSET Events, CancelSet(t, f, S)
        PROVE  MaskTrue(t)'
    <2>1. /\ pc'[t] = "trigger" /\ back'[t] = "task" /\ todo'[t] = S
          /\ fd'[t] = f /\ S \subseteq events[f] /\ UNCHANGED events
      BY <1>1 DEF CancelSet, Goto, fdVars
    <2> QED BY <2>1 DEF MaskTrue
  <1>2. ASSUME pc'[t] \in {"task", "settle", "requeue"} PROVE MaskTrue(t)'
    BY <1>2 DEF MaskTrue, Holding
  <1>3. ASSUME TaskSchedules(t) \/ EndTask(t) \/ YieldReady(t)
               \/ \E f \in Fds, e \in Events :
                    AddEvent(t, f, e) \/ DelEvent(t, f, e) \/ Consume(t, f, e)
        PROVE  pc'[t] \in {"task", "settle", "requeue"}
    BY <1>3 DEF TaskSchedules, EndTask, YieldReady, AddEvent, DelEvent,
                Consume, Goto,
                threadVars
  <1> QED BY <1>1, <1>2, <1>3 DEF Task, CancelAll, CancelEvent

\* Only a thread that asks can overlook another that yields.
LEMMA NextHasty ==
  ASSUME NEW t, Threads = {t}, [Next]_vars, ~hasty
  PROVE  ~hasty'
  <1>1. CASE AskScheduler(t)
    <2>1. At({"requeue"}) = {}
      BY <1>1 DEF AskScheduler, At
    <2> QED BY <1>1, <2>1 DEF AskScheduler
  <1>2. CASE RunLoop(t) \/ IdleLoop(t)
    BY <1>1, <1>2
       DEF RunLoop, Pick, PickNothing, Settle, Requeue, IdleLoop, AskPending,
           EpollWait, HandleStale, HandleReady, IdleYield, noteVars
  <1>3. CASE Triggers(t) \/ Task(t)
    BY <1>3 DEF Triggers, Trigger, Count, Task, TaskSchedules, Schedule,
                EndTask, YieldReady, CancelAll, CancelEvent, CancelSet,
                AddEvent, DelEvent, Consume, noteVars
  <1>4. CASE \/ \E f \in Fds, s \in Signals : Arrive(f, s)
             \/ OwnerSchedules \/ StopBegin \/ StopJoin \/ Joined
             \/ UNCHANGED vars
    BY <1>4 DEF Arrive, OwnerSchedules, Schedule, StopBegin, StopJoin,
                Joined, vars, noteVars
  <1> QED BY <1>2, <1>3, <1>4 DEF Next, ThreadStep

\* With one thread in the pool, whatever the descriptors and the events: the
\* assertion of triggerEvent holds, and the thread leaves only when no task
\* and no registered event is left.
THEOREM OneThreadIsExact ==
  ASSUME NEW t, Threads = {t}
  PROVE  Spec => [](TriggerAssert /\ ExitMeansDone)
  <1>1. Init => DrainInv /\ MaskTrue(t) /\ ~hasty
    BY InitDrain DEF Init, MaskTrue, Holding
  <1>2. ASSUME DrainInv, MaskTrue(t), ~hasty, [Next]_vars
        PROVE  DrainInv' /\ MaskTrue(t)' /\ ~hasty'
    <2>1. DrainInv' /\ SyncInv
      BY <1>2, NextDrain DEF DrainInv
    <2>2. ASSUME UNCHANGED <<events, threadVars>> PROVE MaskTrue(t)'
      BY <1>2, <2>2 DEF threadVars, MaskTrue, Current, First
    <2>3. ASSUME \/ \E f \in Fds, s \in Signals : Arrive(f, s)
                 \/ OwnerSchedules \/ StopBegin \/ StopJoin \/ Joined
                 \/ UNCHANGED vars
          PROVE  UNCHANGED <<events, threadVars>>
      BY <2>3 DEF Arrive, OwnerSchedules, StopBegin, StopJoin, Joined, vars,
                  fdVars
    <2>4. ~hasty'
      BY <1>2, NextHasty
    <2> QED BY <1>2, <2>1, <2>2, <2>3, <2>4, MaskLoop, MaskTrigger, MaskTask
               DEF Next, ThreadStep
  <1>3. DrainInv /\ MaskTrue(t) /\ ~hasty => TriggerAssert /\ ExitMeansDone
    <2> SUFFICES ASSUME DrainInv, MaskTrue(t), ~hasty
                 PROVE  TriggerAssert /\ ExitMeansDone
      OBVIOUS
    <2>1. ASSUME pc[t] = "trigger" PROVE First(t) \in events[fd[t]]
      <3>1. First(t) \in todo[t]
        BY <2>1, FirstOfTodo DEF DrainInv, At, Holding
      <3> QED BY <2>1, <3>1 DEF MaskTrue
    <2>2. ASSUME pc[t] = "exited"
          PROVE  queue = <<>> /\ Active = {} /\ Armed = {}
      <3>1. Threads = Retired
        BY <2>2 DEF DrainInv, RetiredPlaces, Retired
      <3>2. Threads = Asked
        BY <3>1 DEF Asked, At
      <3>3. queue = <<>> /\ Active = {}
        BY <3>2 DEF DrainInv, QuietInv
      <3>4. Armed = {}
        BY <3>1 DEF DrainInv, DoneInv
      <3> QED BY <3>3, <3>4
    <2> QED BY <2>1, <2>2 DEF TriggerAssert, ExitMeansDone, At
  <1> QED BY <1>1, <1>2, <1>3, PTL DEF Spec

-----------------------------------------------------------------------------
(* The mask is not stale either when only one kind of event is used: a     *)
(* descriptor of which something reported is still registered has all of   *)
(* it registered, and nobody but the holder of its mutex changes that.     *)

OneKind == \A d, e \in Events : d = e

\* A thread is to trigger what is registered.
MaskHeld == \A t \in At({"trigger"}) : todo[t] \subseteq events[fd[t]]

\* A step of t that leaves the events of the descriptors others hold alone.
LEMMA MaskOthers ==
  ASSUME MaskHeld, NEW t \in Threads,
         \A u \in Threads \ {t} :
           /\ pc'[u] = pc[u] /\ fd'[u] = fd[u] /\ todo'[u] = todo[u]
           /\ u \in At({"trigger"}) => events'[fd[u]] = events[fd[u]],
         pc'[t] = "trigger" => todo'[t] \subseteq events'[fd'[t]]
  PROVE  MaskHeld'
  BY DEF MaskHeld, At

\* Every step keeps MaskHeld: a thread that goes on to a second trigger would
\* have two kinds of event to trigger.
LEMMA NextMask ==
  ASSUME OneKind, SyncInv, MaskHeld, [Next]_vars
  PROVE  MaskHeld'
  <1>0. TypeOK /\ Mutex
    BY DEF SyncInv
  <1>1. ASSUME UNCHANGED <<events, pc, fd, todo>> PROVE MaskHeld'
    BY <1>1 DEF MaskHeld, At
  <1>2. ASSUME NEW t \in Threads, RunLoop(t) \/ IdleLoop(t)
        PROVE  MaskHeld'
    <2>1. /\ UNCHANGED events
          /\ \A u \in Threads \ {t} :
               pc'[u] = pc[u] /\ fd'[u] = fd[u] /\ todo'[u] = todo[u]
      BY <1>0, <1>2
         DEF RunLoop, Pick, PickNothing, Settle, Requeue, IdleLoop,
             AskScheduler, AskPending,
             EpollWait, HandleStale, HandleReady, IdleYield, Goto, fdVars,
             TypeOK
    <2>2. ASSUME pc'[t] = "trigger" PROVE todo'[t] \subseteq events'[fd'[t]]
      <3>1. HandleReady(t)
        BY <1>0, <1>2, <2>2
           DEF RunLoop, Pick, PickNothing, Settle, Requeue, IdleLoop,
               AskScheduler, AskPending,
               EpollWait, HandleStale, IdleYield, Goto, TypeOK
      <3>2. PICK f \in Fds : /\ events[f] \cap Real(t, f) # {}
                            /\ fd' = [fd EXCEPT ![t] = f]
                            /\ todo' = [todo EXCEPT ![t] = Real(t, f)]
        BY <3>1 DEF HandleReady
      <3>3. /\ fd'[t] = f /\ todo'[t] = Real(t, f)
            /\ Real(t, f) \subseteq Events /\ events[f] \subseteq Events
        BY <1>0, <3>2 DEF TypeOK, Real
      <3> QED BY <2>1, <3>2, <3>3 DEF OneKind
    <2> QED BY <2>1, <2>2, MaskOthers
  <1>3. ASSUME NEW t \in Threads, Trigger(t) PROVE MaskHeld'
    <2>1. /\ pc[t] = "trigger" /\ pc' = [pc EXCEPT ![t] = "count"]
          /\ UNCHANGED <<fd, todo>>
          /\ events' = [events EXCEPT ![fd[t]] = @ \ {First(t)}]
      BY <1>3 DEF Trigger, Goto
    <2>2. ASSUME NEW u \in Threads \ {t}, u \in At({"trigger"})
          PROVE  fd[u] # fd[t]
      BY <1>0, <2>1, <2>2 DEF Mutex, At, Holding
    <2>3. \A u \in Threads \ {t} :
            u \in At({"trigger"}) => events'[fd[u]] = events[fd[u]]
      BY <1>0, <2>1, <2>2 DEF TypeOK
    <2> QED BY <1>0, <2>1, <2>3, MaskOthers DEF TypeOK
  <1>4. ASSUME NEW t \in Threads, Count(t) PROVE MaskHeld'
    <2>1. /\ UNCHANGED events
          /\ \A u \in Threads \ {t} :
               pc'[u] = pc[u] /\ fd'[u] = fd[u] /\ todo'[u] = todo[u]
      BY <1>0, <1>4 DEF Count, NextTrigger, Goto, TypeOK
    <2>2. pc'[t] # "trigger"
      <3>1. /\ pc[t] = "count" /\ back[t] # "trigger"
            /\ todo[t] \subseteq Events
        BY <1>0, <1>4 DEF Count, TypeOK
      <3>2. First(t) \in todo[t]
        BY <1>0, <3>1, FirstOfTodo DEF SyncInv, At, Holding
      <3>3. todo[t] \ {First(t)} = {}
        BY <3>1, <3>2 DEF OneKind
      <3> QED BY <1>0, <1>4, <3>1, <3>3 DEF Count, NextTrigger, Goto, TypeOK
    <2> QED BY <2>1, <2>2, MaskOthers
  <1>5. ASSUME NEW t \in Threads, NEW f \in Fds, NEW S, CancelSet(t, f, S)
        PROVE  MaskHeld'
    <2>1. /\ S \subseteq events[f] /\ UNCHANGED events
          /\ fd'[t] = f /\ todo'[t] = S
          /\ \A u \in Threads \ {t} :
               pc'[u] = pc[u] /\ fd'[u] = fd[u] /\ todo'[u] = todo[u]
      BY <1>0, <1>5 DEF CancelSet, Goto, fdVars, TypeOK
    <2> QED BY <2>1, MaskOthers
  <1>6. ASSUME NEW t \in Threads, NEW f \in Fds, NEW e \in Events,
               AddEvent(t, f, e) \/ DelEvent(t, f, e)
        PROVE  MaskHeld'
    <2>1. /\ pc[t] = "task" /\ Unlocked(f) /\ UNCHANGED <<pc, fd, todo>>
          /\ \A g \in Fds \ {f} : events'[g] = events[g]
          /\ \A g : g \notin Fds => g # f
      BY <1>0, <1>6 DEF AddEvent, DelEvent, threadVars, TypeOK
    <2>2. \A u \in At({"trigger"}) : fd[u] # f /\ u \in At(Holding)
      BY <2>1 DEF Unlocked, At, Holding
    <2>3. DOMAIN events = Fds /\ DOMAIN events' = Fds
      BY <1>0, <1>6 DEF AddEvent, DelEvent, TypeOK
    <2>4. \A u \in At({"trigger"}) : fd[u] \in Fds
      BY <2>2 DEF SyncInv, HeldInSync
    <2>5. \A u \in At({"trigger"}) : events'[fd[u]] = events[fd[u]]
      BY <2>1, <2>2, <2>4
    <2> QED BY <2>1, <2>5, MaskOthers
  <1>7. ASSUME NEW t \in Threads, Task(t) PROVE MaskHeld'
    <2>1. ASSUME TaskSchedules(t) \/ EndTask(t) \/ YieldReady(t)
                 \/ \E f \in Fds, e \in Events : Consume(t, f, e)
          PROVE  /\ UNCHANGED <<events, fd, todo>>
                 /\ \/ UNCHANGED pc
                    \/ \E v \in {"settle", "requeue"} :
                         pc' = [pc EXCEPT ![t] = v]
      BY <2>1 DEF TaskSchedules, EndTask, YieldReady, Consume, Goto, fdVars,
                  threadVars
    <2>2. ASSUME UNCHANGED <<events, fd, todo>>,
                 NEW v \in {"settle", "requeue"},
                 pc' = [pc EXCEPT ![t] = v]
          PROVE  MaskHeld'
      BY <1>0, <2>2, MaskOthers DEF TypeOK
    <2> QED BY <1>1, <1>5, <1>6, <1>7, <2>1, <2>2
            DEF Task, CancelAll, CancelEvent
  <1>8. ASSUME \/ \E f \in Fds, s \in Signals : Arrive(f, s)
               \/ OwnerSchedules \/ StopBegin \/ StopJoin \/ Joined
               \/ UNCHANGED vars
        PROVE  MaskHeld'
    <2>1. UNCHANGED <<events, pc, fd, todo>>
      BY <1>8 DEF Arrive, OwnerSchedules, StopBegin, StopJoin, Joined, vars,
                  fdVars, threadVars
    <2> QED BY <1>1, <2>1
  <1> QED BY <1>2, <1>3, <1>4, <1>7, <1>8 DEF Next, ThreadStep, Triggers

\* With one kind of event, whatever the threads and the descriptors, the
\* assertion of triggerEvent holds.
THEOREM OneKindIsExact ==
  ASSUME OneKind
  PROVE  Spec => []TriggerAssert
  <1>1. Init => SyncInv /\ MaskHeld
    BY InitSync DEF Init, MaskHeld, At
  <1>2. SyncInv /\ MaskHeld /\ [Next]_vars => SyncInv' /\ MaskHeld'
    BY NextSync, NextMask
  <1>3. SyncInv /\ MaskHeld => TriggerAssert
    <2> SUFFICES ASSUME SyncInv, MaskHeld, NEW t \in At({"trigger"})
                 PROVE  First(t) \in events[fd[t]]
      BY DEF TriggerAssert
    <2>1. First(t) \in todo[t]
      BY FirstOfTodo DEF SyncInv, At, Holding
    <2> QED BY <2>1 DEF MaskHeld
  <1> QED BY <1>1, <1>2, <1>3, PTL DEF Spec
=============================================================================
