--------------------------- MODULE TaskPoolProofs ---------------------------
(***************************************************************************)
(* The scheduler implements TaskPool when every fiber waits for at most    *)
(* one wake-up and, if bodies yield READY, no task names a thread.         *)
(*                                                                         *)
(* SchedulerClaims follows the fibers; this module follows the functions.  *)
(* A function that has been handed in and has not ended is in one place:   *)
(* in an entry of its own, on the list or in a thread's hands, or in one   *)
(* fiber.  Where its fiber is then says where the abstract pool sees it.   *)
(***************************************************************************)
EXTENDS SchedulerClaims

\* The functions on the list, and in the hands of threads, by themselves.
QueuedCb(j) == \E i \in DOMAIN queue : queue[i].cb = j
PickedCb(j) == \E t \in At({"dispatch"}) : ft[t].cb = j

\* The fiber f is on the list or in a thread's hands.
Entered(f) == Queued(f) \/ PickedUp(f)

\* No function is twice on the list, or in two threads' hands.
CbOnce ==
    \A i, k \in DOMAIN queue :
        queue[i].cb = queue[k].cb /\ queue[i].cb # None => i = k

PickedOnce ==
    \A t, u \in At({"dispatch"}) :
        ft[t].cb = ft[u].cb /\ ft[t].cb # None => t = u

\* A function by itself is in one place, and has not run.
WaitingCbs ==
    \A j \in Jobs :
        /\ QueuedCb(j) \/ PickedCb(j) => j \in submitted \ finished
        /\ ~(QueuedCb(j) /\ PickedCb(j))

\* A function in a fiber is nowhere else.  The fiber lets go of it when it
\* returns, not when it throws.
CarriedCbs ==
    \A f \in Fibers :
        cbOf[f] # None =>
          /\ cbOf[f] \in submitted
          /\ cbOf[f] \in finished <=> fstate[f] = "EXCEPT"
          /\ ~QueuedCb(cbOf[f]) /\ ~PickedCb(cbOf[f])
          /\ \A g \in Fibers : cbOf[g] = cbOf[f] => g = f

\* The fibers without a function: those not made, those that returned, and
\* those kept to be used again.
EmptyFibers ==
    \A f \in Fibers :
        cbOf[f] = None <=>
          \/ fstate[f] \in {"FREE", "TERM"}
          \/ fstate[f] = "INIT" /\ ~Entered(f)

\* No function that has been handed in and has not ended is lost.
NoneLost ==
    \A j \in submitted \ finished :
        QueuedCb(j) \/ PickedCb(j) \/ \E f \in Fibers : cbOf[f] = j

JobInv ==
    /\ CbOnce /\ PickedOnce
    /\ WaitingCbs /\ CarriedCbs /\ EmptyFibers /\ NoneLost
    /\ finished \subseteq submitted

LEMMA InitJobs == Init => JobInv
  BY NamesAssumption
     DEF Init, JobInv, CbOnce, PickedOnce, WaitingCbs, CarriedCbs,
         EmptyFibers, NoneLost, QueuedCb, PickedCb, At

\* What the two changes of the list do to the functions on it.
LEMMA AppendCbs ==
  ASSUME TypeOK, CbOnce, NEW e \in Entry, queue' = queue \o <<e>>,
         e.cb # None => ~QueuedCb(e.cb)
  PROVE  /\ CbOnce'
         /\ \A j \in Jobs : QueuedCb(j)' <=> QueuedCb(j) \/ e.cb = j
  <1>1. /\ Len(queue) \in Nat /\ DOMAIN queue = 1..Len(queue)
        /\ DOMAIN queue' = 1..(Len(queue) + 1)
        /\ \A k \in 1..Len(queue) : queue'[k] = queue[k]
        /\ queue'[Len(queue) + 1] = e
    BY DEF TypeOK
  <1>2. \A j : QueuedCb(j)' <=> QueuedCb(j) \/ e.cb = j
    BY <1>1 DEF QueuedCb
  <1>3. CbOnce'
    BY <1>1 DEF CbOnce, QueuedCb
  <1> QED BY <1>2, <1>3

LEMMA RemoveCbs ==
  ASSUME TypeOK, CbOnce, NEW i \in DOMAIN queue,
         queue' = RemoveAt(queue, i)
  PROVE  /\ CbOnce'
         /\ \A j \in Jobs : QueuedCb(j)' <=> QueuedCb(j) /\ queue[i].cb # j
  <1>1. /\ Len(queue) \in Nat /\ DOMAIN queue = 1..Len(queue)
        /\ DOMAIN queue' = 1..(Len(queue) - 1)
        /\ i \in 1..Len(queue)
        /\ \A k \in 1..(Len(queue) - 1) :
             queue'[k] = IF k < i THEN queue[k] ELSE queue[k + 1]
    <2>1. queue' \in Seq(Entry) /\ Len(queue') = Len(queue) - 1
      BY RemoveAtProperties DEF TypeOK
    <2>2. Len(queue) \in Nat /\ i \in 1..Len(queue)
          /\ DOMAIN queue = 1..Len(queue) /\ DOMAIN queue' = 1..Len(queue')
      BY <2>1 DEF TypeOK
    <2>3. \A k \in 1..(Len(queue) - 1) :
             queue'[k] = IF k < i THEN queue[k] ELSE queue[k + 1]
      BY RemoveAtProperties DEF TypeOK
    <2> QED BY <2>1, <2>2, <2>3
  <1> DEFINE From(x) == IF x < i THEN x ELSE x + 1
  <1>2. \A k \in DOMAIN queue' : /\ From(k) \in DOMAIN queue \ {i}
                                 /\ queue'[k] = queue[From(k)]
    BY <1>1
  <1>3. ASSUME NEW m \in DOMAIN queue \ {i}
        PROVE  \E k \in DOMAIN queue' : From(k) = m
    <2>1. CASE m < i
      BY <1>1, <2>1
    <2>2. CASE m > i
      <3>1. m - 1 \in DOMAIN queue' /\ From(m - 1) = m
        BY <1>1, <2>2
      <3> QED BY <3>1
    <2> QED BY <1>1, <2>1, <2>2
  <1>4. \A k, m \in DOMAIN queue' : From(k) = From(m) => k = m
    BY <1>1
  <1> HIDE DEF From
  <1>5. CbOnce'
    BY <1>2, <1>4 DEF CbOnce
  <1>6. ASSUME NEW j \in Jobs
        PROVE  QueuedCb(j)' <=> QueuedCb(j) /\ queue[i].cb # j
    <2>1. QueuedCb(j)' => QueuedCb(j)
      BY <1>2 DEF QueuedCb
    <2>2. QueuedCb(j)' => queue[i].cb # j
      BY <1>2, NamesAssumption DEF QueuedCb, CbOnce
    <2>3. QueuedCb(j) /\ queue[i].cb # j => QueuedCb(j)'
      BY <1>2, <1>3 DEF QueuedCb
    <2> QED BY <2>1, <2>2, <2>3
  <1> QED BY <1>5, <1>6

\* Steps that move no function, and change no fiber but by suspending it.
LEMMA JobKept ==
  ASSUME TypeOK, JobInv, CbOnce', PickedOnce',
         UNCHANGED <<cbOf, submitted, finished>>,
         \A j \in Jobs : /\ QueuedCb(j)' <=> QueuedCb(j)
                         /\ PickedCb(j)' <=> PickedCb(j),
         \A f \in Fibers : \/ fstate'[f] = fstate[f]
                           \/ /\ fstate[f] \in {"EXEC", "HOLD"}
                              /\ fstate'[f] \in {"EXEC", "HOLD", "READY"},
         \A f \in Fibers :
             fstate[f] = "INIT" => (Entered(f)' <=> Entered(f))
  PROVE  JobInv'
  <1> USE DEF JobInv
  <1>0. \A f \in Fibers : cbOf[f] # None => cbOf[f] \in Jobs
    BY DEF TypeOK
  <1>1. WaitingCbs'
    BY DEF WaitingCbs
  <1>2. CarriedCbs'
    BY <1>0 DEF CarriedCbs
  <1>3. EmptyFibers'
    BY DEF EmptyFibers
  <1>4. NoneLost'
    BY DEF NoneLost, TypeOK
  <1> QED BY <1>1, <1>2, <1>3, <1>4

\* No function is handed in twice.
LEMMA ScheduleJobs ==
  ASSUME TypeInv, ClaimInv, JobInv, Schedule,
         UNCHANGED <<cbFiber, pc, ft, finished>>
  PROVE  JobInv'
  <1> USE NamesAssumption DEF JobInv
  <1>0. TypeOK
    BY DEF TypeInv
  <1>1. /\ PickedOnce'
        /\ \A j : PickedCb(j)' <=> PickedCb(j)
        /\ \A f : PickedUp(f)' <=> PickedUp(f)
    BY DEF PickedOnce, PickedCb, PickedUp, At
  <1>2. ASSUME NEW S \in SUBSET (Jobs \ submitted), CbOnce',
               submitted' = submitted \cup S, UNCHANGED <<fstate, cbOf>>,
               \A j \in Jobs : QueuedCb(j)' <=> QueuedCb(j) \/ j \in S,
               \A f \in Fibers : Queued(f)' <=> Queued(f)
        PROVE  JobInv'
    <2>1. /\ finished' = finished /\ finished \cap S = {}
          /\ \A f \in Fibers : cbOf[f] # None => cbOf[f] \in Jobs
      BY <1>0, <1>2 DEF TypeOK
    <2>2. WaitingCbs'
      BY <1>1, <1>2, <2>1 DEF WaitingCbs
    <2>3. CarriedCbs'
      BY <1>1, <1>2, <2>1 DEF CarriedCbs
    <2>4. EmptyFibers'
      BY <1>1, <1>2, <2>1 DEF EmptyFibers, Entered
    <2>5. NoneLost'
      BY <1>0, <1>1, <1>2, <2>1 DEF NoneLost, TypeOK
    <2> QED BY <1>1, <1>2, <2>2, <2>3, <2>4, <2>5
  <1>3. ASSUME NEW j \in Jobs, NEW p \in Pins, SubmitCb(j, p), UNCHANGED waits
        PROVE  JobInv'
    <2>1. /\ j \notin submitted /\ submitted' = submitted \cup {j}
          /\ queue' = queue \o <<CbEntry(j, p)>>
          /\ UNCHANGED <<fstate, cbOf>>
      BY <1>3 DEF SubmitCb, Enqueue
    <2>2. /\ CbEntry(j, p) \in Entry /\ CbEntry(j, p).cb = j
          /\ CbEntry(j, p).fiber = None
      BY DEF CbEntry, Entry
    <2>3. ~QueuedCb(j)
      BY <2>1 DEF WaitingCbs
    <2>4. CbOnce' /\ \A k \in Jobs : QueuedCb(k)' <=> QueuedCb(k) \/ j = k
      BY <1>0, <2>1, <2>2, <2>3, AppendCbs
    <2>5. \A f \in Fibers : Queued(f)' <=> Queued(f)
      BY <1>0, <2>1, <2>2, AppendClaims DEF ClaimInv
    <2>6. {j} \in SUBSET (Jobs \ submitted)
      BY <2>1
    <2>7. \A k \in Jobs : QueuedCb(k)' <=> QueuedCb(k) \/ k \in {j}
      BY <2>4
    <2> QED BY <1>2, <2>1, <2>4, <2>5, <2>6, <2>7
  <1>4. ASSUME NEW j \in Jobs, NEW k \in Jobs, SubmitBatch(j, k),
               UNCHANGED waits
        PROVE  JobInv'
    <2>1. /\ j \notin submitted /\ k \notin submitted /\ j # k
          /\ submitted' = submitted \cup {j, k}
          /\ UNCHANGED <<fstate, cbOf>>
      BY <1>4 DEF SubmitBatch
    <2>2. /\ Len(queue) \in Nat /\ DOMAIN queue = 1..Len(queue)
          /\ DOMAIN queue' = 1..(Len(queue) + 2)
          /\ \A i \in 1..Len(queue) : queue'[i] = queue[i]
          /\ queue'[Len(queue) + 1] = CbEntry(j, AnyThread)
          /\ queue'[Len(queue) + 2] = CbEntry(k, AnyThread)
      BY <1>0, <1>4 DEF SubmitBatch, Enqueue, TypeOK
    <2>3. ~QueuedCb(j) /\ ~QueuedCb(k)
      BY <2>1 DEF WaitingCbs
    <2>4. /\ queue'[Len(queue) + 1].cb = j /\ queue'[Len(queue) + 2].cb = k
          /\ queue'[Len(queue) + 1].fiber = None
          /\ queue'[Len(queue) + 2].fiber = None
      BY <2>2 DEF CbEntry
    <2>5. CbOnce'
      BY <2>1, <2>2, <2>3, <2>4 DEF CbOnce, QueuedCb
    <2>6. \A m \in Jobs : QueuedCb(m)' <=> QueuedCb(m) \/ m \in {j, k}
      BY <2>2, <2>4 DEF QueuedCb
    <2>7. \A f \in Fibers : Queued(f)' <=> Queued(f)
      BY <2>2, <2>4 DEF Queued
    <2>8. {j, k} \in SUBSET (Jobs \ submitted)
      BY <2>1
    <2> QED BY <1>2, <2>1, <2>5, <2>6, <2>7, <2>8
  <1>5. ASSUME NEW j \in Jobs, NEW p \in Pins, SubmitFiber(j, p),
               UNCHANGED waits
        PROVE  JobInv'
    <2>1. PICK f \in Fibers : /\ fstate[f] = "FREE"
                              /\ fstate' = [fstate EXCEPT ![f] = "INIT"]
                              /\ cbOf' = [cbOf EXCEPT ![f] = j]
                              /\ queue' = queue \o <<FiberEntry(f, p)>>
      BY <1>5 DEF SubmitFiber, Enqueue
    <2>2. j \notin submitted /\ submitted' = submitted \cup {j}
      BY <1>5 DEF SubmitFiber
    <2>3. /\ FiberEntry(f, p) \in Entry /\ FiberEntry(f, p).fiber = f
          /\ FiberEntry(f, p).cb = None
      BY DEF FiberEntry, Entry
    <2>4. ~Queued(f)
      BY <2>1 DEF ClaimInv, WaitState, Unclaimed
    <2>5. /\ CbOnce' /\ \A k \in Jobs : QueuedCb(k)' <=> QueuedCb(k)
          /\ \A g \in Fibers : Queued(g)' <=> Queued(g) \/ g = f
      BY <1>0, <2>1, <2>3, <2>4, AppendCbs, AppendClaims DEF ClaimInv
    <2>6. /\ \A g \in Fibers \ {f} : cbOf'[g] = cbOf[g]
                                     /\ fstate'[g] = fstate[g]
          /\ cbOf'[f] = j /\ fstate'[f] = "INIT"
          /\ \A g \in Fibers : cbOf[g] # None => cbOf[g] \in Jobs
      BY <1>0, <2>1 DEF TypeOK
    <2>7. /\ finished' = finished /\ j \notin finished
          /\ ~QueuedCb(j) /\ ~PickedCb(j)
          /\ \A g \in Fibers : cbOf[g] # j
      BY <2>2 DEF WaitingCbs, CarriedCbs
    <2>8. cbOf[f] = None
      BY <2>1 DEF EmptyFibers
    <2>9. WaitingCbs'
      BY <1>1, <2>2, <2>5, <2>7 DEF WaitingCbs
    <2>10. CarriedCbs'
      BY <1>1, <2>2, <2>5, <2>6, <2>7 DEF CarriedCbs
    <2>11. EmptyFibers'
      BY <1>1, <2>5, <2>6 DEF EmptyFibers, Entered
    <2>12. NoneLost'
      BY <1>0, <1>1, <2>2, <2>5, <2>6, <2>7, <2>8 DEF NoneLost, TypeOK
    <2> QED BY <1>1, <2>2, <2>5, <2>7, <2>9, <2>10, <2>11, <2>12
  <1>6. ASSUME NEW f \in Fibers, NEW p \in Pins, Wake(f, p)
        PROVE  JobInv'
    <2>1. /\ waits[f] # 0 /\ waits[f] > 0
          /\ queue' = queue \o <<FiberEntry(f, p)>>
          /\ UNCHANGED <<fstate, cbOf, submitted>>
      BY <1>0, <1>6 DEF Wake, Enqueue, TypeOK
    <2>2. /\ FiberEntry(f, p) \in Entry /\ FiberEntry(f, p).fiber = f
          /\ FiberEntry(f, p).cb = None
      BY DEF FiberEntry, Entry
    <2>3. ~Queued(f) /\ fstate[f] \in {"HOLD", "EXEC"}
      BY <2>1 DEF ClaimInv, QueuedState, WaitState
    <2>4. /\ CbOnce' /\ \A k \in Jobs : QueuedCb(k)' <=> QueuedCb(k)
          /\ \A g \in Fibers : Queued(g)' <=> Queued(g) \/ g = f
      BY <1>0, <2>1, <2>2, <2>3, AppendCbs, AppendClaims DEF ClaimInv
    <2>5. \A g \in Fibers :
            fstate[g] = "INIT" => (Entered(g)' <=> Entered(g))
      BY <1>1, <2>3, <2>4 DEF Entered
    <2> QED BY <1>0, <1>1, <2>1, <2>4, <2>5, JobKept
  <1> QED BY <1>3, <1>4, <1>5, <1>6 DEF Schedule

\* A step of t that takes nothing and hands nothing to a fiber.
LEMMA PickedKept ==
  ASSUME TypeOK, PickedOnce, NEW t \in Threads,
         pc'[t] # "dispatch", pc[t] # "dispatch",
         \A u \in Threads \ {t} : pc'[u] = pc[u] /\ ft'[u] = ft[u]
  PROVE  /\ PickedOnce'
         /\ \A j : PickedCb(j)' <=> PickedCb(j)
         /\ \A f : PickedUp(f)' <=> PickedUp(f)
  <1>1. At({"dispatch"})' = At({"dispatch"})
    BY DEF At
  <1>2. \A u \in At({"dispatch"}) : ft'[u] = ft[u]
    BY DEF At
  <1> QED BY <1>1, <1>2 DEF PickedOnce, PickedCb, PickedUp

\* The fiber that is to carry a function carries none.
LEMMA FreshCarrier ==
  ASSUME TypeInv, ClaimInv, JobInv, NEW t \in Threads, NEW f \in Fibers,
         pc[t] = "dispatch", CarrierFor(t, f)
  PROVE  cbOf[f] = None /\ ~Entered(f)
  <1> USE NamesAssumption DEF JobInv
  <1>1. CASE cbFiber[t] # None
    <2>1. Spare(t, f)
      BY <1>1 DEF CarrierFor, Spare, OnFiber, InBody
    <2>2. fstate[f] = "INIT" /\ ~Queued(f) /\ ~PickedUp(f)
      BY <2>1 DEF ClaimInv, SpareState, Unclaimed
    <2> QED BY <2>2 DEF EmptyFibers, Entered
  <1>2. CASE cbFiber[t] = None
    <2>1. fstate[f] = "FREE"
      BY <1>2 DEF CarrierFor
    <2>2. ~Queued(f)
      BY <2>1 DEF ClaimInv, WaitState, Unclaimed
    <2>3. ~PickedUp(f)
      <3>1. \A u \in At({"dispatch"}) :
              ft[u].fiber # None => fstate[ft[u].fiber] # "FREE"
        BY DEF ClaimInv, PickedState
      <3>2. f # None
        OBVIOUS
      <3> QED BY <2>1, <3>1, <3>2 DEF PickedUp
    <2> QED BY <2>1, <2>2, <2>3 DEF EmptyFibers, Entered
  <1> QED BY <1>1, <1>2

LEMMA RunLoopJobs ==
  ASSUME TypeInv, ClaimInv, JobInv, NEW t \in Threads, RunLoop(t)
  PROVE  JobInv'
  <1> USE NamesAssumption DEF JobInv
  <1>0. /\ TypeInv /\ TypeOK
        /\ \A f \in Fibers : cbOf[f] # None => cbOf[f] \in Jobs
    BY DEF TypeInv, TypeOK
  <1>1. CASE Pick(t)
    <2>1. PICK i \in DOMAIN queue :
            /\ ft' = [ft EXCEPT ![t] = queue[i]]
            /\ queue' = RemoveAt(queue, i)
      BY <1>1 DEF Pick
    <2>2. /\ pc[t] = "pick" /\ pc' = [pc EXCEPT ![t] = "dispatch"]
          /\ UNCHANGED <<fstate, cbOf, submitted, finished>>
      BY <1>1 DEF Pick, historyVars
    <2> DEFINE e == queue[i]
    <2>3. /\ e \in Entry /\ e.cb \in Jobs \cup {None}
          /\ e.fiber \in Fibers \cup {None}
          /\ e.cb # None => QueuedCb(e.cb)
          /\ e.fiber # None => Queued(e.fiber)
      <3>1. e \in Entry
        BY <1>0, ElementOfSeq DEF TypeOK
      <3> QED BY <3>1 DEF Entry, QueuedCb, Queued
    <2>4. /\ CbOnce'
          /\ \A j \in Jobs : QueuedCb(j)' <=> QueuedCb(j) /\ e.cb # j
          /\ \A f \in Fibers : Queued(f)' <=> Queued(f) /\ e.fiber # f
      BY <1>0, <2>1, RemoveCbs, RemoveClaims DEF ClaimInv
    <2>5. /\ pc'[t] = "dispatch" /\ ft'[t] = e
          /\ \A u \in Threads \ {t} : pc'[u] = pc[u] /\ ft'[u] = ft[u]
      BY <1>0, <2>1, <2>2 DEF TypeOK
    <2> HIDE DEF e
    <2>6. /\ \A j \in Jobs : PickedCb(j)' <=> PickedCb(j) \/ e.cb = j
          /\ \A f \in Fibers : PickedUp(f)' <=> PickedUp(f) \/ e.fiber = f
      BY <2>2, <2>5 DEF PickedCb, PickedUp, At
    <2>7. e.cb # None => ~PickedCb(e.cb)
      BY <2>3 DEF WaitingCbs
    <2>8. PickedOnce'
      BY <2>2, <2>5, <2>7 DEF PickedOnce, PickedCb, At
    <2>9. WaitingCbs'
      BY <2>2, <2>3, <2>4, <2>6, <2>7 DEF WaitingCbs
    <2>10. CarriedCbs'
      BY <1>0, <2>2, <2>3, <2>4, <2>6 DEF CarriedCbs
    <2>11. EmptyFibers'
      BY <2>2, <2>3, <2>4, <2>6 DEF EmptyFibers, Entered
    <2>12. NoneLost'
      BY <1>0, <2>2, <2>4, <2>6 DEF NoneLost, TypeOK
    <2> QED BY <2>2, <2>4, <2>8, <2>9, <2>10, <2>11, <2>12
  <1>2. CASE PickNothing(t) \/ Idle(t) \/ SwapBack(t) \/ SettleHold(t)
    <2>1. UNCHANGED <<queue, cbOf, submitted, finished>>
      BY <1>2 DEF PickNothing, Idle, SwapBack, SettleHold, Release, poolVars,
                  historyVars
    <2>2. /\ pc'[t] # "dispatch" /\ pc[t] # "dispatch"
          /\ \A u \in Threads \ {t} : pc'[u] = pc[u] /\ ft'[u] = ft[u]
      BY <1>0, <1>2
         DEF TypeOK, PickNothing, Idle, SwapBack, SettleHold, Release
    <2>3. /\ PickedOnce'
          /\ \A j : PickedCb(j)' <=> PickedCb(j)
          /\ \A f : PickedUp(f)' <=> PickedUp(f)
      BY <1>0, <2>2, PickedKept
    <2>4. /\ CbOnce'
          /\ \A j : QueuedCb(j)' <=> QueuedCb(j)
          /\ \A f : Queued(f)' <=> Queued(f)
      BY <2>1 DEF CbOnce, QueuedCb, Queued
    <2>5. \A f \in Fibers : \/ fstate'[f] = fstate[f]
                            \/ /\ fstate[f] \in {"EXEC", "HOLD"}
                               /\ fstate'[f] \in {"EXEC", "HOLD"}
      <3>1. CASE SettleHold(t)
        <4>1. /\ pc[t] = "settle" /\ fstate[Running(t)] # "READY"
              /\ ~Ended(Running(t))
              /\ fstate' = [fstate EXCEPT ![Running(t)] = "HOLD"]
          BY <3>1 DEF SettleHold
        <4>2. t \in At(OnFiber)
          BY <4>1 DEF At, OnFiber
        <4>3. fstate[Running(t)] = "EXEC"
          BY <4>1, <4>2 DEF ClaimInv, RunningState, Ended
        <4> QED BY <1>0, <4>1, <4>3 DEF TypeOK
      <3>2. CASE PickNothing(t) \/ Idle(t) \/ SwapBack(t)
        BY <3>2 DEF PickNothing, Idle, SwapBack, poolVars
      <3> QED BY <1>2, <3>1, <3>2
    <2>6. \A f : Entered(f)' <=> Entered(f)
      BY <2>3, <2>4 DEF Entered
    <2> QED BY <1>0, <2>1, <2>3, <2>4, <2>5, <2>6, JobKept
  <1>3. CASE DispatchFiber(t)
    <2> DEFINE f == ft[t].fiber
    <2>1. /\ pc[t] = "dispatch" /\ f # None
          /\ fstate' = [fstate EXCEPT ![f] = "EXEC"]
          /\ pc' = [pc EXCEPT ![t] = "run"]
          /\ UNCHANGED <<queue, cbOf, ft, submitted, finished>>
      BY <1>3 DEF DispatchFiber, historyVars
    <2>2. /\ ft[t].cb = None /\ f \in Fibers /\ PickedUp(f)
          /\ t \in At({"dispatch"})
      BY <1>0, <2>1 DEF TypeOK, Entry, PickedUp, At
    <2>3. /\ fstate[f] \in {"INIT", "HOLD", "READY"} /\ ~Queued(f)
          /\ \A u \in At({"dispatch"}) : ft[u].fiber = f => u = t
      BY <2>1, <2>2 DEF ClaimInv, PickedState, Unclaimed
    <2>4. cbOf[f] # None /\ cbOf[f] \notin finished
      BY <2>2, <2>3 DEF EmptyFibers, CarriedCbs, Entered
    <2> HIDE DEF f
    <2>5. /\ \A u \in Threads \ {t} : pc'[u] = pc[u]
          /\ pc'[t] = "run" /\ fstate'[f] = "EXEC"
          /\ \A g \in Fibers \ {f} : fstate'[g] = fstate[g]
      BY <1>0, <2>1, <2>2 DEF TypeOK
    <2>6. /\ PickedOnce'
          /\ \A j \in Jobs : PickedCb(j)' <=> PickedCb(j)
      BY <2>1, <2>2, <2>5 DEF PickedOnce, PickedCb, At
    <2>7. \A g \in Fibers \ {f} : PickedUp(g)' <=> PickedUp(g)
      BY <2>1, <2>2, <2>5 DEF PickedUp, At, f
    <2>8. /\ CbOnce'
          /\ \A j : QueuedCb(j)' <=> QueuedCb(j)
          /\ \A g : Queued(g)' <=> Queued(g)
      BY <2>1 DEF CbOnce, QueuedCb, Queued
    <2>9. WaitingCbs'
      BY <2>1, <2>6, <2>8 DEF WaitingCbs
    <2>10. CarriedCbs'
      BY <1>0, <2>1, <2>3, <2>4, <2>5, <2>6, <2>8 DEF CarriedCbs
    <2>11. EmptyFibers'
      BY <2>1, <2>4, <2>5, <2>7, <2>8 DEF EmptyFibers, Entered
    <2>12. NoneLost'
      BY <1>0, <2>1, <2>6, <2>8 DEF NoneLost, TypeOK
    <2> QED BY <2>1, <2>6, <2>8, <2>9, <2>10, <2>11, <2>12
  <1>4. CASE DispatchCb(t)
    <2> DEFINE j == ft[t].cb
    <2>1. /\ pc[t] = "dispatch" /\ j # None
          /\ ft' = [ft EXCEPT ![t] = NoEntry]
          /\ pc' = [pc EXCEPT ![t] = "run"]
          /\ UNCHANGED <<queue, submitted, finished>>
      BY <1>4 DEF DispatchCb
    <2>2. PICK f \in Fibers : /\ CarrierFor(t, f)
                              /\ fstate' = [fstate EXCEPT ![f] = "EXEC"]
                              /\ cbOf' = [cbOf EXCEPT ![f] = j]
      BY <1>4 DEF DispatchCb
    <2>3. /\ j \in Jobs /\ ft[t].fiber = None /\ t \in At({"dispatch"})
          /\ PickedCb(j)
      BY <1>0, <2>1 DEF TypeOK, Entry, PickedCb, At
    <2>4. j \in submitted \ finished /\ ~QueuedCb(j)
          /\ \A g \in Fibers : cbOf[g] # j
      BY <2>3 DEF WaitingCbs, CarriedCbs
    <2>5. cbOf[f] = None /\ ~Entered(f)
      BY <1>0, <2>1, <2>2, FreshCarrier
    <2> HIDE DEF j
    <2>6. /\ \A u \in Threads \ {t} : pc'[u] = pc[u] /\ ft'[u] = ft[u]
          /\ pc'[t] = "run"
          /\ fstate'[f] = "EXEC" /\ cbOf'[f] = j
          /\ \A g \in Fibers \ {f} : /\ fstate'[g] = fstate[g]
                                     /\ cbOf'[g] = cbOf[g]
      BY <1>0, <2>1, <2>2 DEF TypeOK
    <2>7. /\ At({"dispatch"})' = At({"dispatch"}) \ {t}
          /\ \A u \in At({"dispatch"}) \ {t} : ft'[u] = ft[u]
          /\ ft[t].cb = j /\ ft[t].fiber = None
      BY <2>3, <2>6 DEF At, j
    <2>8. /\ PickedOnce'
          /\ \A k \in Jobs : PickedCb(k)' <=> PickedCb(k) /\ k # j
      <3>1. PickedOnce'
        BY <2>7 DEF PickedOnce
      <3>2. \A u \in At({"dispatch"}) \ {t} : ft[u].cb # j
        BY <2>1, <2>3, <2>7 DEF PickedOnce
      <3> QED BY <2>3, <2>7, <3>1, <3>2 DEF PickedCb
    <2>9. \A g \in Fibers : PickedUp(g)' <=> PickedUp(g)
      <3>1. \A g \in Fibers : g # None
        OBVIOUS
      <3> QED BY <2>7, <3>1 DEF PickedUp
    <2>10. /\ CbOnce'
           /\ \A k : QueuedCb(k)' <=> QueuedCb(k)
           /\ \A g : Queued(g)' <=> Queued(g)
      BY <2>1 DEF CbOnce, QueuedCb, Queued
    <2>11. WaitingCbs'
      BY <2>1, <2>8, <2>10 DEF WaitingCbs
    <2>12. CarriedCbs'
      <3> SUFFICES ASSUME NEW g \in Fibers, cbOf'[g] # None
                   PROVE  /\ cbOf'[g] \in submitted'
                          /\ cbOf'[g] \in finished' <=> fstate'[g] = "EXCEPT"
                          /\ ~QueuedCb(cbOf[g])' /\ ~PickedCb(cbOf[g])'
                          /\ \A h \in Fibers : cbOf'[h] = cbOf'[g] => h = g
        BY DEF CarriedCbs
      <3>1. CASE g = f
        BY <2>1, <2>3, <2>4, <2>6, <2>8, <2>10, <3>1
      <3>2. CASE g # f
        <4>1. /\ cbOf'[g] = cbOf[g] /\ fstate'[g] = fstate[g]
              /\ cbOf[g] \in Jobs /\ cbOf[g] # j
          BY <1>0, <2>4, <2>6, <3>2
        <4>2. /\ cbOf[g] \in submitted
              /\ cbOf[g] \in finished <=> fstate[g] = "EXCEPT"
              /\ ~QueuedCb(cbOf[g]) /\ ~PickedCb(cbOf[g])
              /\ \A h \in Fibers : cbOf[h] = cbOf[g] => h = g
          BY <3>2, <4>1 DEF CarriedCbs
        <4>3. ~QueuedCb(cbOf[g])' /\ ~PickedCb(cbOf[g])'
          BY <2>1, <2>8, <2>10, <4>1, <4>2 DEF QueuedCb, PickedCb
        <4> QED BY <2>1, <2>6, <4>1, <4>2, <4>3
      <3> QED BY <3>1, <3>2
    <2>13. EmptyFibers'
      BY <2>1, <2>6, <2>9, <2>10 DEF EmptyFibers, Entered
    <2>14. NoneLost'
      <3>1. ASSUME NEW k \in submitted \ finished
            PROVE  QueuedCb(k)' \/ PickedCb(k)' \/
                   \E g \in Fibers : cbOf'[g] = k
        <4>1. k \in Jobs
          BY <1>0 DEF TypeOK
        <4>2. QueuedCb(k) \/ PickedCb(k) \/ \E g \in Fibers : cbOf[g] = k
          BY DEF NoneLost
        <4>3. ASSUME NEW g \in Fibers, cbOf[g] = k
              PROVE  cbOf'[g] = k
          BY <2>5, <2>6, <4>1, <4>3
        <4> QED BY <2>6, <2>8, <2>10, <4>1, <4>2, <4>3
      <3> QED BY <2>1, <3>1 DEF NoneLost
    <2> QED BY <2>1, <2>8, <2>10, <2>11, <2>12, <2>13, <2>14
  <1>5. ~DispatchEnded(t)
    <2>1. ASSUME pc[t] = "dispatch", ft[t].fiber # None
          PROVE  ~Ended(ft[t].fiber)
      BY <2>1 DEF ClaimInv, PickedState, At, Ended
    <2> QED BY <2>1 DEF DispatchEnded
  <1>6. CASE SettleReady(t)
    <2> DEFINE f == Running(t)
    <2>1. /\ pc[t] = "settle" /\ fstate[f] = "READY"
          /\ queue' = queue \o <<FiberEntry(f, AnyThread)>>
          /\ UNCHANGED <<fstate, cbOf, submitted, finished>>
          /\ pc' = [pc EXCEPT ![t] = "pick"]
          /\ ft' = [ft EXCEPT ![t] = NoEntry]
      BY <1>6 DEF SettleReady, Enqueue, Release, historyVars
    <2>2. f \in Fibers /\ t \in At(OnFiber)
      BY <1>0, <2>1, RunningFiber DEF OnFiber, At
    <2>3. ~Queued(f)
      BY <2>1, <2>2 DEF ClaimInv, RunningState, Unclaimed
    <2> HIDE DEF f
    <2>4. /\ FiberEntry(f, AnyThread) \in Entry
          /\ FiberEntry(f, AnyThread).fiber = f
          /\ FiberEntry(f, AnyThread).cb = None
      BY <2>2 DEF FiberEntry, Entry
    <2>5. /\ CbOnce' /\ \A k \in Jobs : QueuedCb(k)' <=> QueuedCb(k)
          /\ \A g \in Fibers : Queued(g)' <=> Queued(g) \/ g = f
      BY <1>0, <2>1, <2>3, <2>4, AppendCbs, AppendClaims DEF ClaimInv
    <2>6. /\ pc'[t] # "dispatch" /\ pc[t] # "dispatch"
          /\ \A u \in Threads \ {t} : pc'[u] = pc[u] /\ ft'[u] = ft[u]
      BY <1>0, <2>1 DEF TypeOK
    <2>7. /\ PickedOnce'
          /\ \A k : PickedCb(k)' <=> PickedCb(k)
          /\ \A g : PickedUp(g)' <=> PickedUp(g)
      BY <1>0, <2>6, PickedKept
    <2>8. \A g \in Fibers :
            fstate[g] = "INIT" => (Entered(g)' <=> Entered(g))
      BY <2>1, <2>5, <2>7 DEF Entered
    <2> QED BY <1>0, <2>1, <2>5, <2>7, <2>8, JobKept
  <1>7. CASE SettleEnded(t)
    <2> DEFINE f == Running(t)
    <2>1. /\ pc[t] = "settle" /\ Ended(f)
          /\ \/ UNCHANGED <<fstate, cbOf>>
             \/ /\ fstate' = [fstate EXCEPT ![f] = "INIT"]
                /\ cbOf' = [cbOf EXCEPT ![f] = None]
          /\ UNCHANGED <<queue, submitted, finished>>
          /\ pc' = [pc EXCEPT ![t] = "pick"]
          /\ ft' = [ft EXCEPT ![t] = NoEntry]
      BY <1>7 DEF SettleEnded, Release, historyVars
    <2>2. f \in Fibers /\ t \in At(OnFiber)
      BY <1>0, <2>1, RunningFiber DEF OnFiber, At
    <2>3. ~Queued(f) /\ ~PickedUp(f)
      <3>1. ~Queued(f)
        BY <2>1, <2>2 DEF ClaimInv, QueuedState, Ended
      <3>2. \A u \in At({"dispatch"}) :
              ft[u].fiber # None => ~Ended(ft[u].fiber)
        BY DEF ClaimInv, PickedState, Ended
      <3>3. f # None
        BY <2>2
      <3> QED BY <2>1, <3>1, <3>2, <3>3 DEF PickedUp
    <2>4. cbOf[f] = None \/ cbOf[f] \in finished
      BY <2>1, <2>2 DEF EmptyFibers, CarriedCbs, Ended
    <2> HIDE DEF f
    <2>5. /\ pc'[t] # "dispatch" /\ pc[t] # "dispatch"
          /\ \A u \in Threads \ {t} : pc'[u] = pc[u] /\ ft'[u] = ft[u]
      BY <1>0, <2>1 DEF TypeOK
    <2>6. /\ PickedOnce'
          /\ \A j : PickedCb(j)' <=> PickedCb(j)
          /\ \A g : PickedUp(g)' <=> PickedUp(g)
      BY <1>0, <2>5, PickedKept
    <2>7. /\ CbOnce'
          /\ \A j : QueuedCb(j)' <=> QueuedCb(j)
          /\ \A g : Queued(g)' <=> Queued(g)
      BY <2>1 DEF CbOnce, QueuedCb, Queued
    <2>8. CASE UNCHANGED <<fstate, cbOf>>
      <3>1. \A g : Entered(g)' <=> Entered(g)
        BY <2>6, <2>7 DEF Entered
      <3> QED BY <1>0, <2>1, <2>6, <2>7, <2>8, <3>1, JobKept
    <2>9. CASE /\ fstate' = [fstate EXCEPT ![f] = "INIT"]
               /\ cbOf' = [cbOf EXCEPT ![f] = None]
      <3>1. /\ fstate'[f] = "INIT" /\ cbOf'[f] = None
            /\ \A g \in Fibers \ {f} : /\ fstate'[g] = fstate[g]
                                       /\ cbOf'[g] = cbOf[g]
        BY <1>0, <2>2, <2>9 DEF TypeOK
      <3>2. WaitingCbs'
        BY <2>1, <2>6, <2>7 DEF WaitingCbs
      <3>3. CarriedCbs'
        BY <1>0, <2>1, <2>6, <2>7, <3>1 DEF CarriedCbs
      <3>4. EmptyFibers'
        BY <2>3, <2>6, <2>7, <3>1 DEF EmptyFibers, Entered
      <3>5. NoneLost'
        BY <1>0, <2>1, <2>4, <2>6, <2>7, <3>1 DEF NoneLost, TypeOK
      <3> QED BY <2>1, <2>6, <2>7, <3>2, <3>3, <3>4, <3>5
    <2> QED BY <2>1, <2>8, <2>9
  <1> QED BY <1>1, <1>2, <1>3, <1>4, <1>5, <1>6, <1>7 DEF RunLoop

\* A function ends in the fiber that carries it.
LEMMA EndJobs ==
  ASSUME TypeInv, ClaimInv, JobInv, NEW t \in Threads, pc[t] = "run",
         pc' = [pc EXCEPT ![t] = "swapped"],
         UNCHANGED <<queue, ft, submitted>>,
         finished' = finished \cup {cbOf[Running(t)]},
         \/ /\ fstate' = [fstate EXCEPT ![Running(t)] = "TERM"]
            /\ cbOf' = [cbOf EXCEPT ![Running(t)] = None]
         \/ /\ fstate' = [fstate EXCEPT ![Running(t)] = "EXCEPT"]
            /\ UNCHANGED cbOf
  PROVE  JobInv'
  <1> USE NamesAssumption DEF JobInv
  <1> DEFINE f == Running(t)
             j == cbOf[f]
  <1>0. /\ TypeOK /\ f \in Fibers /\ t \in At(OnFiber)
        /\ \A g \in Fibers : cbOf[g] # None => cbOf[g] \in Jobs
    BY RunningFiber DEF TypeInv, TypeOK, OnFiber, InBody, At
  <1>1. fstate[f] = "EXEC"
    BY <1>0 DEF ClaimInv, RunningState
  <1>2. /\ j \in Jobs /\ j \in submitted /\ j \notin finished
        /\ ~QueuedCb(j) /\ ~PickedCb(j)
        /\ \A g \in Fibers : cbOf[g] = j => g = f
    BY <1>0, <1>1 DEF EmptyFibers, CarriedCbs
  <1> HIDE DEF f
  <1>3. /\ \A g \in Fibers \ {f} : /\ fstate'[g] = fstate[g]
                                   /\ cbOf'[g] = cbOf[g]
        /\ \/ fstate'[f] = "TERM" /\ cbOf'[f] = None
           \/ fstate'[f] = "EXCEPT" /\ cbOf'[f] = cbOf[f]
        /\ finished' = finished \cup {j}
    BY <1>0 DEF TypeOK, f
  <1>4. /\ pc'[t] # "dispatch" /\ pc[t] # "dispatch"
        /\ \A u \in Threads \ {t} : pc'[u] = pc[u] /\ ft'[u] = ft[u]
    BY <1>0 DEF TypeOK
  <1>5. /\ PickedOnce'
        /\ \A k : PickedCb(k)' <=> PickedCb(k)
        /\ \A g : PickedUp(g)' <=> PickedUp(g)
    BY <1>0, <1>4, PickedKept
  <1>6. /\ CbOnce'
        /\ \A k : QueuedCb(k)' <=> QueuedCb(k)
        /\ \A g : Queued(g)' <=> Queued(g)
    BY DEF CbOnce, QueuedCb, Queued
  <1>7. WaitingCbs'
    BY <1>2, <1>3, <1>5, <1>6 DEF WaitingCbs
  <1>8. CarriedCbs'
    <2> SUFFICES ASSUME NEW g \in Fibers, cbOf'[g] # None
                 PROVE  /\ cbOf'[g] \in submitted'
                        /\ cbOf'[g] \in finished' <=> fstate'[g] = "EXCEPT"
                        /\ ~QueuedCb(cbOf[g])' /\ ~PickedCb(cbOf[g])'
                        /\ \A h \in Fibers : cbOf'[h] = cbOf'[g] => h = g
      BY DEF CarriedCbs
    <2>1. cbOf'[g] = cbOf[g] /\ cbOf[g] \in Jobs
      BY <1>0, <1>3
    <2>2. /\ cbOf[g] \in submitted
          /\ cbOf[g] \in finished <=> fstate[g] = "EXCEPT"
          /\ ~QueuedCb(cbOf[g]) /\ ~PickedCb(cbOf[g])
          /\ \A h \in Fibers : cbOf[h] = cbOf[g] => h = g
      BY <2>1 DEF CarriedCbs
    <2>3. ~QueuedCb(cbOf[g])' /\ ~PickedCb(cbOf[g])'
      BY <1>4, <2>1, <2>2 DEF QueuedCb, PickedCb, At
    <2>4. cbOf'[g] \in finished' <=> fstate'[g] = "EXCEPT"
      BY <1>2, <1>3, <2>1, <2>2
    <2> QED BY <1>3, <2>1, <2>2, <2>3, <2>4
  <1>9. EmptyFibers'
    <2>1. \A g \in Fibers : Entered(g)' <=> Entered(g)
      BY <1>5, <1>6 DEF Entered
    <2>2. cbOf[f] # None
      BY <1>2
    <2> QED BY <1>3, <2>1, <2>2 DEF EmptyFibers
  <1>10. NoneLost'
    <2> SUFFICES ASSUME NEW k \in submitted \ finished, k # j
                 PROVE  QueuedCb(k)' \/ PickedCb(k)' \/
                        \E g \in Fibers : cbOf'[g] = k
      BY <1>3 DEF NoneLost
    <2>1. QueuedCb(k) \/ PickedCb(k) \/ \E g \in Fibers \ {f} : cbOf[g] = k
      BY DEF NoneLost
    <2> QED BY <1>3, <1>5, <1>6, <2>1
  <1> QED BY <1>2, <1>3, <1>5, <1>6, <1>7, <1>8, <1>9, <1>10

LEMMA BodyJobs ==
  ASSUME TypeInv, ClaimInv, JobInv, NEW t \in Threads, Body(t)
  PROVE  JobInv'
  <1> USE NamesAssumption
  <1>0. TypeOK
    BY DEF TypeInv
  <1>1. CASE BodySchedule(t)
    BY <1>1, ScheduleJobs DEF BodySchedule, threadVars
  <1>2. CASE Register(t) \/ YieldToHold(t) \/ YieldToReady(t)
    <2>1. /\ UNCHANGED <<queue, cbOf, submitted, finished>>
          /\ pc'[t] # "dispatch" /\ pc[t] # "dispatch"
          /\ \A u \in Threads \ {t} : pc'[u] = pc[u] /\ ft'[u] = ft[u]
      BY <1>0, <1>2 DEF Register, YieldToHold, YieldToReady, poolVars,
                        historyVars, TypeOK
    <2>2. /\ PickedOnce'
          /\ \A k : PickedCb(k)' <=> PickedCb(k)
          /\ \A g : PickedUp(g)' <=> PickedUp(g)
      BY <1>0, <2>1, PickedKept DEF JobInv
    <2>3. /\ CbOnce'
          /\ \A k : QueuedCb(k)' <=> QueuedCb(k)
          /\ \A g : Queued(g)' <=> Queued(g)
      BY <2>1 DEF JobInv, CbOnce, QueuedCb, Queued
    <2>4. \A g : Entered(g)' <=> Entered(g)
      BY <2>2, <2>3 DEF Entered
    <2>5. \A g \in Fibers : \/ fstate'[g] = fstate[g]
                            \/ fstate[g] = "EXEC" /\ fstate'[g] = "READY"
      <3>1. CASE YieldToReady(t)
        <4>1. /\ pc[t] = "run"
              /\ fstate' = [fstate EXCEPT ![Running(t)] = "READY"]
          BY <3>1 DEF YieldToReady
        <4>2. fstate[Running(t)] = "EXEC"
          BY <4>1 DEF ClaimInv, RunningState, At, OnFiber, InBody
        <4> QED BY <1>0, <4>1, <4>2 DEF TypeOK
      <3>2. CASE ~YieldToReady(t)
        BY <1>2, <3>2 DEF Register, YieldToHold, poolVars
      <3> QED BY <3>1, <3>2
    <2> QED BY <1>0, <2>1, <2>2, <2>3, <2>4, <2>5, JobKept
  <1>3. CASE SwitchTo(t)
    <2> DEFINE f == Running(t)
    <2>1. /\ pc[t] = "run" /\ pc' = [pc EXCEPT ![t] = "parking"]
          /\ UNCHANGED <<fstate, cbOf, ft, submitted, finished>>
      BY <1>3 DEF SwitchTo
    <2>2. PICK p \in Pins : queue' = queue \o <<FiberEntry(f, p)>>
      BY <1>3 DEF SwitchTo, Enqueue
    <2>3. f \in Fibers /\ t \in At(OnFiber)
      BY <2>1, RunningFiber DEF OnFiber, InBody, At
    <2>4. fstate[f] = "EXEC" /\ ~Queued(f)
      BY <2>1, <2>3 DEF ClaimInv, RunningState, Unclaimed
    <2> HIDE DEF f
    <2>5. /\ FiberEntry(f, p) \in Entry /\ FiberEntry(f, p).fiber = f
          /\ FiberEntry(f, p).cb = None
      BY <2>3 DEF FiberEntry, Entry
    <2>6. /\ CbOnce' /\ \A k \in Jobs : QueuedCb(k)' <=> QueuedCb(k)
          /\ \A g \in Fibers : Queued(g)' <=> Queued(g) \/ g = f
      BY <1>0, <2>2, <2>4, <2>5, AppendCbs, AppendClaims DEF ClaimInv, JobInv
    <2>7. /\ pc'[t] # "dispatch" /\ pc[t] # "dispatch"
          /\ \A u \in Threads \ {t} : pc'[u] = pc[u] /\ ft'[u] = ft[u]
      BY <1>0, <2>1 DEF TypeOK
    <2>8. /\ PickedOnce'
          /\ \A k : PickedCb(k)' <=> PickedCb(k)
          /\ \A g : PickedUp(g)' <=> PickedUp(g)
      BY <1>0, <2>7, PickedKept DEF JobInv
    <2>9. \A g \in Fibers :
            fstate[g] = "INIT" => (Entered(g)' <=> Entered(g))
      BY <2>4, <2>6, <2>8 DEF Entered
    <2> QED BY <1>0, <2>1, <2>6, <2>8, <2>9, JobKept
  <1>5. CASE Return(t)
    BY <1>5, EndJobs DEF Return
  <1>6. CASE Throw(t)
    BY <1>6, EndJobs DEF Throw
  <1> QED BY <1>1, <1>2, <1>3, <1>5, <1>6 DEF Body

LEMMA OwnerJobs ==
  ASSUME TypeInv, ClaimInv, JobInv, OwnerSchedule \/ Start \/ OwnerStops
  PROVE  JobInv'
  <1>1. CASE OwnerSchedule
    BY <1>1, ScheduleJobs DEF OwnerSchedule, threadVars
  <1>2. CASE Start \/ OwnerStops
    <2>0. TypeOK
      BY DEF TypeInv
    <2>1. UNCHANGED <<queue, fstate, cbOf, ft, submitted, finished>>
      BY <1>2 DEF Start, OwnerStops, StopBegin, StopRequest, StopCall,
                  StopResume, StopJoin, poolVars, historyVars, threadVars
    <2>2. \A u \in Threads : pc'[u] = "dispatch" <=> pc[u] = "dispatch"
      <3>1. CASE Start
        <4>1. \A u \in Workers : pc[u] = "off"
          BY <3>1 DEF Start, TypeInv, OwnerPlaces, Threads
        <4> QED BY <3>1, <4>1 DEF Start, Threads
      <3>2. CASE StopCall
        <4>1. Caller \in Threads => pc[Caller] = "off"
          BY <3>2, ThreadsAssumption
             DEF StopCall, TypeInv, OwnerPlaces, Threads
        <4> QED BY <2>0, <3>2, <4>1 DEF StopCall, TypeOK
      <3>3. CASE StopBegin \/ StopRequest \/ StopResume \/ StopJoin
        BY <3>3 DEF StopBegin, StopRequest, StopResume, StopJoin, threadVars
      <3> QED BY <1>2, <3>1, <3>2, <3>3 DEF OwnerStops
    <2>3. At({"dispatch"})' = At({"dispatch"})
      BY <2>2 DEF At
    <2>4. /\ PickedOnce' /\ CbOnce'
          /\ \A k : PickedCb(k)' <=> PickedCb(k)
          /\ \A k : QueuedCb(k)' <=> QueuedCb(k)
          /\ \A g : Entered(g)' <=> Entered(g)
      BY <2>1, <2>3 DEF JobInv, PickedOnce, CbOnce, PickedCb, QueuedCb,
                        Entered, Queued, PickedUp
    <2> QED BY <2>0, <2>1, <2>4, JobKept
  <1> QED BY <1>1, <1>2

-----------------------------------------------------------------------------
(* Who is where when stop() returns.  A fiber that executes has a thread;  *)
(* a READY one has a thread or is entered.  The last thread to leave its   *)
(* loop therefore leaves an empty list behind.                             *)

Held(f) == \E t \in At(OnFiber) : Running(t) = f

HeldInv ==
    \A f \in Fibers :
        /\ fstate[f] = "EXEC" => Held(f)
        /\ fstate[f] = "READY" => Held(f) \/ Entered(f)

\* Nobody leaves before stop() is called; when it returns, everybody has.
NobodyLeft ==
    owner \in {"setup", "up"} =>
        \A t \in Threads : ~idleTerm[t] /\ pc[t] # "exited"

CallerOut ==
    UseCaller /\ owner \in {"join", "stopped"} =>
        pc[Caller] \in {"off", "exited"}

WorkersOut == owner = "stopped" => \A t \in Workers : pc[t] = "exited"

PlacesInv == OwnerQuiet /\ NobodyLeft /\ CallerOut /\ WorkersOut

LEMMA InitPlaces == Init => PlacesInv /\ HeldInv
  BY ThreadsAssumption
     DEF Init, PlacesInv, OwnerQuiet, NobodyLeft, CallerOut, WorkersOut,
         HeldInv, Threads

LEMMA NextPlaces ==
  ASSUME TypeInv, PlacesInv, [Next]_vars
  PROVE  PlacesInv'
  <1> USE DEF PlacesInv
  <1>0. /\ OwnerQuiet'
        /\ pc \in [Threads -> PcValues] /\ idleTerm \in [Threads -> BOOLEAN]
        /\ \A t \in Workers : t \in Threads
        /\ UseCaller => Caller \in Threads
    BY NextOwnerQuiet DEF TypeInv, TypeOK, Threads
  <1>1. ASSUME UNCHANGED <<pc, idleTerm, owner>> PROVE PlacesInv'
    BY <1>0, <1>1 DEF NobodyLeft, CallerOut, WorkersOut
  <1>2. ASSUME NEW t \in Threads, RunLoop(t) \/ Body(t) PROVE PlacesInv'
    <2>1. /\ UNCHANGED owner /\ pc[t] \notin {"off", "exited"}
          /\ \A u \in Threads \ {t} : /\ pc'[u] = pc[u]
                                      /\ idleTerm'[u] = idleTerm[u]
      BY <1>0, <1>2
         DEF RunLoop, Pick, PickNothing, Idle, DispatchFiber, DispatchCb,
             DispatchEnded, SwapBack, SettleReady, SettleEnded, SettleHold,
             Release, Body, BodySchedule, Register, SwitchTo, YieldToHold,
             YieldToReady, Return, Throw, threadVars
    <2>2. ASSUME owner \in {"setup", "up"}
          PROVE  ~idleTerm'[t] /\ pc'[t] # "exited"
      <3>1. ~autoStop /\ ~idleTerm[t] /\ pc[t] # "exited"
        BY <2>2 DEF OwnerQuiet, NobodyLeft
      <3>2. CASE PickNothing(t)
        BY <1>0, <3>1, <3>2 DEF PickNothing
      <3>3. CASE Idle(t)
        BY <1>0, <3>1, <3>3 DEF Idle, Stopping
      <3>4. CASE ~PickNothing(t) /\ ~Idle(t)
        BY <1>0, <1>2, <3>1, <3>4
           DEF RunLoop, Pick, DispatchFiber, DispatchCb, DispatchEnded,
               SwapBack, SettleReady, SettleEnded, SettleHold, Release, Body,
               BodySchedule, Register, SwitchTo, YieldToHold, YieldToReady,
               Return, Throw, threadVars
      <3> QED BY <3>2, <3>3, <3>4
    <2>3. NobodyLeft'
      BY <2>1, <2>2 DEF NobodyLeft
    <2>4. CallerOut'
      BY <1>0, <2>1 DEF CallerOut
    <2>5. WorkersOut'
      BY <1>0, <2>1 DEF WorkersOut
    <2> QED BY <1>0, <2>3, <2>4, <2>5
  <1>3. ASSUME OwnerSchedule PROVE PlacesInv'
    BY <1>1, <1>3 DEF OwnerSchedule, threadVars
  <1>4. ASSUME Start PROVE PlacesInv'
    BY <1>0, <1>4 DEF Start, NobodyLeft, CallerOut, WorkersOut
  <1>5. ASSUME OwnerStops PROVE PlacesInv'
    <2>1. UseCaller /\ owner \in {"up", "halting", "check"}
            => pc[Caller] = "off"
      BY DEF TypeInv, OwnerPlaces
    <2>2. CASE StopBegin
      BY <1>0, <2>1, <2>2
         DEF StopBegin, NobodyLeft, CallerOut, WorkersOut, threadVars
    <2>3. CASE StopRequest
      BY <1>0, <2>3
         DEF StopRequest, NobodyLeft, CallerOut, WorkersOut, threadVars
    <2>4. CASE StopCall
      BY <1>0, <2>1, <2>4 DEF StopCall, NobodyLeft, CallerOut, WorkersOut
    <2>5. CASE StopResume
      BY <1>0, <2>5
         DEF StopResume, NobodyLeft, CallerOut, WorkersOut, threadVars
    <2>6. CASE StopJoin
      BY <1>0, <2>6
         DEF StopJoin, NobodyLeft, CallerOut, WorkersOut, threadVars
    <2> QED BY <1>5, <2>2, <2>3, <2>4, <2>5, <2>6 DEF OwnerStops
  <1>6. ASSUME UNCHANGED vars PROVE PlacesInv'
    BY <1>1, <1>6 DEF vars, threadVars
  <1> QED BY <1>2, <1>3, <1>4, <1>5, <1>6 DEF Next, Stopped

\* A step of t: each fiber has t, is entered, or is as it was, and not t's.
LEMMA HeldStep ==
  ASSUME HeldInv, NEW t \in Threads,
         \A u \in Threads \ {t} : /\ pc'[u] = pc[u] /\ ft'[u] = ft[u]
                                  /\ cbFiber'[u] = cbFiber[u],
         \A g \in Fibers :
           \/ fstate'[g] \notin {"EXEC", "READY"}
           \/ pc'[t] \in OnFiber /\ Running(t)' = g
           \/ fstate'[g] = "READY" /\ Entered(g)'
           \/ /\ fstate'[g] = fstate[g]
              /\ pc[t] \in OnFiber => Running(t) # g
              /\ Entered(g) => Entered(g)'
  PROVE  HeldInv'
  <1>1. \A u \in Threads \ {t} :
          /\ u \in At(OnFiber) => u \in At(OnFiber)'
          /\ Running(u)' = Running(u)
    BY DEF At, Running
  <1> SUFFICES ASSUME NEW g \in Fibers
               PROVE  /\ fstate'[g] = "EXEC" => Held(g)'
                      /\ fstate'[g] = "READY" => Held(g)' \/ Entered(g)'
    BY DEF HeldInv
  <1>2. CASE pc'[t] \in OnFiber /\ Running(t)' = g
    BY <1>2 DEF Held, At
  <1>3. CASE /\ fstate'[g] = fstate[g]
             /\ pc[t] \in OnFiber => Running(t) # g
             /\ Entered(g) => Entered(g)'
    <2>1. Held(g) => Held(g)'
      <3> SUFFICES ASSUME NEW u \in At(OnFiber), Running(u) = g
                   PROVE  Held(g)'
        BY DEF Held
      <3>1. u \in Threads \ {t}
        BY <1>3 DEF At
      <3> QED BY <1>1, <3>1 DEF Held
    <2> QED BY <1>3, <2>1 DEF HeldInv
  <1> QED BY <1>2, <1>3

\* The list only grows at its end when something is put on it.
LEMMA EnqueueKeeps ==
  ASSUME TypeOK, NEW s \in Seq(Entry), queue' = queue \o s
  PROVE  \A f : Queued(f) => Queued(f)'
  <1>1. /\ DOMAIN queue = 1..Len(queue) /\ Len(queue) \in Nat
        /\ DOMAIN queue' = 1..(Len(queue) + Len(s)) /\ Len(s) \in Nat
        /\ \A k \in 1..Len(queue) : queue'[k] = queue[k]
    BY DEF TypeOK
  <1> QED BY <1>1 DEF Queued

LEMMA ScheduleKeeps ==
  ASSUME TypeOK, Schedule
  PROVE  /\ \A f : Queued(f) => Queued(f)'
         /\ \A f \in Fibers : \/ fstate'[f] = fstate[f]
                              \/ fstate'[f] = "INIT"
  <1> USE NamesAssumption
  <1>1. PICK s \in Seq(Entry) : queue' = queue \o s
    <2>1. ASSUME NEW j \in Jobs, NEW p \in Pins, SubmitCb(j, p)
          PROVE  \E s \in Seq(Entry) : queue' = queue \o s
      <3>1. <<CbEntry(j, p)>> \in Seq(Entry)
        BY DEF CbEntry, Entry
      <3> QED BY <2>1, <3>1 DEF SubmitCb, Enqueue
    <2>2. ASSUME NEW j \in Jobs, NEW k \in Jobs, SubmitBatch(j, k)
          PROVE  \E s \in Seq(Entry) : queue' = queue \o s
      <3>1. <<CbEntry(j, AnyThread), CbEntry(k, AnyThread)>> \in Seq(Entry)
        BY DEF CbEntry, Entry
      <3> QED BY <2>2, <3>1 DEF SubmitBatch, Enqueue
    <2>3. ASSUME NEW f \in Fibers, NEW p \in Pins
          PROVE  <<FiberEntry(f, p)>> \in Seq(Entry)
      BY DEF FiberEntry, Entry
    <2>4. ASSUME NEW j \in Jobs, NEW p \in Pins, SubmitFiber(j, p)
          PROVE  \E s \in Seq(Entry) : queue' = queue \o s
      BY <2>3, <2>4 DEF SubmitFiber, Enqueue
    <2>5. ASSUME NEW f \in Fibers, NEW p \in Pins, Wake(f, p)
          PROVE  \E s \in Seq(Entry) : queue' = queue \o s
      BY <2>3, <2>5 DEF Wake, Enqueue
    <2> QED BY <2>1, <2>2, <2>4, <2>5 DEF Schedule
  <1>2. \A f \in Fibers : fstate'[f] = fstate[f] \/ fstate'[f] = "INIT"
    BY DEF Schedule, SubmitCb, SubmitFiber, SubmitBatch, Wake, TypeOK
  <1> QED BY <1>1, <1>2, EnqueueKeeps

LEMMA RunLoopHeld ==
  ASSUME TypeInv, ClaimInv, HeldInv, NEW t \in Threads, RunLoop(t)
  PROVE  HeldInv'
  <1> USE NamesAssumption
  <1>0. /\ TypeOK
        /\ \A u \in Threads \ {t} : /\ pc'[u] = pc[u] /\ ft'[u] = ft[u]
                                    /\ cbFiber'[u] = cbFiber[u]
    BY DEF TypeInv, TypeOK, RunLoop, Pick, PickNothing, Idle, DispatchFiber,
           DispatchCb, DispatchEnded, SwapBack, SettleReady, SettleEnded,
           SettleHold, Release, poolVars
  \* Steps of a thread that hands nothing over keep what is entered.
  <1>1. ASSUME UNCHANGED queue, pc[t] # "dispatch"
        PROVE  \A g : Entered(g) => Entered(g)'
    <2>1. \A g : PickedUp(g) => PickedUp(g)'
      BY <1>0, <1>1 DEF PickedUp, At
    <2> QED BY <1>1, <2>1 DEF Entered, Queued
  <1>2. CASE Pick(t)
    <2>1. PICK i \in DOMAIN queue :
            /\ ft' = [ft EXCEPT ![t] = queue[i]]
            /\ queue' = RemoveAt(queue, i)
      BY <1>2 DEF Pick
    <2>2. /\ pc[t] = "pick" /\ pc' = [pc EXCEPT ![t] = "dispatch"]
          /\ UNCHANGED fstate
      BY <1>2 DEF Pick
    <2>3. /\ pc'[t] = "dispatch" /\ ft'[t] = queue[i]
          /\ t \in At({"dispatch"})'
      BY <1>0, <2>1, <2>2 DEF TypeOK, At
    <2>4. \A g \in Fibers : Queued(g)' <=> Queued(g) /\ queue[i].fiber # g
      BY <1>0, <2>1, RemoveClaims DEF ClaimInv
    <2>5. \A g : PickedUp(g) => PickedUp(g)'
      BY <1>0, <2>2 DEF PickedUp, At
    <2>6. \A g : queue[i].fiber = g => PickedUp(g)'
      BY <2>3 DEF PickedUp
    <2>7. \A g \in Fibers : Entered(g) => Entered(g)'
      BY <2>4, <2>5, <2>6 DEF Entered
    <2> QED BY <1>0, <2>2, <2>7, HeldStep DEF OnFiber, InBody
  <1>3. CASE PickNothing(t) \/ Idle(t)
    <2>1. /\ UNCHANGED <<queue, fstate>>
          /\ pc[t] # "dispatch" /\ pc[t] \notin OnFiber
      BY <1>3 DEF PickNothing, Idle, poolVars, OnFiber, InBody
    <2> QED BY <1>0, <1>1, <2>1, HeldStep
  <1>4. CASE DispatchFiber(t)
    <2>1. PICK f \in Fibers : f = ft[t].fiber
      BY <1>0, <1>4 DEF DispatchFiber, TypeOK, Entry
    <2>2. /\ pc[t] = "dispatch" /\ pc'[t] = "run" /\ Running(t)' = f
          /\ fstate' = [fstate EXCEPT ![f] = "EXEC"] /\ UNCHANGED queue
      BY <1>0, <1>4, <2>1 DEF DispatchFiber, Running, TypeOK
    <2>3. \A g \in Fibers \ {f} : Entered(g) => Entered(g)'
      BY <1>0, <2>1, <2>2 DEF Entered, Queued, PickedUp, At
    <2>4. \A g \in Fibers \ {f} : fstate'[g] = fstate[g]
      BY <1>0, <2>2 DEF TypeOK
    <2> QED BY <1>0, <2>2, <2>3, <2>4, HeldStep DEF OnFiber, InBody
  <1>5. CASE DispatchCb(t)
    <2>1. PICK f \in Fibers : /\ fstate' = [fstate EXCEPT ![f] = "EXEC"]
                              /\ cbFiber' = [cbFiber EXCEPT ![t] = f]
      BY <1>5 DEF DispatchCb
    <2>2. /\ pc[t] = "dispatch" /\ ft[t].cb # None
          /\ ft' = [ft EXCEPT ![t] = NoEntry]
          /\ pc' = [pc EXCEPT ![t] = "run"] /\ UNCHANGED queue
      BY <1>5 DEF DispatchCb
    <2>3. ft[t].fiber = None
      BY <1>0, <2>2 DEF TypeOK, Entry
    <2>4. pc'[t] = "run" /\ Running(t)' = f
      BY <1>0, <2>1, <2>2 DEF Running, NoEntry, TypeOK
    <2>5. \A g \in Fibers : Entered(g) => Entered(g)'
      <3>1. \A g \in Fibers : PickedUp(g) => PickedUp(g)'
        BY <1>0, <2>3 DEF PickedUp, At
      <3> QED BY <2>2, <3>1 DEF Entered, Queued
    <2>6. \A g \in Fibers \ {f} : fstate'[g] = fstate[g]
      BY <1>0, <2>1 DEF TypeOK
    <2> QED BY <1>0, <2>2, <2>4, <2>5, <2>6, HeldStep DEF OnFiber, InBody
  <1>6. ~DispatchEnded(t)
    <2>1. ASSUME pc[t] = "dispatch", ft[t].fiber # None
          PROVE  ~Ended(ft[t].fiber)
      BY <2>1 DEF ClaimInv, PickedState, At, Ended
    <2> QED BY <2>1 DEF DispatchEnded
  <1>7. CASE SwapBack(t)
    <2>1. /\ UNCHANGED <<queue, fstate>> /\ pc[t] # "dispatch"
          /\ pc'[t] \in OnFiber /\ Running(t)' = Running(t)
      BY <1>0, <1>7 DEF SwapBack, poolVars, OnFiber, Running, TypeOK
    <2> QED BY <1>0, <1>1, <2>1, HeldStep
  <1>8. CASE SettleReady(t) \/ SettleEnded(t) \/ SettleHold(t)
    <2>1. PICK f \in Fibers : f = Running(t)
      BY <1>0, <1>8, RunningFiber
         DEF SettleReady, SettleEnded, SettleHold, OnFiber
    <2>2. /\ pc[t] = "settle"
          /\ \A g \in Fibers \ {f} : fstate'[g] = fstate[g]
      BY <1>0, <1>8, <2>1
         DEF SettleReady, SettleEnded, SettleHold, TypeOK
    <2>3. \A g : PickedUp(g) => PickedUp(g)'
      BY <1>0, <2>2 DEF PickedUp, At
    <2>4. CASE SettleReady(t)
      <3>1. /\ <<FiberEntry(f, AnyThread)>> \in Seq(Entry)
            /\ queue' = queue \o <<FiberEntry(f, AnyThread)>>
            /\ UNCHANGED fstate /\ fstate[f] = "READY"
        BY <2>1, <2>4 DEF SettleReady, Enqueue, FiberEntry, Entry
      <3>2. \A g : Queued(g) => Queued(g)'
        BY <1>0, <3>1, EnqueueKeeps
      <3>3. Queued(f)'
        <4>1. /\ Len(queue) + 1 \in DOMAIN queue'
              /\ queue'[Len(queue) + 1].fiber = f
          BY <1>0, <3>1 DEF TypeOK, FiberEntry
        <4> QED BY <4>1 DEF Queued
      <3> QED BY <1>0, <2>1, <2>3, <3>1, <3>2, <3>3, HeldStep DEF Entered
    <2>5. CASE SettleEnded(t) \/ SettleHold(t)
      <3>1. UNCHANGED queue /\ fstate'[f] \notin {"EXEC", "READY"}
        BY <1>0, <2>1, <2>5 DEF SettleEnded, SettleHold, Ended, TypeOK
      <3> QED BY <1>0, <1>1, <2>1, <2>2, <3>1, HeldStep
    <2> QED BY <1>8, <2>4, <2>5
  <1> QED BY <1>2, <1>3, <1>4, <1>5, <1>6, <1>7, <1>8 DEF RunLoop

LEMMA BodyHeld ==
  ASSUME TypeInv, HeldInv, NEW t \in Threads, Body(t)
  PROVE  HeldInv'
  <1>0. /\ TypeOK /\ pc[t] \in InBody /\ pc'[t] \in OnFiber
        /\ UNCHANGED <<ft, cbFiber>>
        /\ \A u \in Threads \ {t} : pc'[u] = pc[u]
    BY DEF TypeInv, TypeOK, Body, BodySchedule, Register, SwitchTo,
           YieldToHold, YieldToReady, Return, Throw, InBody, OnFiber,
           threadVars, poolVars
  <1>1. PICK f \in Fibers : f = Running(t) /\ f = Running(t)'
    <2>1. Running(t) \in Fibers
      BY <1>0, RunningFiber DEF InBody, OnFiber
    <2> QED BY <1>0, <2>1 DEF Running
  <1>2. \A g \in Fibers \ {f} : fstate'[g] = fstate[g] \/ fstate'[g] = "INIT"
    BY <1>0, <1>1, ScheduleKeeps
       DEF Body, BodySchedule, Register, SwitchTo, YieldToHold, YieldToReady,
           Return, Throw, poolVars, TypeOK
  <1>3. \A g : Queued(g) => Queued(g)'
    <2>1. CASE BodySchedule(t)
      BY <1>0, <2>1, ScheduleKeeps DEF BodySchedule
    <2>2. CASE SwitchTo(t)
      <3>1. PICK p \in Pins : queue' = queue \o <<FiberEntry(f, p)>>
        BY <1>1, <2>2 DEF SwitchTo, Enqueue
      <3>2. <<FiberEntry(f, p)>> \in Seq(Entry)
        BY NamesAssumption DEF FiberEntry, Entry
      <3> QED BY <1>0, <3>1, <3>2, EnqueueKeeps
    <2>3. CASE ~BodySchedule(t) /\ ~SwitchTo(t)
      <3>1. UNCHANGED queue
        BY <2>3 DEF Body, Register, YieldToHold, YieldToReady, Return, Throw,
                    poolVars
      <3> QED BY <3>1 DEF Queued
    <2> QED BY <2>1, <2>2, <2>3
  <1>4. \A g : PickedUp(g) => PickedUp(g)'
    BY <1>0 DEF PickedUp, At, InBody
  <1> QED BY <1>0, <1>1, <1>2, <1>3, <1>4, HeldStep DEF Entered

\* The steps of the owner touch no thread that is on a fiber.
LEMMA OwnerMoves ==
  ASSUME TypeInv, OwnerSchedule \/ Start \/ OwnerStops
  PROVE  /\ UNCHANGED <<ft, cbFiber>>
         /\ \A u \in Threads : \/ pc'[u] = pc[u]
                               \/ pc[u] = "off" /\ pc'[u] = "pick"
  <1>0. TypeOK
    BY DEF TypeInv
  <1>1. UNCHANGED <<ft, cbFiber>>
    BY DEF OwnerSchedule, Start, OwnerStops, StopBegin, StopRequest, StopCall,
           StopResume, StopJoin, poolVars, threadVars
  <1>2. CASE Start
    <2>1. \A u \in Workers : pc[u] = "off"
      BY <1>2 DEF Start, TypeInv, OwnerPlaces, Threads
    <2> QED BY <1>1, <1>2, <2>1 DEF Start, Threads
  <1>3. CASE StopCall
    <2>1. Caller \in Threads => pc[Caller] = "off"
      BY <1>3, ThreadsAssumption DEF StopCall, TypeInv, OwnerPlaces, Threads
    <2> QED BY <1>0, <1>1, <1>3, <2>1 DEF StopCall, TypeOK
  <1>4. CASE ~Start /\ ~StopCall
    BY <1>1, <1>4
       DEF OwnerSchedule, OwnerStops, StopBegin, StopRequest, StopResume,
           StopJoin, threadVars
  <1> QED BY <1>2, <1>3, <1>4

LEMMA NextHeld ==
  ASSUME TypeInv, ClaimInv, HeldInv, [Next]_vars
  PROVE  HeldInv'
  <1>0. TypeOK
    BY DEF TypeInv
  <1>1. ASSUME UNCHANGED <<ft, cbFiber>>,
               \A u \in Threads : \/ pc'[u] = pc[u]
                                  \/ pc[u] = "off" /\ pc'[u] = "pick",
               \A f : Queued(f) => Queued(f)',
               \A f \in Fibers : fstate'[f] = fstate[f] \/ fstate'[f] = "INIT"
        PROVE  HeldInv'
    <2>1. /\ At(OnFiber)' = At(OnFiber) /\ At({"dispatch"})' = At({"dispatch"})
          /\ \A u : Running(u)' = Running(u)
      BY <1>1 DEF At, OnFiber, InBody, Running
    <2>2. \A f : (Held(f) => Held(f)') /\ (Entered(f) => Entered(f)')
      BY <1>1, <2>1 DEF Held, Entered, PickedUp
    <2> QED BY <1>1, <2>2 DEF HeldInv
  <1>2. ASSUME OwnerSchedule \/ Start \/ OwnerStops PROVE HeldInv'
    <2>1. CASE OwnerSchedule
      BY <1>0, <1>1, <1>2, <2>1, OwnerMoves, ScheduleKeeps DEF OwnerSchedule
    <2>2. CASE Start \/ OwnerStops
      <3>1. UNCHANGED <<queue, fstate>>
        BY <2>2 DEF Start, OwnerStops, StopBegin, StopRequest, StopCall,
                    StopResume, StopJoin, poolVars
      <3>2. \A f : Queued(f) => Queued(f)'
        BY <3>1 DEF Queued
      <3> QED BY <1>1, <1>2, <3>1, <3>2, OwnerMoves
    <2> QED BY <1>2, <2>1, <2>2
  <1>3. ASSUME UNCHANGED vars PROVE HeldInv'
    <2>1. UNCHANGED <<queue, fstate, ft, cbFiber, pc>>
      BY <1>3 DEF vars, poolVars, threadVars
    <2> QED BY <1>1, <2>1 DEF Queued
  <1> QED BY <1>2, <1>3, RunLoopHeld, BodyHeld DEF Next, Stopped

-----------------------------------------------------------------------------
(* The list is empty once everybody has left: either because stopping() is *)
(* final, when no body yields READY, or because the last thread to leave   *)
(* could have taken any entry, when no task names a thread.                *)

LastOut == (\A t \in Threads : Gone(t)) => queue = <<>>

Unpinned == \A i \in DOMAIN queue : queue[i].thread = AnyThread

OutInv ==
    /\ LastOut
    /\ \/ ~AllowReady /\ GoneInv
       \/ Pins \subseteq {AnyThread} /\ Unpinned

LEMMA InitOut ==
  ASSUME ~AllowReady \/ Pins \subseteq {AnyThread}
  PROVE  Init => OutInv
  BY InitGone DEF Init, OutInv, LastOut, Unpinned

\* Some thread has not left while the scheduler is in use.
LEMMA SomebodyIn ==
  ASSUME PlacesInv, owner \in {"setup", "up"}
  PROVE  \A t \in Threads : ~Gone(t)
  BY DEF PlacesInv, NobodyLeft, Gone

LEMMA NextUnpinned ==
  ASSUME Pins \subseteq {AnyThread}, TypeInv, Unpinned, [Next]_vars
  PROVE  Unpinned'
  <1>0. TypeOK
    BY DEF TypeInv
  <1>1. ASSUME NEW e \in Entry, e.thread = AnyThread,
               queue' = queue \o <<e>>
        PROVE  Unpinned'
    <2>1. /\ DOMAIN queue = 1..Len(queue) /\ Len(queue) \in Nat
          /\ DOMAIN queue' = 1..(Len(queue) + 1)
          /\ \A k \in 1..Len(queue) : queue'[k] = queue[k]
          /\ queue'[Len(queue) + 1] = e
      BY <1>0, <1>1 DEF TypeOK
    <2> QED BY <1>1, <2>1 DEF Unpinned
  <1>2. \A p \in Pins : p = AnyThread
    OBVIOUS
  <1>3. ASSUME NEW f \in Fibers, queue' = queue \o <<FiberEntry(f, AnyThread)>>
        PROVE  Unpinned'
    <2>1. /\ FiberEntry(f, AnyThread) \in Entry
          /\ FiberEntry(f, AnyThread).thread = AnyThread
      BY NamesAssumption DEF FiberEntry, Entry
    <2> QED BY <1>1, <1>3, <2>1
  <1>4. ASSUME Schedule PROVE Unpinned'
    <2>1. ASSUME NEW j \in Jobs, NEW p \in Pins, SubmitCb(j, p)
          PROVE  Unpinned'
      <3>1. CbEntry(j, p) \in Entry /\ CbEntry(j, p).thread = AnyThread
        BY <1>2, NamesAssumption DEF CbEntry, Entry
      <3> QED BY <1>1, <2>1, <3>1 DEF SubmitCb, Enqueue
    <2>2. ASSUME NEW j \in Jobs, NEW k \in Jobs, SubmitBatch(j, k)
          PROVE  Unpinned'
      <3>1. /\ DOMAIN queue = 1..Len(queue) /\ Len(queue) \in Nat
            /\ DOMAIN queue' = 1..(Len(queue) + 2)
            /\ \A i \in 1..Len(queue) : queue'[i] = queue[i]
            /\ queue'[Len(queue) + 1].thread = AnyThread
            /\ queue'[Len(queue) + 2].thread = AnyThread
        BY <1>0, <2>2 DEF SubmitBatch, Enqueue, TypeOK, CbEntry
      <3> QED BY <3>1 DEF Unpinned
    <2>3. ASSUME NEW j \in Jobs, NEW p \in Pins, SubmitFiber(j, p)
          PROVE  Unpinned'
      BY <1>2, <1>3, <2>3 DEF SubmitFiber, Enqueue
    <2>4. ASSUME NEW f \in Fibers, NEW p \in Pins, Wake(f, p)
          PROVE  Unpinned'
      BY <1>2, <1>3, <2>4 DEF Wake, Enqueue
    <2> QED BY <1>4, <2>1, <2>2, <2>3, <2>4 DEF Schedule
  <1>5. ASSUME UNCHANGED queue PROVE Unpinned'
    BY <1>5 DEF Unpinned
  <1>6. ASSUME NEW t \in Threads, RunLoop(t) PROVE Unpinned'
    <2>1. CASE Pick(t)
      <3>1. PICK i \in DOMAIN queue : queue' = RemoveAt(queue, i)
        BY <2>1 DEF Pick
      <3>2. /\ DOMAIN queue' = 1..(Len(queue) - 1)
            /\ DOMAIN queue = 1..Len(queue) /\ Len(queue) \in Nat
            /\ \A k \in 1..(Len(queue) - 1) :
                 queue'[k] = IF k < i THEN queue[k] ELSE queue[k + 1]
        BY <1>0, <3>1, RemoveAtProperties DEF TypeOK
      <3> QED BY <3>2 DEF Unpinned
    <2>2. CASE SettleReady(t)
      <3>1. Running(t) \in Fibers
        BY <2>2, RunningFiber DEF SettleReady, OnFiber
      <3> QED BY <1>3, <2>2, <3>1 DEF SettleReady, Enqueue
    <2>3. CASE ~Pick(t) /\ ~SettleReady(t)
      BY <1>5, <1>6, <2>3
         DEF RunLoop, PickNothing, Idle, DispatchFiber, DispatchCb,
             DispatchEnded, SwapBack, SettleEnded, SettleHold, poolVars
    <2> QED BY <2>1, <2>2, <2>3
  <1>7. ASSUME NEW t \in Threads, Body(t) PROVE Unpinned'
    <2>1. ~SwitchTo(t)
      BY <1>2 DEF SwitchTo
    <2> QED BY <1>4, <1>5, <1>7, <2>1
            DEF Body, BodySchedule, Register, YieldToHold, YieldToReady,
                Return, Throw, poolVars
  <1>8. ASSUME OwnerSchedule \/ Start \/ OwnerStops PROVE Unpinned'
    BY <1>4, <1>5, <1>8
       DEF OwnerSchedule, Start, OwnerStops, StopBegin, StopRequest, StopCall,
           StopResume, StopJoin, poolVars
  <1> QED BY <1>5, <1>6, <1>7, <1>8 DEF Next, Stopped, vars, poolVars

\* Whoever leaves last finds nothing that it may run, so nothing at all: an
\* entry it may not run names a fiber some thread is executing.
LEMMA NextLastOut ==
  ASSUME TypeInv, PlacesInv, HeldInv, Unpinned, LastOut, [Next]_vars
  PROVE  LastOut'
  <1> SUFFICES ASSUME \A t \in Threads : Gone(t)' PROVE queue' = <<>>
    BY DEF LastOut
  <1> USE NamesAssumption
  <1>0. /\ TypeOK /\ Threads # {} /\ Caller \notin Workers
        /\ \A t \in Threads : t \in Workers \/ (t = Caller /\ UseCaller)
        /\ \A t \in Workers : t \in Threads
    <2>1. TypeOK /\ Threads # {} /\ Caller \notin Workers
      BY ThreadsAssumption DEF TypeInv
    <2>2. /\ \A t \in Threads : t \in Workers \/ (t = Caller /\ UseCaller)
          /\ \A t \in Workers : t \in Threads
      BY DEF Threads
    <2> QED BY <2>1, <2>2
  <1>1. ASSUME NEW t \in Threads, pc[t] \notin {"off", "exited"}
        PROVE  ~Gone(t)
    BY <1>0, <1>1 DEF Gone, PlacesInv, CallerOut
  <1>2. ASSUME NEW t \in Threads, RunLoop(t) \/ Body(t) PROVE queue' = <<>>
    <2>1. /\ UNCHANGED owner /\ pc[t] \notin {"off", "exited"}
          /\ \A u \in Threads \ {t} : pc'[u] = pc[u]
      BY <1>0, <1>2
         DEF RunLoop, Pick, PickNothing, Idle, DispatchFiber, DispatchCb,
             DispatchEnded, SwapBack, SettleReady, SettleEnded, SettleHold,
             Release, Body, BodySchedule, Register, SwitchTo, YieldToHold,
             YieldToReady, Return, Throw, threadVars, TypeOK
    <2>2. Gone(t)' /\ ~Gone(t)
      BY <1>1, <2>1
    <2>3. pc'[t] = "exited"
      BY <2>1, <2>2 DEF Gone
    <2>4. PickNothing(t)
      BY <1>0, <1>2, <2>3
         DEF RunLoop, Pick, PickNothing, Idle, DispatchFiber, DispatchCb,
             DispatchEnded, SwapBack, SettleReady, SettleEnded, SettleHold,
             Release, Body, BodySchedule, Register, SwitchTo, YieldToHold,
             YieldToReady, Return, Throw, threadVars, TypeOK
    <2>5. ASSUME NEW i \in DOMAIN queue PROVE FALSE
      <3>1. queue[i] \in Entry /\ ~Eligible(t, queue[i])
        BY <1>0, <2>4, ElementOfSeq DEF TypeOK, PickNothing
      <3>2. PICK f \in Fibers : f = queue[i].fiber /\ fstate[f] = "EXEC"
        BY <3>1 DEF Eligible, Unpinned, Entry
      <3>3. PICK u \in At(OnFiber) : Running(u) = f
        BY <3>2 DEF HeldInv, Held
      <3>4. u \in Threads \ {t} /\ pc[u] \notin {"off", "exited"}
        BY <2>4, <3>3 DEF At, OnFiber, InBody, PickNothing
      <3>5. ~Gone(u)
        BY <1>1, <3>4
      <3> QED BY <2>1, <3>4, <3>5 DEF Gone
    <2>6. queue = <<>>
      <3>1. queue \in Seq(Entry) /\ Len(queue) \in Nat
            /\ DOMAIN queue = 1..Len(queue)
        BY <1>0 DEF TypeOK
      <3>2. Len(queue) = 0
        BY <2>5, <3>1
      <3> QED BY <3>1, <3>2
    <2> QED BY <2>4, <2>6 DEF PickNothing, poolVars
  <1>3. ASSUME UNCHANGED <<queue, pc, owner>> PROVE queue' = <<>>
    BY <1>3 DEF LastOut, Gone
  <1>4. ~(OwnerSchedule \/ Start)
    <2>1. ASSUME owner' \in {"setup", "up"}, [Next]_vars PROVE FALSE
      <3>1. PlacesInv'
        BY NextPlaces
      <3>2. PICK t \in Threads : TRUE
        BY <1>0
      <3>3. Gone(t)' => pc'[t] = "exited"
        BY <2>1 DEF Gone
      <3> QED BY <2>1, <3>1, <3>3 DEF PlacesInv, NobodyLeft
    <2> QED BY <2>1 DEF OwnerSchedule, Start
  <1>5. ASSUME OwnerStops PROVE queue' = <<>>
    <2>1. CASE StopBegin
      <3>1. CASE owner' = "stopped"
        BY <2>1, <3>1 DEF StopBegin, poolVars
      <3>2. CASE owner' # "stopped"
        <4>1. \A t \in Threads : Gone(t)' => Gone(t)
          BY <2>1, <3>2 DEF StopBegin, Gone, threadVars
        <4> QED BY <2>1, <4>1 DEF LastOut, StopBegin, poolVars
      <3> QED BY <3>1, <3>2
    <2>2. CASE StopRequest
      <3>1. \A t \in Threads : Gone(t)' => Gone(t)
        BY <2>2 DEF StopRequest, Gone, threadVars
      <3> QED BY <2>2, <3>1 DEF LastOut, StopRequest, poolVars
    <2>3. CASE StopCall
      <3>1. CASE UseCaller /\ Stopping
        BY <2>3, <3>1 DEF StopCall, Stopping, poolVars
      <3>2. CASE ~UseCaller
        <4>1. \A t \in Threads : Gone(t)' => Gone(t)
          BY <1>0, <2>3, <3>2 DEF StopCall, Gone
        <4> QED BY <2>3, <4>1 DEF LastOut, StopCall, poolVars
      <3>3. CASE UseCaller /\ ~Stopping
        <4>1. Caller \in Threads /\ ~Gone(Caller)'
          BY <1>0, <2>3, <3>3 DEF StopCall, Gone, Threads, TypeOK
        <4> QED BY <4>1
      <3> QED BY <3>1, <3>2, <3>3
    <2>4. CASE StopResume \/ StopJoin
      <3>1. \A t \in Threads : Gone(t)' => Gone(t)
        BY <2>4 DEF StopResume, StopJoin, Gone, threadVars
      <3> QED BY <2>4, <3>1 DEF LastOut, StopResume, StopJoin, poolVars
    <2> QED BY <1>5, <2>1, <2>2, <2>3, <2>4 DEF OwnerStops
  <1>6. UNCHANGED vars => UNCHANGED <<queue, pc, owner>>
    BY DEF vars, poolVars, threadVars
  <1> QED BY <1>2, <1>3, <1>4, <1>5, <1>6 DEF Next, Stopped

LEMMA NextOut ==
  ASSUME TypeInv, PlacesInv, HeldInv, OutInv, [Next]_vars
  PROVE  OutInv'
  <1>1. CASE ~AllowReady /\ GoneInv
    <2>1. GoneInv'
      BY <1>1, NextGone
    <2>2. LastOut'
      <3>1. Threads # {}
        BY ThreadsAssumption
      <3> QED BY <2>1, <3>1
              DEF GoneInv, LeftOnStopping, LastOut, Stopping
    <2> QED BY <1>1, <2>1, <2>2 DEF OutInv
  <1>2. CASE Pins \subseteq {AnyThread} /\ Unpinned
    BY <1>2, NextUnpinned, NextLastOut DEF OutInv
  <1> QED BY <1>1, <1>2 DEF OutInv

-----------------------------------------------------------------------------
(* The refinement: where a function stands, as the abstract pool sees it,  *)
(* from where the detailed model has it.                                   *)

\* A thread is in the body of the fiber f.
Up(f) == \E t \in At(InBody) : Running(t) = f

\* The fiber f is to be resumed.
Waiting(f) == Entered(f) \/ fstate[f] = "READY"

PoolInv ==
    /\ TypeInv /\ ClaimInv /\ JobInv
    /\ PlacesInv /\ HeldInv /\ OutInv

LEMMA UpState ==
  ASSUME TypeInv, ClaimInv, NEW f \in Fibers, Up(f)
  PROVE  fstate[f] = "EXEC"
  BY DEF Up, ClaimInv, RunningState, At, OnFiber, InBody

\* Where an unfinished function in a fiber stands depends on that fiber.
LEMMA CarriedStatus ==
  ASSUME PoolInv, NEW f \in Fibers, cbOf[f] # None, cbOf[f] \notin finished
  PROVE  /\ Up(f) => JobStatus(cbOf[f]) = "running"
         /\ ~Up(f) /\ Waiting(f) => JobStatus(cbOf[f]) = "ready"
         /\ ~Up(f) /\ ~Waiting(f) => JobStatus(cbOf[f]) = "parked"
  <1> USE NamesAssumption DEF PoolInv, JobInv
  <1> DEFINE j == cbOf[f]
  <1>0. /\ TypeOK /\ TypeInv /\ j \in submitted /\ j \notin finished
        /\ ~QueuedCb(j) /\ ~PickedCb(j)
        /\ \A g \in Fibers : cbOf[g] = j => g = f
        /\ fstate[f] # "EXCEPT"
    BY DEF CarriedCbs, TypeInv
  <1>1. JobRunning(j) <=> Up(f)
    <2>1. \A t \in At(InBody) : Running(t) \in Fibers
      BY <1>0, RunningFiber DEF At, InBody, OnFiber
    <2> QED BY <1>0, <2>1 DEF JobRunning, Up
  <1>2. JobReady(j) <=> Waiting(f)
    <2>1. \A i \in DOMAIN queue : JobOf(queue[i]) = j <=> queue[i].fiber = f
      <3> SUFFICES ASSUME NEW i \in DOMAIN queue
                   PROVE  JobOf(queue[i]) = j <=> queue[i].fiber = f
        OBVIOUS
      <3>1. queue[i] \in Entry
        BY <1>0, ElementOfSeq DEF TypeOK
      <3>2. queue[i].cb # j
        BY <1>0 DEF QueuedCb
      <3> QED BY <1>0, <3>1, <3>2 DEF JobOf, Entry
    <2>2. \A t \in At({"dispatch"}) : JobOf(ft[t]) = j <=> ft[t].fiber = f
      <3> SUFFICES ASSUME NEW t \in At({"dispatch"})
                   PROVE  JobOf(ft[t]) = j <=> ft[t].fiber = f
        OBVIOUS
      <3>1. ft[t] \in Entry
        BY <1>0 DEF TypeOK, At
      <3>2. ft[t].cb # j
        BY <1>0 DEF PickedCb
      <3> QED BY <1>0, <3>1, <3>2 DEF JobOf, Entry
    <2>3. \A g \in Fibers :
            Carries(g, j) /\ fstate[g] = "READY"
              <=> g = f /\ fstate[f] = "READY"
      BY <1>0 DEF Carries
    <2> QED BY <2>1, <2>2, <2>3
            DEF JobReady, Waiting, Entered, Queued, PickedUp
  <1>3. ~Waiting(f) => JobParked(j)
    <2>1. fstate[f] \in FiberState \cup {"FREE"}
      BY <1>0 DEF TypeOK
    <2>2. ~Waiting(f) => fstate[f] \in {"EXEC", "HOLD"}
      BY <1>0, <2>1 DEF EmptyFibers, FiberState, Waiting
    <2> QED BY <2>2 DEF JobParked, Carries
  <1> QED BY <1>0, <1>1, <1>2, <1>3 DEF JobStatus

\* The other functions.
LEMMA PlainStatus ==
  ASSUME PoolInv, NEW j \in Jobs
  PROVE  /\ j \notin submitted => JobStatus(j) = "new"
         /\ j \in finished => JobStatus(j) = "done"
         /\ QueuedCb(j) \/ PickedCb(j) => JobStatus(j) = "ready"
  <1> USE NamesAssumption DEF PoolInv, JobInv
  <1>0. TypeOK /\ TypeInv /\ j # None
    BY DEF TypeInv
  <1>1. JobRunning(j) => j \in submitted \ finished
                         /\ ~QueuedCb(j) /\ ~PickedCb(j)
    <2> SUFFICES ASSUME NEW t \in At(InBody), cbOf[Running(t)] = j
                 PROVE  j \in submitted \ finished
                        /\ ~QueuedCb(j) /\ ~PickedCb(j)
      BY DEF JobRunning
    <2>1. Running(t) \in Fibers
      BY <1>0, RunningFiber DEF At, InBody, OnFiber
    <2>2. fstate[Running(t)] = "EXEC"
      BY <1>0, <2>1, UpState DEF Up
    <2> QED BY <1>0, <2>1, <2>2 DEF CarriedCbs
  <1>2. j \notin submitted => JobStatus(j) = "new"
    BY DEF JobStatus
  <1>3. j \in finished => JobStatus(j) = "done"
    BY <1>1 DEF JobStatus
  <1>4. ASSUME QueuedCb(j) \/ PickedCb(j) PROVE JobStatus(j) = "ready"
    <2>1. j \in submitted \ finished /\ ~JobRunning(j)
      BY <1>1, <1>4 DEF WaitingCbs
    <2>2. JobReady(j)
      <3>1. ASSUME NEW i \in DOMAIN queue, queue[i].cb = j
            PROVE  JobOf(queue[i]) = j
        <4>1. queue[i] \in Entry
          BY <1>0, ElementOfSeq DEF TypeOK
        <4> QED BY <1>0, <3>1, <4>1 DEF JobOf, Entry
      <3>2. ASSUME NEW t \in At({"dispatch"}), ft[t].cb = j
            PROVE  JobOf(ft[t]) = j
        <4>1. ft[t] \in Entry
          BY <1>0 DEF TypeOK, At
        <4> QED BY <1>0, <3>2, <4>1 DEF JobOf, Entry
      <3> QED BY <1>4, <3>1, <3>2 DEF QueuedCb, PickedCb, JobReady
    <2> QED BY <2>1, <2>2 DEF JobStatus
  <1> QED BY <1>2, <1>3, <1>4

\* Both in one predicate: where every function stands.
Shown ==
    /\ \A j \in Jobs :
         /\ j \notin submitted => JobStatus(j) = "new"
         /\ j \in finished => JobStatus(j) = "done"
         /\ QueuedCb(j) \/ PickedCb(j) => JobStatus(j) = "ready"
    /\ \A f \in Fibers : cbOf[f] # None /\ cbOf[f] \notin finished =>
         /\ Up(f) => JobStatus(cbOf[f]) = "running"
         /\ ~Up(f) /\ Waiting(f) => JobStatus(cbOf[f]) = "ready"
         /\ ~Up(f) /\ ~Waiting(f) => JobStatus(cbOf[f]) = "parked"

LEMMA StatusShown == PoolInv => Shown
  BY PlainStatus, CarriedStatus DEF Shown

LEMMA ShownNext == PoolInv' => Shown'
  BY StatusShown, PTL

\* A function stands where it stood if neither its places nor its fiber's
\* change.
LEMMA StatusKept ==
  ASSUME PoolInv, PoolInv', NEW j \in Jobs,
         j \in submitted' <=> j \in submitted,
         j \in finished' <=> j \in finished,
         QueuedCb(j)' \/ PickedCb(j)' <=> QueuedCb(j) \/ PickedCb(j),
         \A f \in Fibers : cbOf[f] = j /\ j \notin finished =>
           /\ cbOf'[f] = j
           /\ Up(f)' <=> Up(f)
           /\ Up(f) \/ (Waiting(f)' <=> Waiting(f))
  PROVE  JobStatus(j)' = JobStatus(j)
  <1> USE NamesAssumption
  <1>0. Shown /\ Shown' /\ j # None
    BY StatusShown, ShownNext
  <1>1. CASE j \notin submitted \/ j \in finished
    BY <1>0, <1>1 DEF Shown
  <1>2. CASE QueuedCb(j) \/ PickedCb(j)
    BY <1>0, <1>2 DEF Shown
  <1>3. ASSUME NEW f \in Fibers, cbOf[f] = j, j \notin finished
        PROVE  JobStatus(j)' = JobStatus(j)
    <2>1. /\ Up(f) => JobStatus(j) = "running"
          /\ ~Up(f) /\ Waiting(f) => JobStatus(j) = "ready"
          /\ ~Up(f) /\ ~Waiting(f) => JobStatus(j) = "parked"
      BY <1>0, <1>3 DEF Shown
    <2>2. cbOf'[f] = j /\ j \notin finished'
      BY <1>3
    <2>3. /\ Up(f)' => JobStatus(j)' = "running"
          /\ ~Up(f)' /\ Waiting(f)' => JobStatus(j)' = "ready"
          /\ ~Up(f)' /\ ~Waiting(f)' => JobStatus(j)' = "parked"
      BY <1>0, <2>2 DEF Shown
    <2> QED BY <1>3, <2>1, <2>3
  <1> QED BY <1>1, <1>2, <1>3 DEF PoolInv, JobInv, NoneLost

\* A step of the abstract pool: the functions S move, the others do not.
LEMMA MoveStep ==
  ASSUME NEW S \in SUBSET Jobs, NEW from, NEW to,
         owner # "stopped", owner' # "stopped",
         \A j \in S : JobStatus(j) = from /\ JobStatus(j)' = to,
         \A j \in Jobs \ S : JobStatus(j)' = JobStatus(j)
  PROVE  Pool!Move(S, from, to)
  BY DEF Pool!Move, Pool!In

LEMMA StillStep ==
  ASSUME \A j \in Jobs : JobStatus(j)' = JobStatus(j),
         owner' = "stopped" <=> owner = "stopped"
  PROVE  UNCHANGED Pool!poolState
  BY DEF Pool!poolState

\* The abstract pool counts as the detailed one does.
LEMMA PoolCardinality == \A S : Pool!Cardinality(S) = Cardinality(S)
  BY DEF Pool!Cardinality, Cardinality

\* A thread that dispatches is not in a body: there is room for one more.
LEMMA RoomToRun ==
  ASSUME PoolInv, NEW t \in Threads, pc[t] = "dispatch"
  PROVE  Cardinality(Pool!In("running")) < Cardinality(Threads)
  <1> DEFINE B == At(InBody)
             R == Pool!In("running")
             Body1 == {u \in B : cbOf[Running(u)] \in R}
             g == [u \in Body1 |-> cbOf[Running(u)]]
  <1>1. \A j \in R : JobRunning(j)
    BY DEF Pool!In, JobStatus
  <1>2. g \in Surjection(Body1, R)
    <2>1. g \in [Body1 -> R]
      OBVIOUS
    <2>2. \A j \in R : \E u \in Body1 : g[u] = j
      BY <1>1 DEF JobRunning
    <2> QED BY <2>1, <2>2 DEF Surjection
  <1>3. /\ IsFiniteSet(Threads) /\ Cardinality(Threads) \in Nat
        /\ Body1 \subseteq Threads \ {t}
    <2>1. t \notin B
      BY DEF At, InBody
    <2> QED BY <2>1, ThreadsFinite, FS_CardinalityType DEF At
  <1>4. /\ IsFiniteSet(Threads \ {t})
        /\ Cardinality(Threads \ {t}) = Cardinality(Threads) - 1
    BY <1>3, FS_RemoveElement
  <1>5. /\ IsFiniteSet(Body1)
        /\ Cardinality(Body1) <= Cardinality(Threads \ {t})
    BY <1>3, <1>4, FS_Subset
  <1>6. IsFiniteSet(R) /\ Cardinality(R) <= Cardinality(Body1)
    BY <1>2, <1>5, FS_Surjection
  <1>7. Cardinality(R) \in Nat /\ Cardinality(Body1) \in Nat
    BY <1>5, <1>6, FS_CardinalityType
  <1> HIDE DEF R, Body1
  <1>8. Cardinality(R) < Cardinality(Threads)
    BY <1>3, <1>4, <1>5, <1>6, <1>7
  <1> QED BY <1>8 DEF R

\* What is to be shown of every step.
PoolStep == Pool!PoolNext \/ UNCHANGED Pool!poolState

\* While a thread is in its loop, stop() has not returned.
LEMMA ActingThread ==
  ASSUME PoolInv, NEW t \in Threads, pc[t] \notin {"off", "exited"}
  PROVE  owner # "stopped"
  BY DEF PoolInv, PlacesInv, CallerOut, WorkersOut, Threads

\* Steps that move no function at all.
LEMMA NothingMoves ==
  ASSUME PoolInv, PoolInv', UNCHANGED <<submitted, finished>>,
         owner' = "stopped" <=> owner = "stopped",
         \A j \in Jobs : QueuedCb(j)' \/ PickedCb(j)'
                           <=> QueuedCb(j) \/ PickedCb(j),
         \A f \in Fibers : cbOf[f] # None /\ cbOf[f] \notin finished =>
           /\ cbOf'[f] = cbOf[f]
           /\ Up(f)' <=> Up(f)
           /\ Up(f) \/ (Waiting(f)' <=> Waiting(f))
  PROVE  PoolStep
  <1>1. \A j \in Jobs : j # None
    BY NamesAssumption
  <1>2. \A j \in Jobs : JobStatus(j)' = JobStatus(j)
    BY <1>1, StatusKept
  <1> QED BY <1>2, StillStep DEF PoolStep

\* A step of t that does not enter or leave a body.
LEMMA UpKept ==
  ASSUME NEW t \in Threads, pc[t] \notin InBody, pc'[t] \notin InBody,
         \A u \in Threads \ {t} : /\ pc'[u] = pc[u] /\ ft'[u] = ft[u]
                                  /\ cbFiber'[u] = cbFiber[u]
  PROVE  \A f : Up(f)' <=> Up(f)
  <1>1. At(InBody)' = At(InBody) /\ \A u \in At(InBody) : u # t
    BY DEF At
  <1>2. \A u \in At(InBody) : Running(u)' = Running(u)
    BY <1>1 DEF Running, At
  <1> QED BY <1>1, <1>2 DEF Up

\* A step of t that enters the body of f.
LEMMA UpEntered ==
  ASSUME NEW t \in Threads, pc[t] \notin InBody, pc'[t] \in InBody,
         NEW f, Running(t)' = f,
         \A u \in Threads \ {t} : /\ pc'[u] = pc[u] /\ ft'[u] = ft[u]
                                  /\ cbFiber'[u] = cbFiber[u]
  PROVE  \A g : Up(g)' <=> Up(g) \/ g = f
  <1>1. /\ At(InBody)' = At(InBody) \cup {t}
        /\ \A u \in At(InBody) : u # t
    BY DEF At
  <1>2. \A u \in At(InBody) : Running(u)' = Running(u)
    BY <1>1 DEF Running, At
  <1> QED BY <1>1, <1>2 DEF Up

\* A step of t that leaves the body of its fiber.
LEMMA UpLeft ==
  ASSUME TypeInv, ClaimInv, NEW t \in Threads, pc[t] \in InBody,
         pc' = [pc EXCEPT ![t] = "swapped"], UNCHANGED <<ft, cbFiber>>
  PROVE  \A g : Up(g)' <=> Up(g) /\ g # Running(t)
  <1>1. /\ At(InBody)' = At(InBody) \ {t} /\ t \in At(InBody)
        /\ \A u \in At(InBody) : Running(u)' = Running(u)
    BY DEF At, InBody, TypeInv, TypeOK, Running
  <1>2. \A u \in At(InBody) : Running(u) = Running(t) => u = t
    BY <1>1 DEF ClaimInv, OneRunner, At, OnFiber
  <1> QED BY <1>1, <1>2 DEF Up

\* Handing functions in, and waking fibers.
LEMMA SchedulePool ==
  ASSUME PoolInv, PoolInv', Schedule,
         UNCHANGED <<cbFiber, pc, ft, finished, owner>>, owner # "stopped"
  PROVE  PoolStep
  <1> USE NamesAssumption
  <1>0. /\ TypeOK /\ TypeInv /\ ClaimInv /\ JobInv /\ Shown /\ Shown'
        /\ \A f \in Fibers : cbOf[f] # None => cbOf[f] \in Jobs
        /\ \A j \in Jobs : j # None
    BY StatusShown, ShownNext
       DEF PoolInv, TypeInv, TypeOK
  <1>1. /\ \A j : PickedCb(j)' <=> PickedCb(j)
        /\ \A f : PickedUp(f)' <=> PickedUp(f)
        /\ \A f : Up(f)' <=> Up(f)
        /\ \A f \in Fibers : fstate'[f] = "READY" <=> fstate[f] = "READY"
    <2>1. \A f \in Fibers : fstate'[f] = "READY" <=> fstate[f] = "READY"
      BY <1>0 DEF Schedule, SubmitCb, SubmitFiber, SubmitBatch, Wake, TypeOK
    <2> QED BY <2>1 DEF PickedCb, PickedUp, Up, Running, At
  \* The functions S are handed in; the others stay where they are.
  <1>2. ASSUME NEW S \in SUBSET (Jobs \ submitted),
               submitted' = submitted \cup S,
               \A j \in S : JobStatus(j)' = "ready",
               \A j \in Jobs \ S : QueuedCb(j)' <=> QueuedCb(j),
               \A f \in Fibers : cbOf[f] # None =>
                 cbOf'[f] = cbOf[f] /\ (Queued(f)' <=> Queued(f))
        PROVE  PoolStep
    <2>1. \A j \in S : JobStatus(j) = "new"
      BY <1>0, <1>2 DEF Shown
    <2>2. ASSUME NEW j \in Jobs \ S PROVE JobStatus(j)' = JobStatus(j)
      <3>1. j \in submitted' <=> j \in submitted
        BY <1>2
      <3>2. \A f \in Fibers : cbOf[f] = j /\ j \notin finished =>
              /\ cbOf'[f] = j
              /\ Up(f)' <=> Up(f)
              /\ Up(f) \/ (Waiting(f)' <=> Waiting(f))
        BY <1>0, <1>1, <1>2 DEF Waiting, Entered
      <3> QED BY <1>1, <1>2, <3>1, <3>2, StatusKept
    <2>3. Pool!Move(S, "new", "ready") /\ S \subseteq Pool!In("new")
      <3>1. S \in SUBSET Jobs /\ owner' # "stopped"
        OBVIOUS
      <3>2. Pool!Move(S, "new", "ready")
        BY <1>2, <2>1, <2>2, <3>1, MoveStep
      <3> QED BY <3>2 DEF Pool!Move
    <2> QED BY <2>3 DEF PoolStep, Pool!PoolNext, Pool!Submit
  <1>3. ASSUME NEW j \in Jobs, NEW p \in Pins, SubmitCb(j, p), UNCHANGED waits
        PROVE  PoolStep
    <2>1. /\ j \notin submitted /\ submitted' = submitted \cup {j}
          /\ queue' = queue \o <<CbEntry(j, p)>>
          /\ UNCHANGED <<fstate, cbOf>>
      BY <1>3 DEF SubmitCb, Enqueue
    <2>2. /\ CbEntry(j, p) \in Entry /\ CbEntry(j, p).cb = j
          /\ CbEntry(j, p).fiber = None
      BY DEF CbEntry, Entry
    <2>3. ~QueuedCb(j)
      BY <1>0, <2>1 DEF JobInv, WaitingCbs
    <2>4. \A k \in Jobs : QueuedCb(k)' <=> QueuedCb(k) \/ j = k
      BY <1>0, <2>1, <2>2, <2>3, AppendCbs DEF JobInv
    <2>5. \A f \in Fibers : Queued(f)' <=> Queued(f)
      BY <1>0, <2>1, <2>2, AppendClaims DEF ClaimInv
    <2>6. JobStatus(j)' = "ready"
      BY <1>0, <2>4 DEF Shown
    <2>7. {j} \in SUBSET (Jobs \ submitted)
      BY <2>1
    <2> QED BY <1>2, <2>1, <2>4, <2>5, <2>6, <2>7
  <1>4. ASSUME NEW j \in Jobs, NEW k \in Jobs, SubmitBatch(j, k)
        PROVE  PoolStep
    <2>1. /\ j \notin submitted /\ k \notin submitted /\ j # k
          /\ submitted' = submitted \cup {j, k}
          /\ UNCHANGED <<fstate, cbOf>>
      BY <1>4 DEF SubmitBatch
    <2>2. /\ Len(queue) \in Nat /\ DOMAIN queue = 1..Len(queue)
          /\ DOMAIN queue' = 1..(Len(queue) + 2)
          /\ \A i \in 1..Len(queue) : queue'[i] = queue[i]
          /\ queue'[Len(queue) + 1] = CbEntry(j, AnyThread)
          /\ queue'[Len(queue) + 2] = CbEntry(k, AnyThread)
      BY <1>0, <1>4 DEF SubmitBatch, Enqueue, TypeOK
    <2>3. /\ queue'[Len(queue) + 1].cb = j /\ queue'[Len(queue) + 2].cb = k
          /\ queue'[Len(queue) + 1].fiber = None
          /\ queue'[Len(queue) + 2].fiber = None
      BY <2>2 DEF CbEntry
    <2>4. \A m \in Jobs : QueuedCb(m)' <=> QueuedCb(m) \/ m \in {j, k}
      BY <2>2, <2>3 DEF QueuedCb
    <2>5. \A f \in Fibers : Queued(f)' <=> Queued(f)
      BY <2>2, <2>3 DEF Queued
    <2>6. \A m \in {j, k} : JobStatus(m)' = "ready"
      BY <1>0, <2>4 DEF Shown
    <2>7. {j, k} \in SUBSET (Jobs \ submitted)
      BY <2>1
    <2>8. \A m \in Jobs \ {j, k} : QueuedCb(m)' <=> QueuedCb(m)
      BY <2>4
    <2>9. \A f \in Fibers : cbOf[f] # None =>
                 cbOf'[f] = cbOf[f] /\ (Queued(f)' <=> Queued(f))
      BY <2>1, <2>5
    <2> QED BY <1>2, <2>1, <2>6, <2>7, <2>8, <2>9
  <1>5. ASSUME NEW j \in Jobs, NEW p \in Pins, SubmitFiber(j, p)
        PROVE  PoolStep
    <2>1. PICK f \in Fibers : /\ fstate[f] = "FREE"
                              /\ cbOf' = [cbOf EXCEPT ![f] = j]
                              /\ queue' = queue \o <<FiberEntry(f, p)>>
      BY <1>5 DEF SubmitFiber, Enqueue
    <2>2. j \notin submitted /\ submitted' = submitted \cup {j}
      BY <1>5 DEF SubmitFiber
    <2>3. /\ FiberEntry(f, p) \in Entry /\ FiberEntry(f, p).fiber = f
          /\ FiberEntry(f, p).cb = None
      BY DEF FiberEntry, Entry
    <2>4. ~Queued(f) /\ ~Up(f) /\ cbOf[f] = None
      <3>1. ~Queued(f)
        BY <1>0, <2>1 DEF ClaimInv, WaitState, Unclaimed
      <3>2. ~Up(f)
        BY <1>0, <2>1, UpState
      <3> QED BY <1>0, <2>1, <3>1, <3>2 DEF JobInv, EmptyFibers
    <2>5. /\ \A k \in Jobs : QueuedCb(k)' <=> QueuedCb(k)
          /\ \A g \in Fibers : Queued(g)' <=> Queued(g) \/ g = f
      BY <1>0, <2>1, <2>3, <2>4, AppendCbs, AppendClaims DEF ClaimInv, JobInv
    <2>6. cbOf'[f] = j /\ \A g \in Fibers \ {f} : cbOf'[g] = cbOf[g]
      BY <1>0, <2>1 DEF TypeOK
    <2>7. JobStatus(j)' = "ready"
      <3>1. j \notin finished'
        BY <1>0, <2>2 DEF JobInv
      <3>2. ~Up(f)' /\ Waiting(f)'
        BY <1>1, <2>4, <2>5 DEF Waiting, Entered
      <3> QED BY <1>0, <2>6, <3>1, <3>2 DEF Shown
    <2>8. {j} \in SUBSET (Jobs \ submitted)
      BY <2>2
    <2>9. \A g \in Fibers : cbOf[g] # None =>
                 cbOf'[g] = cbOf[g] /\ (Queued(g)' <=> Queued(g))
      BY <2>4, <2>5, <2>6
    <2> HIDE <2>1
    <2> QED BY <1>2, <2>2, <2>5, <2>7, <2>8, <2>9
  <1>6. ASSUME NEW f \in Fibers, NEW p \in Pins, Wake(f, p)
        PROVE  PoolStep
    <2>1. /\ waits[f] # 0 /\ waits[f] > 0
          /\ queue' = queue \o <<FiberEntry(f, p)>>
          /\ UNCHANGED <<fstate, cbOf, submitted>>
      BY <1>0, <1>6 DEF Wake, Enqueue, TypeOK
    <2>2. /\ FiberEntry(f, p) \in Entry /\ FiberEntry(f, p).fiber = f
          /\ FiberEntry(f, p).cb = None
      BY DEF FiberEntry, Entry
    <2>3. /\ ~Queued(f) /\ fstate[f] \in {"HOLD", "EXEC"} /\ ~PickedUp(f)
      <3>1. ~Queued(f) /\ fstate[f] \in {"HOLD", "EXEC"}
        BY <1>0, <2>1 DEF ClaimInv, QueuedState, WaitState
      <3>2. \A u \in At({"dispatch"}) : ft[u].fiber # f
        BY <1>0, <2>1 DEF ClaimInv, PickedState, Unclaimed
      <3> QED BY <3>1, <3>2 DEF PickedUp
    <2>4. /\ \A k \in Jobs : QueuedCb(k)' <=> QueuedCb(k)
          /\ \A g \in Fibers : Queued(g)' <=> Queued(g) \/ g = f
      BY <1>0, <2>1, <2>2, <2>3, AppendCbs, AppendClaims DEF ClaimInv, JobInv
    <2>5. PICK j \in Jobs :
            /\ cbOf[f] = j
            /\ j # None /\ j \in submitted /\ j \notin finished
            /\ \A g \in Fibers : cbOf[g] = j => g = f
      BY <1>0, <2>3 DEF JobInv, EmptyFibers, CarriedCbs
    <2> HIDE <2>1
    <2>6. UNCHANGED <<cbOf, submitted, finished>>
      BY <2>1
    <2>7. CASE Up(f)
      <3>1. \A g \in Fibers : Up(g) \/ (Waiting(g)' <=> Waiting(g))
        BY <1>1, <2>4, <2>7 DEF Waiting, Entered
      <3> QED BY <1>1, <2>4, <2>6, <3>1, NothingMoves
    <2>8. CASE ~Up(f)
      <3>1. JobStatus(j) = "parked"
        BY <1>0, <2>3, <2>5, <2>8 DEF Shown, Waiting, Entered
      <3>2. JobStatus(j)' = "ready"
        <4>1. cbOf'[f] = j /\ ~Up(f)' /\ Waiting(f)' /\ j \notin finished'
          BY <1>1, <2>4, <2>5, <2>6, <2>8 DEF Waiting, Entered
        <4> QED BY <1>0, <2>5, <4>1 DEF Shown
      <3>3. ASSUME NEW k \in Jobs \ {j} PROVE JobStatus(k)' = JobStatus(k)
        <4>1. \A g \in Fibers : cbOf[g] = k /\ k \notin finished =>
                /\ cbOf'[g] = k
                /\ Up(g)' <=> Up(g)
                /\ Up(g) \/ (Waiting(g)' <=> Waiting(g))
          <5> SUFFICES ASSUME NEW g \in Fibers, cbOf[g] = k
                       PROVE  /\ cbOf'[g] = k
                              /\ Up(g)' <=> Up(g)
                              /\ Waiting(g)' <=> Waiting(g)
            OBVIOUS
          <5>1. g # f
            BY <2>5
          <5>2. cbOf'[g] = k /\ (Queued(g)' <=> Queued(g))
            BY <2>4, <2>6, <5>1
          <5> QED BY <1>1, <5>2 DEF Waiting, Entered
        <4> QED BY <1>1, <2>4, <2>6, <4>1, StatusKept
      <3>4. Pool!Move({j}, "parked", "ready")
        <4>1. {j} \in SUBSET Jobs /\ owner' # "stopped"
          BY <2>5
        <4>2. \A k \in {j} : JobStatus(k) = "parked" /\ JobStatus(k)' = "ready"
          BY <3>1, <3>2
        <4> QED BY <3>3, <4>1, <4>2, MoveStep
      <3> QED BY <2>5, <3>4 DEF PoolStep, Pool!PoolNext, Pool!Resume
    <2> QED BY <2>7, <2>8
  <1> QED BY <1>3, <1>4, <1>5, <1>6 DEF Schedule

\* One function moves.
LEMMA OneMoves ==
  ASSUME PoolInv, PoolInv', NEW j \in Jobs, NEW from, NEW to,
         JobStatus(j) = from, JobStatus(j)' = to,
         owner # "stopped", owner' # "stopped",
         \A k \in Jobs \ {j} :
           /\ k \in submitted' <=> k \in submitted
           /\ k \in finished' <=> k \in finished
           /\ QueuedCb(k)' \/ PickedCb(k)' <=> QueuedCb(k) \/ PickedCb(k),
         \A g \in Fibers : cbOf[g] \in Jobs \ (finished \cup {j}) =>
           /\ cbOf'[g] = cbOf[g]
           /\ Up(g)' <=> Up(g)
           /\ Up(g) \/ (Waiting(g)' <=> Waiting(g))
  PROVE  Pool!Move({j}, from, to)
  <1>1. ASSUME NEW k \in Jobs \ {j} PROVE JobStatus(k)' = JobStatus(k)
    <2>1. \A g \in Fibers : cbOf[g] = k /\ k \notin finished =>
            /\ cbOf'[g] = k
            /\ Up(g)' <=> Up(g)
            /\ Up(g) \/ (Waiting(g)' <=> Waiting(g))
      OBVIOUS
    <2> QED BY <2>1, StatusKept
  <1>2. {j} \in SUBSET Jobs
    OBVIOUS
  <1>3. \A k \in {j} : JobStatus(k) = from /\ JobStatus(k)' = to
    OBVIOUS
  <1> QED BY <1>1, <1>2, <1>3, MoveStep

LEMMA RunLoopPool ==
  ASSUME PoolInv, PoolInv', NEW t \in Threads, RunLoop(t)
  PROVE  PoolStep
  <1> USE NamesAssumption
  <1>0. /\ TypeOK /\ TypeInv /\ ClaimInv /\ JobInv /\ Shown /\ Shown'
        /\ \A f \in Fibers : cbOf[f] # None => cbOf[f] \in Jobs
        /\ \A j \in Jobs : j # None
    BY StatusShown, ShownNext
       DEF PoolInv, TypeInv, TypeOK
  <1>1. UNCHANGED owner
    BY DEF RunLoop, Pick, PickNothing, Idle, DispatchFiber, DispatchCb,
           DispatchEnded, SwapBack, SettleReady, SettleEnded, SettleHold,
           Release
  <1>2. CASE Pick(t)
    <2>1. PICK i \in DOMAIN queue :
            /\ ft' = [ft EXCEPT ![t] = queue[i]]
            /\ queue' = RemoveAt(queue, i)
      BY <1>2 DEF Pick
    <2>2. /\ pc[t] = "pick" /\ pc' = [pc EXCEPT ![t] = "dispatch"]
          /\ UNCHANGED <<fstate, cbOf, cbFiber, submitted, finished>>
      BY <1>2 DEF Pick, historyVars
    <2> DEFINE e == queue[i]
    <2>3. /\ \A j \in Jobs : QueuedCb(j)' <=> QueuedCb(j) /\ e.cb # j
          /\ \A f \in Fibers : Queued(f)' <=> Queued(f) /\ e.fiber # f
      BY <1>0, <2>1, RemoveCbs, RemoveClaims DEF ClaimInv, JobInv
    <2>4. /\ \A j : e.cb = j => QueuedCb(j)
          /\ \A f : e.fiber = f => Queued(f)
      BY DEF QueuedCb, Queued
    <2>5. /\ pc'[t] = "dispatch" /\ ft'[t] = e
          /\ \A u \in Threads \ {t} : /\ pc'[u] = pc[u] /\ ft'[u] = ft[u]
                                      /\ cbFiber'[u] = cbFiber[u]
      BY <1>0, <2>1, <2>2 DEF TypeOK
    <2> HIDE DEF e
    <2>6. /\ \A j \in Jobs : PickedCb(j)' <=> PickedCb(j) \/ e.cb = j
          /\ \A f \in Fibers : PickedUp(f)' <=> PickedUp(f) \/ e.fiber = f
      BY <2>2, <2>5 DEF PickedCb, PickedUp, At
    <2>7. \A f : Up(f)' <=> Up(f)
      BY <2>2, <2>5, UpKept DEF InBody
    <2>8. \A f \in Fibers : Waiting(f)' <=> Waiting(f)
      BY <2>2, <2>3, <2>4, <2>6 DEF Waiting, Entered
    <2>9. \A j \in Jobs : QueuedCb(j)' \/ PickedCb(j)'
                            <=> QueuedCb(j) \/ PickedCb(j)
      BY <2>3, <2>4, <2>6
    <2> QED BY <1>1, <2>2, <2>7, <2>8, <2>9, NothingMoves
  <1>3. CASE \/ PickNothing(t) \/ Idle(t) \/ SwapBack(t) \/ SettleHold(t)
             \/ SettleEnded(t)
    <2>1. /\ UNCHANGED <<queue, submitted, finished>>
          /\ pc[t] \notin InBody \cup {"dispatch"}
          /\ pc'[t] \notin InBody \cup {"dispatch"}
          /\ \A u \in Threads \ {t} : /\ pc'[u] = pc[u] /\ ft'[u] = ft[u]
                                      /\ cbFiber'[u] = cbFiber[u]
      BY <1>0, <1>3
         DEF TypeOK, PickNothing, Idle, SwapBack, SettleHold, SettleEnded,
             Release, poolVars, historyVars, InBody
    <2>2. /\ \A j : PickedCb(j)' <=> PickedCb(j)
          /\ \A f : PickedUp(f)' <=> PickedUp(f)
      BY <1>0, <2>1, PickedKept DEF JobInv
    <2>3. /\ \A j : QueuedCb(j)' <=> QueuedCb(j)
          /\ \A f : Queued(f)' <=> Queued(f)
      BY <2>1 DEF QueuedCb, Queued
    <2>4. ASSUME NEW f \in Fibers
          PROVE  fstate'[f] = "READY" <=> fstate[f] = "READY"
      BY <1>0, <1>3
         DEF TypeOK, PickNothing, Idle, SwapBack, SettleHold, SettleEnded,
             Ended, poolVars
    <2>5. \A f \in Fibers : (Waiting(f)' <=> Waiting(f)) /\ (Up(f)' <=> Up(f))
      BY <2>1, <2>2, <2>3, <2>4, UpKept DEF Waiting, Entered
    <2>6. ASSUME NEW f \in Fibers, cbOf[f] # None, cbOf[f] \notin finished
          PROVE  cbOf'[f] = cbOf[f]
      <3>1. CASE SettleEnded(t)
        <4> DEFINE g == Running(t)
        <4>1. /\ pc[t] = "settle" /\ Ended(g)
              /\ \/ UNCHANGED cbOf
                 \/ cbOf' = [cbOf EXCEPT ![g] = None]
          BY <3>1 DEF SettleEnded
        <4>2. g \in Fibers
          BY <1>0, <4>1, RunningFiber DEF OnFiber
        <4> HIDE DEF g
        <4>3. cbOf[g] = None \/ cbOf[g] \in finished
          BY <1>0, <4>1, <4>2 DEF JobInv, EmptyFibers, CarriedCbs, Ended
        <4> QED BY <1>0, <2>6, <4>1, <4>3 DEF TypeOK
      <3>2. CASE ~SettleEnded(t)
        BY <1>3, <3>2 DEF PickNothing, Idle, SwapBack, SettleHold, poolVars
      <3> QED BY <3>1, <3>2
    <2> QED BY <1>1, <2>1, <2>2, <2>3, <2>5, <2>6, NothingMoves
  <1>4. CASE DispatchFiber(t)
    <2>1. /\ pc[t] = "dispatch" /\ ft[t].fiber # None
          /\ pc' = [pc EXCEPT ![t] = "run"]
          /\ UNCHANGED <<queue, cbOf, cbFiber, ft, submitted, finished>>
      BY <1>4 DEF DispatchFiber, historyVars
    <2>2. PICK f \in Fibers : f = ft[t].fiber
      BY <1>0, <2>1 DEF TypeOK, Entry
    <2>3. /\ PickedUp(f) /\ ft[t].cb = None /\ t \in At({"dispatch"})
          /\ f # None
      BY <1>0, <2>1, <2>2 DEF TypeOK, Entry, PickedUp, At
    <2>4. fstate[f] \in {"INIT", "HOLD", "READY"}
      BY <1>0, <2>2, <2>3 DEF ClaimInv, PickedState
    <2>5. ~Up(f) /\ Entered(f)
      BY <1>0, <2>3, <2>4, UpState DEF Waiting, Entered
    <2>6. PICK j \in Jobs : j = cbOf[f] /\ j \notin finished /\ j \in submitted
      BY <1>0, <2>4, <2>5 DEF JobInv, EmptyFibers, CarriedCbs
    <2>7. /\ pc'[t] = "run" /\ pc[t] # "run" /\ Running(t)' = f
          /\ \A u \in Threads \ {t} : /\ pc'[u] = pc[u] /\ ft'[u] = ft[u]
                                      /\ cbFiber'[u] = cbFiber[u]
      BY <1>0, <2>1, <2>2 DEF TypeOK, Running
    <2>8. \A g : Up(g)' <=> Up(g) \/ g = f
      BY <2>1, <2>7, UpEntered DEF InBody
    <2>9. JobStatus(j) = "ready" /\ JobStatus(j)' = "running"
      <3>1. JobStatus(j) = "ready"
        BY <1>0, <2>5, <2>6 DEF Shown, Waiting
      <3>2. cbOf'[f] = j /\ j \notin finished' /\ Up(f)'
        BY <2>1, <2>6, <2>8
      <3> QED BY <1>0, <3>1, <3>2 DEF Shown
    <2>10. /\ \A k \in Jobs : PickedCb(k)' <=> PickedCb(k)
           /\ \A k : QueuedCb(k)' <=> QueuedCb(k)
           /\ \A g : Queued(g)' <=> Queued(g)
           /\ \A g \in Fibers \ {f} : PickedUp(g)' <=> PickedUp(g)
      <3>1. \A k \in Jobs : PickedCb(k)' <=> PickedCb(k)
        BY <1>0, <2>1, <2>3, <2>7 DEF PickedCb, At
      <3>2. \A g \in Fibers \ {f} : PickedUp(g)' <=> PickedUp(g)
        BY <2>1, <2>2, <2>7 DEF PickedUp, At
      <3> QED BY <2>1, <3>1, <3>2 DEF QueuedCb, Queued
    <2>11. ASSUME NEW g \in Fibers, cbOf[g] \in Jobs \ (finished \cup {j})
           PROVE  /\ cbOf'[g] = cbOf[g]
                  /\ Up(g)' <=> Up(g)
                  /\ Waiting(g)' <=> Waiting(g)
      <3>1. g # f
        BY <2>6, <2>11
      <3>2. fstate'[g] = fstate[g]
        BY <1>0, <1>4, <2>2, <3>1 DEF DispatchFiber, TypeOK
      <3> QED BY <2>1, <2>8, <2>10, <3>1, <3>2 DEF Waiting, Entered
    <2>12. owner # "stopped" /\ owner' # "stopped"
      BY <1>1, <2>1, ActingThread
    <2>13. Pool!Move({j}, "ready", "running")
      BY <2>1, <2>9, <2>10, <2>11, <2>12, OneMoves
    <2>14. Cardinality(Pool!In("running")) < Cardinality(Threads)
      BY <2>1, RoomToRun
    <2>15. Pool!Run(j)
      BY <2>13, <2>14, PoolCardinality DEF Pool!Run
    <2> QED BY <2>15 DEF PoolStep, Pool!PoolNext
  <1>5. CASE DispatchCb(t)
    <2>1. /\ pc[t] = "dispatch" /\ ft[t].cb # None
          /\ ft' = [ft EXCEPT ![t] = NoEntry]
          /\ pc' = [pc EXCEPT ![t] = "run"]
          /\ UNCHANGED <<queue, submitted, finished>>
      BY <1>5 DEF DispatchCb
    <2>2. PICK j \in Jobs : j = ft[t].cb /\ ft[t].fiber = None
      BY <1>0, <2>1 DEF TypeOK, Entry
    <2>3. PICK f \in Fibers : /\ CarrierFor(t, f)
                              /\ fstate' = [fstate EXCEPT ![f] = "EXEC"]
                              /\ cbOf' = [cbOf EXCEPT ![f] = j]
                              /\ cbFiber' = [cbFiber EXCEPT ![t] = f]
      BY <1>5, <2>2 DEF DispatchCb
    <2>4. cbOf[f] = None /\ ~Entered(f)
      BY <1>0, <2>1, <2>3, FreshCarrier
    <2>5. PickedCb(j) /\ t \in At({"dispatch"})
      BY <2>1, <2>2 DEF PickedCb, At
    <2>6. j \notin finished
      BY <1>0, <2>5 DEF JobInv, WaitingCbs
    <2>7. /\ pc'[t] = "run" /\ pc[t] # "run" /\ Running(t)' = f
          /\ \A u \in Threads \ {t} : /\ pc'[u] = pc[u] /\ ft'[u] = ft[u]
                                      /\ cbFiber'[u] = cbFiber[u]
      <3>1. ft'[t] = NoEntry /\ cbFiber'[t] = f
        BY <1>0, <2>1, <2>3 DEF TypeOK
      <3>2. Running(t)' = f
        BY <3>1 DEF Running, NoEntry
      <3> QED BY <1>0, <2>1, <2>3, <3>2 DEF TypeOK
    <2>8. \A g : Up(g)' <=> Up(g) \/ g = f
      BY <2>1, <2>7, UpEntered DEF InBody
    <2>9. /\ cbOf'[f] = j /\ \A g \in Fibers \ {f} : cbOf'[g] = cbOf[g]
      BY <1>0, <2>3 DEF TypeOK
    <2>10. JobStatus(j) = "ready" /\ JobStatus(j)' = "running"
      <3>1. JobStatus(j) = "ready"
        BY <1>0, <2>5 DEF Shown
      <3>2. j \notin finished' /\ Up(f)'
        BY <2>1, <2>6, <2>8
      <3> QED BY <1>0, <2>9, <3>1, <3>2 DEF Shown
    <2>11. /\ At({"dispatch"})' = At({"dispatch"}) \ {t}
           /\ \A u \in At({"dispatch"}) \ {t} : ft'[u] = ft[u]
      BY <2>7 DEF At
    <2>12. /\ \A k \in Jobs \ {j} : PickedCb(k)' <=> PickedCb(k)
           /\ \A k : QueuedCb(k)' <=> QueuedCb(k)
           /\ \A g : Queued(g)' <=> Queued(g)
           /\ \A g \in Fibers : PickedUp(g)' <=> PickedUp(g)
      <3>1. \A k \in Jobs \ {j} : PickedCb(k)' <=> PickedCb(k)
        BY <2>2, <2>5, <2>11 DEF PickedCb
      <3>2. \A g \in Fibers : g # None
        OBVIOUS
      <3>3. \A g \in Fibers : PickedUp(g)' <=> PickedUp(g)
        BY <2>2, <2>11, <3>2 DEF PickedUp
      <3> QED BY <2>1, <3>1, <3>3 DEF QueuedCb, Queued
    <2>13. ASSUME NEW g \in Fibers, cbOf[g] \in Jobs \ (finished \cup {j})
           PROVE  /\ cbOf'[g] = cbOf[g]
                  /\ Up(g)' <=> Up(g)
                  /\ Waiting(g)' <=> Waiting(g)
      <3>1. g # f
        BY <2>4, <2>13
      <3>2. fstate'[g] = fstate[g]
        BY <1>0, <2>3, <3>1 DEF TypeOK
      <3> QED BY <2>8, <2>9, <2>12, <3>1, <3>2 DEF Waiting, Entered
    <2>14. owner # "stopped" /\ owner' # "stopped"
      BY <1>1, <2>1, ActingThread
    <2>15. Pool!Move({j}, "ready", "running")
      BY <2>1, <2>10, <2>12, <2>13, <2>14, OneMoves
    <2>16. Cardinality(Pool!In("running")) < Cardinality(Threads)
      BY <2>1, RoomToRun
    <2>17. Pool!Run(j)
      BY <2>15, <2>16, PoolCardinality DEF Pool!Run
    <2> QED BY <2>17 DEF PoolStep, Pool!PoolNext
  <1>6. ~DispatchEnded(t)
    <2>1. ASSUME pc[t] = "dispatch", ft[t].fiber # None
          PROVE  ~Ended(ft[t].fiber)
      BY <1>0, <2>1 DEF ClaimInv, PickedState, At, Ended
    <2> QED BY <2>1 DEF DispatchEnded
  \* The function is to be resumed before and after.
  <1>7. CASE SettleReady(t)
    <2>1. PICK f \in Fibers : f = Running(t)
      BY <1>0, <1>7, RunningFiber DEF SettleReady, OnFiber
    <2>2. /\ pc[t] = "settle" /\ fstate[f] = "READY"
          /\ queue' = queue \o <<FiberEntry(f, AnyThread)>>
          /\ UNCHANGED <<fstate, cbOf, submitted, finished>>
          /\ pc'[t] = "pick"
          /\ \A u \in Threads \ {t} : /\ pc'[u] = pc[u] /\ ft'[u] = ft[u]
                                      /\ cbFiber'[u] = cbFiber[u]
      BY <1>0, <1>7, <2>1
         DEF SettleReady, Enqueue, Release, historyVars, TypeOK
    <2>3. ~Queued(f)
      BY <1>0, <2>1, <2>2 DEF ClaimInv, RunningState, Unclaimed, At, OnFiber
    <2>4. /\ FiberEntry(f, AnyThread) \in Entry
          /\ FiberEntry(f, AnyThread).fiber = f
          /\ FiberEntry(f, AnyThread).cb = None
      BY DEF FiberEntry, Entry
    <2>5. /\ \A k \in Jobs : QueuedCb(k)' <=> QueuedCb(k)
          /\ \A g \in Fibers : Queued(g)' <=> Queued(g) \/ g = f
      BY <1>0, <2>2, <2>3, <2>4, AppendCbs, AppendClaims DEF ClaimInv, JobInv
    <2>6. /\ \A j : PickedCb(j)' <=> PickedCb(j)
          /\ \A g : PickedUp(g)' <=> PickedUp(g)
          /\ \A g : Up(g)' <=> Up(g)
      BY <1>0, <2>2, PickedKept, UpKept DEF JobInv, InBody
    <2>7. \A g \in Fibers : Waiting(g)' <=> Waiting(g)
      BY <2>2, <2>5, <2>6 DEF Waiting, Entered
    <2> QED BY <1>1, <2>2, <2>5, <2>6, <2>7, NothingMoves
  <1> QED BY <1>2, <1>3, <1>4, <1>5, <1>6, <1>7 DEF RunLoop

\* The step that takes t out of the body: its function waits, is to be
\* resumed, or has ended.
LEMMA LeavePool ==
  ASSUME PoolInv, PoolInv', NEW t \in Threads, pc[t] \in InBody,
         pc' = [pc EXCEPT ![t] = "swapped"],
         UNCHANGED <<queue, ft, cbFiber, owner, submitted>>,
         \A g \in Fibers : g # Running(t) => /\ cbOf'[g] = cbOf[g]
                                             /\ fstate'[g] = fstate[g],
         \/ UNCHANGED <<cbOf, finished>>
         \/ finished' = finished \cup {cbOf[Running(t)]}
  PROVE  PoolStep
  <1> USE NamesAssumption
  <1>0. /\ TypeOK /\ TypeInv /\ ClaimInv /\ JobInv /\ Shown /\ Shown'
        /\ \A j \in Jobs : j # None
    BY StatusShown, ShownNext
       DEF PoolInv, TypeInv, TypeOK
  <1>1. PICK f \in Fibers : f = Running(t)
    BY <1>0, RunningFiber DEF InBody, OnFiber
  <1>2. Up(f) /\ fstate[f] = "EXEC"
    BY <1>0, <1>1, UpState DEF Up, At
  <1>3. PICK j \in Jobs : /\ j = cbOf[f]
                          /\ j \in submitted /\ j \notin finished
    BY <1>0, <1>2 DEF JobInv, EmptyFibers, CarriedCbs, TypeOK
  <1>4. JobStatus(j) = "running"
    BY <1>0, <1>2, <1>3 DEF Shown
  <1>5. \A g : Up(g)' <=> Up(g) /\ g # f
    BY <1>0, <1>1, UpLeft
  <1>6. /\ pc'[t] # "dispatch" /\ pc[t] # "dispatch"
        /\ \A u \in Threads \ {t} : pc'[u] = pc[u] /\ ft'[u] = ft[u]
    BY <1>0 DEF InBody, TypeOK
  <1>7. /\ \A k : PickedCb(k)' <=> PickedCb(k)
        /\ \A k : QueuedCb(k)' <=> QueuedCb(k)
        /\ \A g \in Fibers \ {f} : Waiting(g)' <=> Waiting(g)
    <2>1. /\ \A k : PickedCb(k)' <=> PickedCb(k)
          /\ \A g : PickedUp(g)' <=> PickedUp(g)
      BY <1>0, <1>6, PickedKept DEF JobInv
    <2> QED BY <1>1, <2>1 DEF QueuedCb, Waiting, Entered, Queued
  <1>8. owner # "stopped" /\ owner' # "stopped"
    BY ActingThread DEF InBody
  <1>9. ASSUME NEW g \in Fibers, cbOf[g] \in Jobs \ (finished \cup {j})
        PROVE  /\ cbOf'[g] = cbOf[g]
               /\ Up(g)' <=> Up(g)
               /\ Waiting(g)' <=> Waiting(g)
    <2>1. g # f
      BY <1>3, <1>9
    <2> QED BY <1>1, <1>5, <1>7, <2>1
  <1>10. ASSUME NEW k \in Jobs \ {j}
         PROVE  /\ k \in submitted' <=> k \in submitted
                /\ k \in finished' <=> k \in finished
    BY <1>1, <1>3
  <1>11. ASSUME NEW to, JobStatus(j)' = to PROVE Pool!Move({j}, "running", to)
    BY <1>4, <1>7, <1>8, <1>9, <1>10, <1>11, OneMoves
  <1>12. CASE UNCHANGED <<cbOf, finished>>
    <2>1. cbOf'[f] = j /\ j \notin finished' /\ ~Up(f)'
      BY <1>3, <1>5, <1>12
    <2>2. JobStatus(j)' = "ready" \/ JobStatus(j)' = "parked"
      BY <1>0, <2>1 DEF Shown
    <2>3. Pool!Yield(j) \/ Pool!Park(j)
      BY <1>11, <2>2 DEF Pool!Yield, Pool!Park
    <2> QED BY <2>3 DEF PoolStep, Pool!PoolNext
  <1>13. CASE finished' = finished \cup {cbOf[Running(t)]}
    <2>1. JobStatus(j)' = "done"
      BY <1>0, <1>1, <1>3, <1>13 DEF Shown
    <2>2. Pool!Finish(j)
      BY <1>11, <2>1 DEF Pool!Finish
    <2> QED BY <2>2 DEF PoolStep, Pool!PoolNext
  <1> QED BY <1>12, <1>13

LEMMA BodyPool ==
  ASSUME PoolInv, PoolInv', NEW t \in Threads, Body(t)
  PROVE  PoolStep
  <1> USE NamesAssumption
  <1>0. TypeOK /\ TypeInv /\ ClaimInv /\ JobInv
    BY DEF PoolInv, TypeInv
  <1>1. pc[t] \in InBody /\ owner # "stopped"
    <2>1. pc[t] \in InBody
      BY DEF Body, BodySchedule, Register, SwitchTo, YieldToHold,
             YieldToReady, Return, Throw, InBody
    <2> QED BY <2>1, ActingThread DEF InBody
  <1>2. CASE BodySchedule(t)
    BY <1>1, <1>2, SchedulePool DEF BodySchedule, threadVars
  \* The body goes on, registered or on the list again.
  <1>3. ASSUME pc[t] = "run", pc' = [pc EXCEPT ![t] = "parking"],
               UNCHANGED <<fstate, cbOf, cbFiber, ft, owner, submitted,
                           finished>>,
               \A k \in Jobs : QueuedCb(k)' <=> QueuedCb(k),
               \A g \in Fibers : g # Running(t) => (Queued(g)' <=> Queued(g))
        PROVE  PoolStep
    <2>1. /\ At(InBody)' = At(InBody)
          /\ At({"dispatch"})' = At({"dispatch"})
          /\ \A u : Running(u)' = Running(u)
      BY <1>0, <1>3 DEF At, InBody, TypeOK, Running
    <2>2. /\ \A g : (Up(g)' <=> Up(g)) /\ (PickedUp(g)' <=> PickedUp(g))
          /\ \A k : PickedCb(k)' <=> PickedCb(k)
      BY <1>3, <2>1 DEF Up, PickedUp, PickedCb
    <2>3. Up(Running(t))
      BY <1>1 DEF Up, At
    <2>4. \A g \in Fibers : Up(g) \/ (Waiting(g)' <=> Waiting(g))
      BY <1>3, <2>2, <2>3 DEF Waiting, Entered
    <2> QED BY <1>3, <2>2, <2>4, NothingMoves
  <1>4. CASE Register(t)
    <2>1. UNCHANGED queue
      BY <1>4 DEF Register, poolVars
    <2>2. /\ \A k \in Jobs : QueuedCb(k)' <=> QueuedCb(k)
          /\ \A g \in Fibers : Queued(g)' <=> Queued(g)
      BY <2>1 DEF QueuedCb, Queued
    <2> QED BY <1>3, <1>4, <2>2 DEF Register, poolVars, historyVars
  <1>5. CASE SwitchTo(t)
    <2>1. PICK p \in Pins : queue' = queue \o <<FiberEntry(Running(t), p)>>
      BY <1>5 DEF SwitchTo, Enqueue
    <2>2. PICK f \in Fibers : f = Running(t) /\ ~Queued(f)
      <3>1. pc[t] = "run" /\ t \in At(OnFiber)
        BY <1>5 DEF SwitchTo, At, OnFiber, InBody
      <3>2. Running(t) \in Fibers /\ ~Queued(Running(t))
        BY <1>0, <3>1, RunningFiber
           DEF ClaimInv, RunningState, Unclaimed, At
      <3> QED BY <3>2
    <2>3. /\ FiberEntry(f, p) \in Entry /\ FiberEntry(f, p).fiber = f
          /\ FiberEntry(f, p).cb = None
      BY DEF FiberEntry, Entry
    <2>4. /\ \A k \in Jobs : QueuedCb(k)' <=> QueuedCb(k)
          /\ \A g \in Fibers : Queued(g)' <=> Queued(g) \/ g = f
      BY <1>0, <2>1, <2>2, <2>3, AppendCbs, AppendClaims DEF ClaimInv, JobInv
    <2>5. \A g \in Fibers : g # Running(t) => (Queued(g)' <=> Queued(g))
      BY <2>2, <2>4
    <2>6. \A k \in Jobs : QueuedCb(k)' <=> QueuedCb(k)
      BY <2>4
    <2> HIDE <2>4
    <2> QED BY <1>3, <1>5, <2>5, <2>6 DEF SwitchTo
  <1>6. CASE YieldToHold(t) \/ YieldToReady(t)
    <2>1. \A g \in Fibers : g # Running(t) => fstate'[g] = fstate[g]
      BY <1>0, <1>6 DEF YieldToHold, YieldToReady, poolVars, TypeOK
    <2> QED BY <1>1, <1>6, <2>1, LeavePool
            DEF YieldToHold, YieldToReady, poolVars, historyVars
  <1>8. CASE Return(t) \/ Throw(t)
    <2>1. \A g \in Fibers : g # Running(t) => /\ cbOf'[g] = cbOf[g]
                                              /\ fstate'[g] = fstate[g]
      BY <1>0, <1>8 DEF Return, Throw, TypeOK
    <2> QED BY <1>1, <1>8, <2>1, LeavePool DEF Return, Throw
  <1> QED BY <1>2, <1>4, <1>5, <1>6, <1>8 DEF Body

LEMMA NextPoolInv ==
  ASSUME MaxWaits <= 1, PoolInv, [Next]_vars
  PROVE  PoolInv'
  <1>0. /\ TypeInv /\ TypeOK /\ ClaimInv /\ JobInv
        /\ PlacesInv /\ HeldInv /\ OutInv
    BY DEF PoolInv, TypeInv
  <1>1. TypeInv' /\ ClaimInv' /\ PlacesInv' /\ HeldInv' /\ OutInv'
    BY <1>0, NextTypeInv, NextClaims, NextPlaces, NextHeld, NextOut
  <1>2. CASE UNCHANGED vars
    <2>1. UNCHANGED <<queue, ft, pc, cbOf, fstate, submitted, finished>>
      BY <1>2 DEF vars, poolVars, threadVars, historyVars
    <2>2. JobInv'
      BY <1>0, <2>1
         DEF JobInv, CbOnce, PickedOnce, WaitingCbs, CarriedCbs, EmptyFibers,
             NoneLost, QueuedCb, PickedCb, Entered, Queued, PickedUp, At
    <2> QED BY <1>1, <2>2 DEF PoolInv
  <1>3. CASE Next
    <2>1. JobInv'
      BY <1>0, <1>2, <1>3, RunLoopJobs, BodyJobs, OwnerJobs
         DEF Next, Stopped, PoolInv
    <2> QED BY <1>1, <2>1 DEF PoolInv
  <1> QED BY <1>2, <1>3

\* start() and the steps of stop() move nothing; the last one halts the pool.
LEMMA OwnerPool ==
  ASSUME PoolInv, PoolInv', OwnerSchedule \/ Start \/ OwnerStops
  PROVE  PoolStep
  <1>0. TypeOK /\ TypeInv
    BY DEF PoolInv, TypeInv
  <1>1. CASE OwnerSchedule
    BY <1>1, SchedulePool DEF OwnerSchedule, threadVars
  <1>2. CASE Start \/ OwnerStops
    <2>1. UNCHANGED <<queue, fstate, cbOf, cbFiber, ft, submitted, finished>>
      BY <1>2 DEF Start, OwnerStops, StopBegin, StopRequest, StopCall,
                  StopResume, StopJoin, poolVars, historyVars, threadVars
    <2>2. \A u \in Threads : \/ pc'[u] = pc[u]
                             \/ pc[u] = "off" /\ pc'[u] = "pick"
      <3>1. CASE Start
        <4>1. \A u \in Workers : pc[u] = "off"
          BY <1>0, <3>1 DEF Start, TypeInv, OwnerPlaces, Threads
        <4> QED BY <3>1, <4>1 DEF Start, Threads
      <3>2. CASE StopCall
        <4>1. Caller \in Threads => pc[Caller] = "off"
          BY <1>0, <3>2, ThreadsAssumption
             DEF StopCall, TypeInv, OwnerPlaces, Threads
        <4> QED BY <1>0, <3>2, <4>1 DEF StopCall, TypeOK
      <3>3. CASE StopBegin \/ StopRequest \/ StopResume \/ StopJoin
        BY <3>3 DEF StopBegin, StopRequest, StopResume, StopJoin, threadVars
      <3> QED BY <1>2, <3>1, <3>2, <3>3 DEF OwnerStops
    <2>3. /\ At({"dispatch"})' = At({"dispatch"})
          /\ At(InBody)' = At(InBody)
          /\ \A u : Running(u)' = Running(u)
      BY <2>1, <2>2 DEF At, InBody, Running
    <2>4. /\ \A k : PickedCb(k)' <=> PickedCb(k)
          /\ \A k : QueuedCb(k)' <=> QueuedCb(k)
          /\ \A g : (Waiting(g)' <=> Waiting(g)) /\ (Up(g)' <=> Up(g))
      BY <2>1, <2>3
         DEF PickedCb, QueuedCb, Waiting, Entered, Queued, PickedUp, Up
    <2>5. CASE owner' = "stopped" <=> owner = "stopped"
      BY <2>1, <2>4, <2>5, NothingMoves
    <2>6. CASE ~(owner' = "stopped" <=> owner = "stopped")
      <3>1. /\ StopBegin \/ StopJoin
            /\ owner # "stopped" /\ owner' = "stopped"
        BY <1>2, <2>6 DEF Start, OwnerStops, StopBegin, StopRequest, StopCall,
                          StopResume, StopJoin
      <3>2. queue = <<>> /\ \A t \in Threads : pc[t] \in {"off", "exited"}
        <4>1. CASE StopBegin
          <5>1. /\ UseCaller /\ Workers = {} /\ queue = <<>>
                /\ owner = "up"
            BY <3>1, <4>1 DEF StopBegin
          <5>2. \A t \in Threads : pc[t] = "off"
            BY <1>0, <5>1 DEF TypeInv, OwnerPlaces, Threads
          <5> QED BY <5>1, <5>2
        <4>2. CASE StopJoin
          <5>1. /\ owner = "join" /\ \A t \in Workers : pc[t] = "exited"
                /\ \A t \in Threads : t \in Workers \/ (t = Caller /\ UseCaller)
            BY <4>2 DEF StopJoin, Threads
          <5>2. \A t \in Threads : Gone(t)
            BY <5>1 DEF Gone
          <5>3. UseCaller => pc[Caller] \in {"off", "exited"}
            BY <5>1 DEF PoolInv, PlacesInv, CallerOut
          <5> QED BY <5>1, <5>2, <5>3 DEF PoolInv, OutInv, LastOut
        <4> QED BY <3>1, <4>1, <4>2
      <3>3. /\ At(InBody) = {} /\ At({"dispatch"}) = {} /\ At(OnFiber) = {}
            /\ DOMAIN queue = {}
        BY <3>2 DEF At, InBody, OnFiber
      <3>4. \A f \in Fibers : fstate[f] # "READY"
        BY <3>3 DEF PoolInv, HeldInv, Held, Entered, Queued, PickedUp
      <3>5. ASSUME NEW j \in Jobs
            PROVE  JobStatus(j) # "ready" /\ JobStatus(j) # "running"
        <4>1. ~JobRunning(j)
          BY <3>3 DEF JobRunning
        <4>2. ~JobReady(j)
          BY <3>3, <3>4 DEF JobReady
        <4> QED BY <4>1, <4>2 DEF JobStatus
      <3>6. \A j \in Jobs : JobStatus(j)' = JobStatus(j)
        <4>1. \A j \in Jobs : j # None
          BY NamesAssumption
        <4> QED BY <2>1, <2>4, <4>1, StatusKept
      <3>7. Pool!Halt
        BY <3>1, <3>5, <3>6 DEF Pool!Halt, Pool!In
      <3> QED BY <3>7 DEF PoolStep, Pool!PoolNext
    <2> QED BY <2>5, <2>6
  <1> QED BY <1>1, <1>2

\* If a fiber waits for one wake-up at a time, and either no body yields READY
\* or no task names a thread, the scheduler implements the abstract pool:
\* whatever the threads and the functions, none is lost, run twice, run by two
\* threads or run after it has ended, and stop() returns only when none can
\* run.
THEOREM SchedulerImplementsPool ==
  ASSUME MaxWaits <= 1, ~AllowReady \/ Pins \subseteq {AnyThread}
  PROVE  Spec => ImplementsPool
  <1>1. Init => PoolInv
    BY InitTypeInv, InitClaims, InitJobs, InitPlaces, InitOut DEF PoolInv
  <1>2. PoolInv /\ [Next]_vars => PoolInv'
    BY NextPoolInv
  <1>3. Init => Pool!PoolInit
    <2> SUFFICES ASSUME Init PROVE Pool!PoolInit
      OBVIOUS
    <2>1. \A j \in Jobs : JobStatus(j) = "new"
      BY DEF Init, JobStatus
    <2>2. (owner = "stopped") = FALSE
      BY DEF Init
    <2> QED BY <2>1, <2>2 DEF Pool!PoolInit
  <1>4. ASSUME PoolInv, PoolInv', [Next]_vars
        PROVE  [Pool!PoolNext]_(Pool!poolState)
    <2>1. CASE UNCHANGED vars
      <3>1. /\ UNCHANGED <<queue, fstate, ft, pc, cbOf, cbFiber, submitted,
                           finished, owner>>
        BY <2>1 DEF vars, poolVars, threadVars, historyVars
      <3>2. /\ \A k : PickedCb(k)' <=> PickedCb(k)
            /\ \A k : QueuedCb(k)' <=> QueuedCb(k)
            /\ \A g : (Waiting(g)' <=> Waiting(g)) /\ (Up(g)' <=> Up(g))
        BY <3>1 DEF PickedCb, QueuedCb, Waiting, Entered, Queued, PickedUp,
                    Up, At, Running
      <3>3. PoolStep
        BY <1>4, <3>1, <3>2, NothingMoves
      <3> QED BY <3>3 DEF PoolStep
    <2>2. CASE Next
      <3>1. PoolStep \/ UNCHANGED vars
        BY <1>4, <2>2, RunLoopPool, BodyPool, OwnerPool DEF Next, Stopped
      <3> QED BY <2>1, <3>1 DEF PoolStep
    <2> QED BY <1>4, <2>1, <2>2
  <1> QED BY <1>1, <1>2, <1>3, <1>4, PTL
             DEF Spec, ImplementsPool, Pool!PoolSpec
=============================================================================
