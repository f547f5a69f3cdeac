-------------------------- MODULE SchedulerClaims --------------------------
(***************************************************************************)
(* Fibers are run by one thread at a time, and parked fibers are not lost, *)
(* when every fiber waits for at most one wake-up (MaxWaits <= 1).         *)
(*                                                                         *)
(* A fiber object can be claimed in five ways: by an entry of the list, by *)
(* a thread that has picked it, by a thread that is in it, by a thread     *)
(* that keeps it as its cb_fiber, and by somebody who will wake it.  The   *)
(* invariant says which claims exclude each other and in which state of    *)
(* the fiber each may be held.                                             *)
(*                                                                         *)
(* From it follows, without YieldToReady, that a fiber runs on the thread  *)
(* it was sent to: whoever may send it elsewhere holds a claim with which  *)
(* no entry of it can coexist.                                             *)
(***************************************************************************)
EXTENDS SchedulerProofs

\* t keeps f as its cb_fiber and is not in it.
Spare(t, f) == cbFiber[t] = f /\ ~(pc[t] \in OnFiber /\ ft[t].fiber = None)

Unclaimed(f) == ~Queued(f) /\ waits[f] = 0
Awaited(f) == Queued(f) \/ waits[f] > 0

QueueOnce ==
    \A i, k \in DOMAIN queue :
        queue[i].fiber = queue[k].fiber /\ queue[i].fiber # None => i = k

QueuedState ==
    \A f \in Fibers :
        Queued(f) => /\ waits[f] = 0
                     /\ fstate[f] \in {"INIT", "HOLD", "READY", "EXEC"}

WaitState ==
    \A f \in Fibers :
        /\ waits[f] \in {0, 1}
        /\ waits[f] > 0 => fstate[f] \in {"HOLD", "EXEC"}
        /\ fstate[f] = "FREE" => Unclaimed(f)

PickedState ==
    \A t \in At({"dispatch"}) : LET f == ft[t].fiber IN
        f # None => /\ Unclaimed(f)
                    /\ fstate[f] \in {"INIT", "HOLD", "READY"}
                    /\ \A u \in At({"dispatch"}) : ft[u].fiber = f => u = t
                    /\ \A u \in At(OnFiber) : Running(u) # f

RunningState ==
    \A t \in At(OnFiber) : LET f == Running(t) IN
        \/ /\ pc[t] = "run" /\ fstate[f] = "EXEC" /\ Unclaimed(f)
        \/ /\ pc[t] \in {"parking", "swapped", "settle"}
           /\ fstate[f] = "EXEC" /\ Awaited(f)
        \/ /\ pc[t] \in {"swapped", "settle"}
           /\ fstate[f] \in {"TERM", "EXCEPT", "READY"} /\ Unclaimed(f)

SpareState ==
    \A t \in Threads, f \in Fibers :
        Spare(t, f) => /\ fstate[f] = "INIT" /\ Unclaimed(f)
                       /\ ~PickedUp(f)
                       /\ \A u \in At(OnFiber) : Running(u) # f

CarriersDiffer ==
    \A t, u \in Threads : cbFiber[t] = cbFiber[u] /\ cbFiber[t] # None => t = u

ClaimInv ==
    /\ QueueOnce /\ QueuedState /\ WaitState /\ PickedState /\ RunningState
    /\ SpareState /\ CarriersDiffer /\ OneRunner /\ ParkedIsReachable

-----------------------------------------------------------------------------
(* What the two changes of the list do to the claims it makes.             *)

LEMMA AppendClaims ==
  ASSUME TypeOK, QueueOnce, NEW e \in Entry, queue' = queue \o <<e>>,
         e.fiber # None => ~Queued(e.fiber)
  PROVE  /\ QueueOnce'
         /\ \A f \in Fibers : Queued(f)' <=> Queued(f) \/ e.fiber = f
  <1>1. /\ Len(queue) \in Nat /\ DOMAIN queue = 1..Len(queue)
        /\ DOMAIN queue' = 1..(Len(queue) + 1)
        /\ \A k \in 1..Len(queue) : queue'[k] = queue[k]
        /\ queue'[Len(queue) + 1] = e
    BY DEF TypeOK
  <1>2. \A f : Queued(f)' <=> Queued(f) \/ e.fiber = f
    BY <1>1 DEF Queued
  <1>3. QueueOnce'
    BY <1>1 DEF QueueOnce, Queued
  <1> QED BY <1>2, <1>3

LEMMA RemoveClaims ==
  ASSUME TypeOK, QueueOnce, NEW i \in DOMAIN queue,
         queue' = RemoveAt(queue, i)
  PROVE  /\ QueueOnce'
         /\ \A f \in Fibers : Queued(f)' <=> Queued(f) /\ queue[i].fiber # f
  <1>1. /\ Len(queue) \in Nat /\ DOMAIN queue = 1..Len(queue)
        /\ DOMAIN queue' = 1..(Len(queue) - 1)
        /\ i \in 1..Len(queue)
        /\ \A k \in 1..(Len(queue) - 1) :
             queue'[k] = IF k < i THEN queue[k] ELSE queue[k + 1]
    <2>1. queue' \in Seq(Entry) /\ Len(queue') = Len(queue) - 1
      BY RemoveAtProperties DEF TypeOK
    <2>2. Len(queue) \in Nat /\ i \in 1..Len(queue)
          /\ DOMAIN queue = 1..Len(queue) /\ DOMAIN queue' = 1..Len(queue')
      BY <2>1 DEF TypeOK
    <2>3. \A k \in 1..(Len(queue) - 1) :
             queue'[k] = IF k < i THEN queue[k] ELSE queue[k + 1]
      BY RemoveAtProperties DEF TypeOK
    <2> QED BY <2>1, <2>2, <2>3
  <1>2. ASSUME NEW f \in Fibers
        PROVE  Queued(f)' <=> Queued(f) /\ queue[i].fiber # f
    <2>1. ASSUME Queued(f)' PROVE Queued(f) /\ queue[i].fiber # f
      <3>1. PICK k \in 1..(Len(queue) - 1) : queue'[k].fiber = f
        BY <2>1, <1>1 DEF Queued
      <3> QED BY <3>1, <1>1, NamesAssumption DEF Queued, QueueOnce
    <2>2. ASSUME Queued(f), queue[i].fiber # f PROVE Queued(f)'
      <3>1. PICK k \in 1..Len(queue) : queue[k].fiber = f
        BY <2>2, <1>1 DEF Queued
      <3>2. CASE k < i
        <4>1. k \in DOMAIN queue' /\ queue'[k].fiber = f
          BY <3>1, <3>2, <1>1
        <4> QED BY <4>1 DEF Queued
      <3>3. CASE k > i
        <4>1. k - 1 \in DOMAIN queue' /\ queue'[k - 1].fiber = f
          BY <3>1, <3>3, <1>1
        <4> QED BY <4>1 DEF Queued
      <3> QED BY <2>2, <3>1, <3>2, <3>3, <1>1
    <2> QED BY <2>1, <2>2
  <1>3. QueueOnce'
    <2> SUFFICES ASSUME NEW k \in 1..(Len(queue) - 1),
                        NEW m \in 1..(Len(queue) - 1),
                        queue'[k].fiber = queue'[m].fiber,
                        queue'[k].fiber # None
                 PROVE  k = m
      BY <1>1 DEF QueueOnce
    <2> DEFINE From(x) == IF x < i THEN x ELSE x + 1
    <2>1. /\ From(k) \in DOMAIN queue /\ From(m) \in DOMAIN queue
          /\ queue'[k] = queue[From(k)] /\ queue'[m] = queue[From(m)]
      BY <1>1
    <2>2. From(k) = From(m)
      BY <2>1 DEF QueueOnce
    <2> QED BY <2>2, <1>1
  <1> QED BY <1>2, <1>3

-----------------------------------------------------------------------------
LEMMA InitClaims == Init => ClaimInv
  BY NamesAssumption
     DEF Init, ClaimInv, QueueOnce, QueuedState, WaitState, PickedState,
         RunningState, SpareState, CarriersDiffer, OneRunner, Spare, OnFiber,
         InBody, ParkedIsReachable, At, Queued, PickedUp, Unclaimed, NoEntry

\* Steps that change no claim.
LEMMA SameClaims ==
  ASSUME ClaimInv, QueueOnce', \A f \in Fibers : Queued(f)' <=> Queued(f),
         TypeInv, UNCHANGED <<fstate, waits, cbFiber, pc, ft>>
  PROVE  ClaimInv'
  <1> USE DEF ClaimInv
  <1>0. \A t \in Threads : pc[t] \in OnFiber => Running(t) \in Fibers
    BY RunningFiber
  <1>2. /\ \A t \in At({"dispatch"}) : ft[t].fiber \in Fibers \cup {None}
        /\ \A t \in At(OnFiber) : Running(t) \in Fibers
    BY <1>0 DEF TypeInv, TypeOK, Entry, At
  <1>1. \A f : Unclaimed(f)' <=> ~Queued(f)' /\ waits[f] = 0
    BY DEF Unclaimed
  <1>3. QueuedState'
    BY <1>2 DEF QueuedState, Unclaimed
  <1>4. WaitState'
    BY <1>2 DEF WaitState, Unclaimed
  <1>5. PickedState'
    BY <1>2 DEF PickedState, Unclaimed, Running, At
  <1>6. RunningState'
    BY <1>2 DEF RunningState, Unclaimed, Awaited, Running, At
  <1>7. SpareState'
    BY <1>2 DEF SpareState, Spare, Unclaimed, PickedUp, Running, At
  <1>8. CarriersDiffer'
    BY <1>2 DEF CarriersDiffer
  <1>9. OneRunner'
    BY <1>2 DEF OneRunner, Running, At
  <1>10. ParkedIsReachable'
    BY <1>2 DEF ParkedIsReachable, PickedUp, At
  <1> QED BY <1>3, <1>4, <1>5, <1>6, <1>7, <1>8, <1>9, <1>10

\* Handing in functions and sending wake-ups.
LEMMA ScheduleClaims ==
  ASSUME TypeInv, ClaimInv, Schedule, UNCHANGED <<cbFiber, pc, ft>>
  PROVE  ClaimInv'
  <1> USE NamesAssumption DEF TypeInv, ClaimInv
  <1>0. TypeOK
    OBVIOUS
  <1>1. ASSUME NEW j \in Jobs, NEW p \in Pins, SubmitCb(j, p), UNCHANGED waits
        PROVE  ClaimInv'
    <2>1. CbEntry(j, p) \in Entry /\ CbEntry(j, p).fiber = None
      BY DEF CbEntry, Entry
    <2>2. QueueOnce' /\ \A f \in Fibers : Queued(f)' <=> Queued(f)
      BY <1>1, <2>1, AppendClaims DEF SubmitCb, Enqueue
    <2>3. UNCHANGED <<fstate, waits, cbFiber, pc, ft>>
      BY <1>1 DEF SubmitCb
    <2> QED BY <2>2, <2>3, SameClaims
  <1>2. ASSUME NEW j \in Jobs, NEW k \in Jobs, SubmitBatch(j, k),
               UNCHANGED waits
        PROVE  ClaimInv'
    <2>1. UNCHANGED <<fstate, waits, cbFiber, pc, ft>>
      BY <1>2 DEF SubmitBatch
    <2>2. /\ Len(queue) \in Nat /\ DOMAIN queue = 1..Len(queue)
          /\ DOMAIN queue' = 1..(Len(queue) + 2)
          /\ \A i \in 1..Len(queue) : queue'[i] = queue[i]
          /\ queue'[Len(queue) + 1].fiber = None
          /\ queue'[Len(queue) + 2].fiber = None
      BY <1>2 DEF SubmitBatch, Enqueue, CbEntry, TypeOK
    <2>3. QueueOnce'
      BY <2>2 DEF QueueOnce
    <2>4. \A f \in Fibers : Queued(f)' <=> Queued(f)
      BY <2>2 DEF Queued
    <2> QED BY <2>1, <2>3, <2>4, SameClaims
  <1>3. ASSUME NEW j \in Jobs, NEW p \in Pins, SubmitFiber(j, p),
               UNCHANGED waits
        PROVE  ClaimInv'
    <2>1. PICK f \in Fibers : /\ fstate[f] = "FREE"
                              /\ fstate' = [fstate EXCEPT ![f] = "INIT"]
                              /\ queue' = queue \o <<FiberEntry(f, p)>>
      BY <1>3 DEF SubmitFiber, Enqueue
    <2>2. FiberEntry(f, p) \in Entry /\ FiberEntry(f, p).fiber = f
      BY DEF FiberEntry, Entry
    <2>3. Unclaimed(f)
      BY <2>1 DEF WaitState
    <2>4. QueueOnce' /\ \A g \in Fibers : Queued(g)' <=> Queued(g) \/ g = f
      BY <2>1, <2>2, <2>3, AppendClaims DEF Unclaimed
    <2>5. UNCHANGED <<waits, cbFiber, pc, ft>>
      BY <1>3
    <2>6. /\ fstate'[f] = "INIT"
          /\ \A g \in Fibers : g # f => fstate'[g] = fstate[g]
      BY <2>1 DEF TypeOK
    <2>7. \A t \in Threads : /\ pc[t] \in OnFiber => Running(t) \in Fibers
                            /\ ft[t].fiber \in Fibers \cup {None}
      BY RunningFiber DEF TypeOK, Entry
    <2>10. QueuedState'
      BY <2>1, <2>3, <2>4, <2>5, <2>6, <2>7 DEF QueuedState, Unclaimed
    <2>11. WaitState'
      BY <2>1, <2>3, <2>4, <2>5, <2>6, <2>7 DEF WaitState, Unclaimed
    <2>12. PickedState'
      BY <2>1, <2>3, <2>4, <2>5, <2>6, <2>7
         DEF PickedState, Unclaimed, Running, At
    <2>13. RunningState'
      BY <2>1, <2>3, <2>4, <2>5, <2>6, <2>7
         DEF RunningState, Unclaimed, Awaited, Running, At
    <2>14. SpareState'
      BY <2>1, <2>3, <2>4, <2>5, <2>6, <2>7
         DEF SpareState, Spare, Unclaimed, PickedUp, Running, At
    <2>15. CarriersDiffer'
      BY <2>1, <2>3, <2>4, <2>5, <2>6, <2>7 DEF CarriersDiffer
    <2>16. OneRunner'
      BY <2>1, <2>3, <2>4, <2>5, <2>6, <2>7 DEF OneRunner, Running, At
    <2>17. ParkedIsReachable'
      BY <2>1, <2>3, <2>4, <2>5, <2>6, <2>7 DEF ParkedIsReachable, PickedUp, At
    <2> QED
      BY <2>4, <2>10, <2>11, <2>12, <2>13, <2>14, <2>15, <2>16, <2>17
  <1>4. ASSUME NEW f \in Fibers, NEW p \in Pins, Wake(f, p)
        PROVE  ClaimInv'
    <2>1. /\ waits[f] > 0 /\ waits' = [waits EXCEPT ![f] = @ - 1]
          /\ queue' = queue \o <<FiberEntry(f, p)>>
      BY <1>4 DEF Wake, Enqueue
    <2>2. FiberEntry(f, p) \in Entry /\ FiberEntry(f, p).fiber = f
      BY DEF FiberEntry, Entry
    <2>3. ~Queued(f) /\ waits[f] = 1 /\ fstate[f] \in {"HOLD", "EXEC"}
      BY <2>1 DEF QueuedState, WaitState
    <2>4. QueueOnce' /\ \A g \in Fibers : Queued(g)' <=> Queued(g) \/ g = f
      BY <2>1, <2>2, <2>3, AppendClaims
    <2>5. UNCHANGED <<fstate, cbFiber, pc, ft>>
      BY <1>4 DEF Wake
    <2>6. /\ waits'[f] = 0
          /\ \A g \in Fibers : g # f => waits'[g] = waits[g]
      BY <2>1, <2>3 DEF TypeOK
    <2>7. \A t \in Threads : /\ pc[t] \in OnFiber => Running(t) \in Fibers
                            /\ ft[t].fiber \in Fibers \cup {None}
      BY RunningFiber DEF TypeOK, Entry
    <2>10. QueuedState'
      BY <2>3, <2>4, <2>5, <2>6, <2>7 DEF QueuedState, Unclaimed
    <2>11. WaitState'
      BY <2>3, <2>4, <2>5, <2>6, <2>7 DEF WaitState, Unclaimed
    <2>12. PickedState'
      BY <2>3, <2>4, <2>5, <2>6, <2>7 DEF PickedState, Unclaimed, Running, At
    <2>13. RunningState'
      BY <2>3, <2>4, <2>5, <2>6, <2>7
         DEF RunningState, Unclaimed, Awaited, Running, At
    <2>14. SpareState'
      BY <2>3, <2>4, <2>5, <2>6, <2>7
         DEF SpareState, Spare, Unclaimed, PickedUp, Running, At
    <2>15. CarriersDiffer'
      BY <2>3, <2>4, <2>5, <2>6, <2>7 DEF CarriersDiffer
    <2>16. OneRunner'
      BY <2>3, <2>4, <2>5, <2>6, <2>7 DEF OneRunner, Running, At
    <2>17. ParkedIsReachable'
      BY <2>3, <2>4, <2>5, <2>6, <2>7 DEF ParkedIsReachable, PickedUp, At
    <2> QED
      BY <2>4, <2>10, <2>11, <2>12, <2>13, <2>14, <2>15, <2>16, <2>17
  <1> QED BY <1>1, <1>2, <1>3, <1>4 DEF Schedule

-----------------------------------------------------------------------------
(* The loop of run().                                                      *)

LEMMA RunLoopClaims ==
  ASSUME TypeInv, ClaimInv, NEW t \in Threads, RunLoop(t)
  PROVE  ClaimInv'
  <1> USE NamesAssumption DEF TypeInv, ClaimInv
  <1>1. CASE Pick(t)
    <2>7. \A u \in Threads : /\ pc[u] \in OnFiber => Running(u) \in Fibers
                            /\ ft[u].fiber \in Fibers \cup {None}
                            /\ cbFiber[u] \in Fibers \cup {None}
      BY RunningFiber DEF TypeOK, Entry
    <2>5. PICK i \in DOMAIN queue :
            /\ Eligible(t, queue[i])
            /\ ft' = [ft EXCEPT ![t] = queue[i]]
            /\ queue' = RemoveAt(queue, i)
      BY <1>1 DEF Pick
    <2>6. /\ ft'[t].fiber = queue[i].fiber
          /\ queue[i].fiber # None => Queued(queue[i].fiber)
          /\ queue[i].fiber # None => fstate[queue[i].fiber] # "EXEC"
          /\ queue[i].fiber \in Fibers \cup {None}
      <3>1. queue[i] \in Entry
        BY ElementOfSeq DEF TypeOK
      <3> QED BY <2>5, <3>1 DEF TypeOK, Entry, Queued, Eligible
    <2>1. \A u \in Threads \ {t} : /\ pc'[u] = pc[u] /\ ft'[u] = ft[u]
                                  /\ cbFiber'[u] = cbFiber[u]
      BY <1>1 DEF Pick, poolVars, TypeOK
    <2>2. /\ pc[t] = "pick" /\ pc'[t] = "dispatch" /\ cbFiber'[t] = cbFiber[t]
      BY <1>1 DEF Pick, poolVars, TypeOK, NoEntry
    <2>3. UNCHANGED <<fstate, waits>>
      BY <1>1 DEF Pick, poolVars, clientVars, TypeOK
    <2>4. /\ QueueOnce'
          /\ \A g \in Fibers : Queued(g)' <=> Queued(g) /\ queue[i].fiber # g
      BY <2>5, RemoveClaims
    <2>8. \A u \in Threads \ {t} : Running(u)' = Running(u)
      BY <2>1 DEF Running
    <2>9. queue[i].fiber # None =>
            /\ waits[queue[i].fiber] = 0
            /\ fstate[queue[i].fiber] \in {"INIT", "HOLD", "READY"}
            /\ \A u \in At({"dispatch"}) : ft[u].fiber # queue[i].fiber
            /\ \A u \in At(OnFiber) : Running(u) # queue[i].fiber
      BY <2>6 DEF QueuedState, PickedState, RunningState, Unclaimed
    <2>10. QueuedState'
      BY <2>1, <2>2, <2>3, <2>4, <2>7, <2>8, <2>6, <2>9
         DEF QueuedState, Unclaimed, OnFiber, InBody
    <2>11. WaitState'
      BY <2>1, <2>2, <2>3, <2>4, <2>7, <2>8, <2>6, <2>9
         DEF WaitState, Unclaimed, OnFiber, InBody
    <2>12. PickedState'
      BY <2>1, <2>2, <2>3, <2>4, <2>7, <2>8, <2>6, <2>9
         DEF PickedState, PickedUp, Unclaimed, Running, At, OnFiber, InBody
    <2>13. RunningState'
      BY <2>1, <2>2, <2>3, <2>4, <2>7, <2>8, <2>6, <2>9
         DEF RunningState, Unclaimed, Awaited, Running, At, OnFiber, InBody
    <2>14. SpareState'
      BY <2>1, <2>2, <2>3, <2>4, <2>7, <2>8, <2>6, <2>9
         DEF SpareState, Spare, Unclaimed, PickedUp, Running, At, OnFiber,
         InBody
    <2>15. CarriersDiffer'
      BY <2>1, <2>2, <2>3, <2>4, <2>7, <2>8, <2>6, <2>9
         DEF CarriersDiffer, OnFiber, InBody
    <2>16. OneRunner'
      BY <2>1, <2>2, <2>3, <2>4, <2>7, <2>8, <2>6, <2>9
         DEF OneRunner, Running, At, OnFiber, InBody
    <2>17. ParkedIsReachable'
      BY <2>1, <2>2, <2>3, <2>4, <2>7, <2>8, <2>6, <2>9
         DEF ParkedIsReachable, PickedUp, At, OnFiber, InBody
    <2> QED
      BY <2>4, <2>10, <2>11, <2>12, <2>13, <2>14, <2>15, <2>16, <2>17
  <1>2. CASE PickNothing(t)
    <2>7. \A u \in Threads : /\ pc[u] \in OnFiber => Running(u) \in Fibers
                            /\ ft[u].fiber \in Fibers \cup {None}
                            /\ cbFiber[u] \in Fibers \cup {None}
      BY RunningFiber DEF TypeOK, Entry
    <2>1. \A u \in Threads \ {t} : /\ pc'[u] = pc[u] /\ ft'[u] = ft[u]
                                  /\ cbFiber'[u] = cbFiber[u]
      BY <1>2 DEF PickNothing, poolVars, TypeOK
    <2>2. /\ pc[t] = "pick" /\ pc'[t] \in {"idle", "exited"}
          /\ ft'[t] = ft[t] /\ cbFiber'[t] = cbFiber[t]
      BY <1>2 DEF PickNothing, poolVars, TypeOK, NoEntry
    <2>3. UNCHANGED <<fstate, waits>>
      BY <1>2 DEF PickNothing, poolVars, clientVars, TypeOK
    <2>4. QueueOnce' /\ \A g \in Fibers : Queued(g)' <=> Queued(g)
      BY <1>2 DEF PickNothing, poolVars, QueueOnce, Queued
    <2>8. \A u \in Threads \ {t} : Running(u)' = Running(u)
      BY <2>1 DEF Running
    <2>10. QueuedState'
      BY <2>1, <2>2, <2>3, <2>4, <2>7, <2>8
         DEF QueuedState, Unclaimed, OnFiber, InBody
    <2>11. WaitState'
      BY <2>1, <2>2, <2>3, <2>4, <2>7, <2>8
         DEF WaitState, Unclaimed, OnFiber, InBody
    <2>12. PickedState'
      BY <2>1, <2>2, <2>3, <2>4, <2>7, <2>8
         DEF PickedState, PickedUp, Unclaimed, Running, At, OnFiber, InBody
    <2>13. RunningState'
      BY <2>1, <2>2, <2>3, <2>4, <2>7, <2>8
         DEF RunningState, Unclaimed, Awaited, Running, At, OnFiber, InBody
    <2>14. SpareState'
      BY <2>1, <2>2, <2>3, <2>4, <2>7, <2>8
         DEF SpareState, Spare, Unclaimed, PickedUp, Running, At, OnFiber,
         InBody
    <2>15. CarriersDiffer'
      BY <2>1, <2>2, <2>3, <2>4, <2>7, <2>8 DEF CarriersDiffer, OnFiber, InBody
    <2>16. OneRunner'
      BY <2>1, <2>2, <2>3, <2>4, <2>7, <2>8
         DEF OneRunner, Running, At, OnFiber, InBody
    <2>17. ParkedIsReachable'
      BY <2>1, <2>2, <2>3, <2>4, <2>7, <2>8
         DEF ParkedIsReachable, PickedUp, At, OnFiber, InBody
    <2> QED
      BY <2>4, <2>10, <2>11, <2>12, <2>13, <2>14, <2>15, <2>16, <2>17
  <1>3. CASE Idle(t)
    <2>7. \A u \in Threads : /\ pc[u] \in OnFiber => Running(u) \in Fibers
                            /\ ft[u].fiber \in Fibers \cup {None}
                            /\ cbFiber[u] \in Fibers \cup {None}
      BY RunningFiber DEF TypeOK, Entry
    <2>1. \A u \in Threads \ {t} : /\ pc'[u] = pc[u] /\ ft'[u] = ft[u]
                                  /\ cbFiber'[u] = cbFiber[u]
      BY <1>3 DEF Idle, poolVars, TypeOK
    <2>2. /\ pc[t] = "idle" /\ pc'[t] = "pick"
          /\ ft'[t] = ft[t] /\ cbFiber'[t] = cbFiber[t]
      BY <1>3 DEF Idle, poolVars, TypeOK, NoEntry
    <2>3. UNCHANGED <<fstate, waits>>
      BY <1>3 DEF Idle, poolVars, clientVars, TypeOK
    <2>4. QueueOnce' /\ \A g \in Fibers : Queued(g)' <=> Queued(g)
      BY <1>3 DEF Idle, poolVars, QueueOnce, Queued
    <2>8. \A u \in Threads \ {t} : Running(u)' = Running(u)
      BY <2>1 DEF Running
    <2>10. QueuedState'
      BY <2>1, <2>2, <2>3, <2>4, <2>7, <2>8
         DEF QueuedState, Unclaimed, OnFiber, InBody
    <2>11. WaitState'
      BY <2>1, <2>2, <2>3, <2>4, <2>7, <2>8
         DEF WaitState, Unclaimed, OnFiber, InBody
    <2>12. PickedState'
      BY <2>1, <2>2, <2>3, <2>4, <2>7, <2>8
         DEF PickedState, PickedUp, Unclaimed, Running, At, OnFiber, InBody
    <2>13. RunningState'
      BY <2>1, <2>2, <2>3, <2>4, <2>7, <2>8
         DEF RunningState, Unclaimed, Awaited, Running, At, OnFiber, InBody
    <2>14. SpareState'
      BY <2>1, <2>2, <2>3, <2>4, <2>7, <2>8
         DEF SpareState, Spare, Unclaimed, PickedUp, Running, At, OnFiber,
         InBody
    <2>15. CarriersDiffer'
      BY <2>1, <2>2, <2>3, <2>4, <2>7, <2>8 DEF CarriersDiffer, OnFiber, InBody
    <2>16. OneRunner'
      BY <2>1, <2>2, <2>3, <2>4, <2>7, <2>8
         DEF OneRunner, Running, At, OnFiber, InBody
    <2>17. ParkedIsReachable'
      BY <2>1, <2>2, <2>3, <2>4, <2>7, <2>8
         DEF ParkedIsReachable, PickedUp, At, OnFiber, InBody
    <2> QED
      BY <2>4, <2>10, <2>11, <2>12, <2>13, <2>14, <2>15, <2>16, <2>17
  <1>4. CASE DispatchFiber(t)
    <2>7. \A u \in Threads : /\ pc[u] \in OnFiber => Running(u) \in Fibers
                            /\ ft[u].fiber \in Fibers \cup {None}
                            /\ cbFiber[u] \in Fibers \cup {None}
      BY RunningFiber DEF TypeOK, Entry
    <2>1. \A u \in Threads \ {t} : /\ pc'[u] = pc[u] /\ ft'[u] = ft[u]
                                  /\ cbFiber'[u] = cbFiber[u]
      BY <1>4 DEF DispatchFiber, poolVars, TypeOK
    <2>2. /\ pc[t] = "dispatch" /\ pc'[t] = "run"
          /\ ft[t].fiber # None /\ ft'[t] = ft[t] /\ cbFiber'[t] = cbFiber[t]
      BY <1>4 DEF DispatchFiber, poolVars, TypeOK, NoEntry
    <2>3. /\ UNCHANGED waits
          /\ fstate'[ft[t].fiber] = "EXEC"
          /\ \A g \in Fibers : g # ft[t].fiber => fstate'[g] = fstate[g]
      BY <1>4, <2>7 DEF DispatchFiber, poolVars, clientVars, TypeOK
    <2>4. QueueOnce' /\ \A g \in Fibers : Queued(g)' <=> Queued(g)
      BY <1>4 DEF DispatchFiber, poolVars, QueueOnce, Queued
    <2>8. \A u \in Threads \ {t} : Running(u)' = Running(u)
      BY <2>1 DEF Running
    <2>9. /\ Running(t)' = ft[t].fiber /\ Unclaimed(ft[t].fiber)
          /\ \A u \in At(OnFiber) : Running(u) # ft[t].fiber
      BY <2>2 DEF PickedState, Running, At
    <2>10. QueuedState'
      BY <2>1, <2>2, <2>3, <2>4, <2>7, <2>8, <2>9
         DEF QueuedState, Unclaimed, OnFiber, InBody
    <2>11. WaitState'
      BY <2>1, <2>2, <2>3, <2>4, <2>7, <2>8, <2>9
         DEF WaitState, Unclaimed, OnFiber, InBody
    <2>12. PickedState'
      BY <2>1, <2>2, <2>3, <2>4, <2>7, <2>8, <2>9
         DEF PickedState, PickedUp, Unclaimed, Running, At, OnFiber, InBody
    <2>13. RunningState'
      BY <2>1, <2>2, <2>3, <2>4, <2>7, <2>8, <2>9
         DEF RunningState, Unclaimed, Awaited, Running, At, OnFiber, InBody
    <2>14. SpareState'
      BY <2>1, <2>2, <2>3, <2>4, <2>7, <2>8, <2>9
         DEF SpareState, Spare, Unclaimed, PickedUp, Running, At, OnFiber,
         InBody
    <2>15. CarriersDiffer'
      BY <2>1, <2>2, <2>3, <2>4, <2>7, <2>8, <2>9
         DEF CarriersDiffer, OnFiber, InBody
    <2>16. OneRunner'
      BY <2>1, <2>2, <2>3, <2>4, <2>7, <2>8, <2>9
         DEF OneRunner, Running, At, OnFiber, InBody
    <2>17. ParkedIsReachable'
      BY <2>1, <2>2, <2>3, <2>4, <2>7, <2>8, <2>9
         DEF ParkedIsReachable, PickedUp, At, OnFiber, InBody
    <2> QED
      BY <2>4, <2>10, <2>11, <2>12, <2>13, <2>14, <2>15, <2>16, <2>17
  <1>5. CASE DispatchCb(t)
    <2>7. \A u \in Threads : /\ pc[u] \in OnFiber => Running(u) \in Fibers
                            /\ ft[u].fiber \in Fibers \cup {None}
                            /\ cbFiber[u] \in Fibers \cup {None}
      BY RunningFiber DEF TypeOK, Entry
    <2>5. PICK f \in Fibers :
            /\ CarrierFor(t, f)
            /\ fstate' = [fstate EXCEPT ![f] = "EXEC"]
            /\ cbFiber' = [cbFiber EXCEPT ![t] = f]
      BY <1>5 DEF DispatchCb
    <2>1. \A u \in Threads \ {t} : /\ pc'[u] = pc[u] /\ ft'[u] = ft[u]
                                  /\ cbFiber'[u] = cbFiber[u]
      BY <1>5 DEF DispatchCb, poolVars, TypeOK
    <2>2. /\ pc[t] = "dispatch" /\ pc'[t] = "run"
          /\ ft'[t].fiber = None /\ cbFiber'[t] = f
      BY <1>5, <2>5 DEF DispatchCb, poolVars, TypeOK, NoEntry
    <2>3. /\ UNCHANGED waits /\ fstate'[f] = "EXEC"
          /\ \A g \in Fibers : g # f => fstate'[g] = fstate[g]
      BY <1>5, <2>5 DEF DispatchCb, poolVars, clientVars, TypeOK
    <2>4. QueueOnce' /\ \A g \in Fibers : Queued(g)' <=> Queued(g)
      BY <1>5 DEF DispatchCb, poolVars, QueueOnce, Queued
    <2>8. \A u \in Threads \ {t} : Running(u)' = Running(u)
      BY <2>1 DEF Running
    <2>6. /\ Unclaimed(f) /\ ~PickedUp(f)
          /\ \A u \in At(OnFiber) : Running(u) # f
          /\ \A u \in Threads : cbFiber[u] = f => u = t
      <3>1. CASE cbFiber[t] = f
        BY <3>1, <2>2, <2>7
           DEF SpareState, Spare, CarriersDiffer, OnFiber, InBody
      <3>2. CASE fstate[f] = "FREE"
        <4>1. Unclaimed(f)
          BY <3>2 DEF WaitState
        <4>2. ~PickedUp(f)
          BY <3>2, <2>7 DEF PickedState, PickedUp
        <4>3. \A u \in At(OnFiber) : Running(u) # f
          BY <3>2 DEF RunningState
        <4>4. ASSUME NEW u \in Threads, cbFiber[u] = f PROVE FALSE
          <5>1. ~Spare(u, f)
            BY <3>2 DEF SpareState
          <5>2. u \in At(OnFiber) /\ Running(u) = f
            BY <5>1, <4>4 DEF Spare, At, Running
          <5> QED BY <5>2, <4>3
        <4> QED BY <4>1, <4>2, <4>3, <4>4
      <3> QED BY <2>5, <3>1, <3>2 DEF CarrierFor
    <2>9. Running(t)' = f /\ f # None /\ ft[t].fiber = None
      <3>1. Running(t)' = f
        BY <2>2 DEF Running
      <3>2. ft[t].cb # None
        BY <1>5 DEF DispatchCb
      <3>3. ft[t] \in Entry
        BY DEF TypeOK
      <3>5. ft[t].fiber = None
        BY <3>2, <3>3 DEF Entry
      <3>4. f # None
        OBVIOUS
      <3> QED BY <3>1, <3>4, <3>5
    <2>10. QueuedState'
      BY <2>1, <2>2, <2>3, <2>4, <2>7, <2>8, <2>6, <2>9
         DEF QueuedState, Unclaimed, OnFiber, InBody
    <2>11. WaitState'
      BY <2>1, <2>2, <2>3, <2>4, <2>7, <2>8, <2>6, <2>9
         DEF WaitState, Unclaimed, OnFiber, InBody
    <2>12. PickedState'
      BY <2>1, <2>2, <2>3, <2>4, <2>7, <2>8, <2>6, <2>9
         DEF PickedState, PickedUp, Unclaimed, Running, At, OnFiber, InBody
    <2>13. RunningState'
      BY <2>1, <2>2, <2>3, <2>4, <2>7, <2>8, <2>6, <2>9
         DEF RunningState, Unclaimed, Awaited, Running, At, OnFiber, InBody
    <2>14. SpareState'
      BY <2>1, <2>2, <2>3, <2>4, <2>7, <2>8, <2>6, <2>9
         DEF SpareState, Spare, Unclaimed, PickedUp, Running, At, OnFiber,
         InBody
    <2>15. CarriersDiffer'
      BY <2>1, <2>2, <2>3, <2>4, <2>7, <2>8, <2>6, <2>9
         DEF CarriersDiffer, OnFiber, InBody
    <2>16. OneRunner'
      BY <2>1, <2>2, <2>3, <2>4, <2>7, <2>8, <2>6, <2>9
         DEF OneRunner, Running, At, OnFiber, InBody
    <2>17. ParkedIsReachable'
      BY <2>1, <2>2, <2>3, <2>4, <2>7, <2>8, <2>6, <2>9
         DEF ParkedIsReachable, PickedUp, At, OnFiber, InBody
    <2> QED
      BY <2>4, <2>10, <2>11, <2>12, <2>13, <2>14, <2>15, <2>16, <2>17
  <1>6. CASE DispatchEnded(t)
    <2>7. \A u \in Threads : /\ pc[u] \in OnFiber => Running(u) \in Fibers
                            /\ ft[u].fiber \in Fibers \cup {None}
                            /\ cbFiber[u] \in Fibers \cup {None}
      BY RunningFiber DEF TypeOK, Entry
    <2>1. \A u \in Threads \ {t} : /\ pc'[u] = pc[u] /\ ft'[u] = ft[u]
                                  /\ cbFiber'[u] = cbFiber[u]
      BY <1>6 DEF DispatchEnded, poolVars, TypeOK
    <2>2. /\ pc[t] = "dispatch" /\ pc'[t] = "pick"
          /\ ft'[t].fiber = None /\ cbFiber'[t] = cbFiber[t]
      BY <1>6 DEF DispatchEnded, poolVars, TypeOK, NoEntry
    <2>3. UNCHANGED <<fstate, waits>>
      BY <1>6 DEF DispatchEnded, poolVars, clientVars, TypeOK
    <2>4. QueueOnce' /\ \A g \in Fibers : Queued(g)' <=> Queued(g)
      BY <1>6 DEF DispatchEnded, poolVars, QueueOnce, Queued
    <2>8. \A u \in Threads \ {t} : Running(u)' = Running(u)
      BY <2>1 DEF Running
    <2>9. FALSE
      BY <1>6 DEF DispatchEnded, PickedState, At, Ended
    <2> QED BY <2>9
  <1>7. CASE SwapBack(t)
    <2>7. \A u \in Threads : /\ pc[u] \in OnFiber => Running(u) \in Fibers
                            /\ ft[u].fiber \in Fibers \cup {None}
                            /\ cbFiber[u] \in Fibers \cup {None}
      BY RunningFiber DEF TypeOK, Entry
    <2>1. \A u \in Threads \ {t} : /\ pc'[u] = pc[u] /\ ft'[u] = ft[u]
                                  /\ cbFiber'[u] = cbFiber[u]
      BY <1>7 DEF SwapBack, poolVars, TypeOK
    <2>2. /\ pc[t] = "swapped" /\ pc'[t] = "settle"
          /\ ft'[t] = ft[t] /\ cbFiber'[t] = cbFiber[t]
      BY <1>7 DEF SwapBack, poolVars, TypeOK, NoEntry
    <2>3. UNCHANGED <<fstate, waits>>
      BY <1>7 DEF SwapBack, poolVars, clientVars, TypeOK
    <2>4. QueueOnce' /\ \A g \in Fibers : Queued(g)' <=> Queued(g)
      BY <1>7 DEF SwapBack, poolVars, QueueOnce, Queued
    <2>8. \A u \in Threads \ {t} : Running(u)' = Running(u)
      BY <2>1 DEF Running
    <2>10. QueuedState'
      BY <2>1, <2>2, <2>3, <2>4, <2>7, <2>8
         DEF QueuedState, Unclaimed, OnFiber, InBody
    <2>11. WaitState'
      BY <2>1, <2>2, <2>3, <2>4, <2>7, <2>8
         DEF WaitState, Unclaimed, OnFiber, InBody
    <2>12. PickedState'
      BY <2>1, <2>2, <2>3, <2>4, <2>7, <2>8
         DEF PickedState, PickedUp, Unclaimed, Running, At, OnFiber, InBody
    <2>13. RunningState'
      BY <2>1, <2>2, <2>3, <2>4, <2>7, <2>8
         DEF RunningState, Unclaimed, Awaited, Running, At, OnFiber, InBody
    <2>14. SpareState'
      BY <2>1, <2>2, <2>3, <2>4, <2>7, <2>8
         DEF SpareState, Spare, Unclaimed, PickedUp, Running, At, OnFiber,
         InBody
    <2>15. CarriersDiffer'
      BY <2>1, <2>2, <2>3, <2>4, <2>7, <2>8 DEF CarriersDiffer, OnFiber, InBody
    <2>16. OneRunner'
      BY <2>1, <2>2, <2>3, <2>4, <2>7, <2>8
         DEF OneRunner, Running, At, OnFiber, InBody
    <2>17. ParkedIsReachable'
      BY <2>1, <2>2, <2>3, <2>4, <2>7, <2>8
         DEF ParkedIsReachable, PickedUp, At, OnFiber, InBody
    <2> QED
      BY <2>4, <2>10, <2>11, <2>12, <2>13, <2>14, <2>15, <2>16, <2>17
  <1>8. CASE SettleReady(t)
    <2>7. \A u \in Threads : /\ pc[u] \in OnFiber => Running(u) \in Fibers
                            /\ ft[u].fiber \in Fibers \cup {None}
                            /\ cbFiber[u] \in Fibers \cup {None}
      BY RunningFiber DEF TypeOK, Entry
    <2>5. PICK f \in Fibers :
            /\ f = Running(t) /\ f # None
            /\ f = IF ft[t].fiber # None THEN ft[t].fiber ELSE cbFiber[t]
            /\ t \in At(OnFiber)
      BY <1>8, RunningFiber
         DEF SettleReady, SettleEnded, SettleHold, Running, At, OnFiber
    <2>1. \A u \in Threads \ {t} : /\ pc'[u] = pc[u] /\ ft'[u] = ft[u]
                                  /\ cbFiber'[u] = cbFiber[u]
      BY <1>8 DEF SettleReady, Release, poolVars, TypeOK
    <2>2. /\ pc[t] = "settle" /\ pc'[t] = "pick" /\ ft'[t].fiber = None
          /\ cbFiber'[t] = IF ft[t].fiber = None THEN None ELSE cbFiber[t]
      BY <1>8 DEF SettleReady, Release, poolVars, TypeOK, NoEntry
    <2>3. /\ UNCHANGED <<fstate, waits>> /\ fstate[f] = "READY"
      BY <1>8, <2>5 DEF SettleReady, Release, poolVars, clientVars, TypeOK
    <2>6. Unclaimed(f)
      BY <2>2, <2>3, <2>5 DEF RunningState
    <2>4. /\ QueueOnce'
          /\ \A g \in Fibers : Queued(g)' <=> Queued(g) \/ f = g
      <3>1. /\ FiberEntry(f, AnyThread) \in Entry
            /\ FiberEntry(f, AnyThread).fiber = f
        BY <2>5 DEF FiberEntry, Entry
      <3>2. queue' = queue \o <<FiberEntry(f, AnyThread)>>
        BY <1>8, <2>5 DEF SettleReady, Enqueue
      <3> QED BY <2>6, <3>1, <3>2, AppendClaims DEF Unclaimed
    <2>8. \A u \in Threads \ {t} : Running(u)' = Running(u)
      BY <2>1 DEF Running
    <2>9. \A u \in Threads \ {t} : pc[u] \in OnFiber => Running(u) # f
      BY <2>5 DEF OneRunner, At
    <2>10. QueuedState'
      BY <2>1, <2>2, <2>3, <2>4, <2>7, <2>8, <2>5, <2>6, <2>9
         DEF QueuedState, Unclaimed, OnFiber, InBody
    <2>11. WaitState'
      BY <2>1, <2>2, <2>3, <2>4, <2>7, <2>8, <2>5, <2>6, <2>9
         DEF WaitState, Unclaimed, OnFiber, InBody
    <2>12. PickedState'
      BY <2>1, <2>2, <2>3, <2>4, <2>7, <2>8, <2>5, <2>6, <2>9
         DEF PickedState, PickedUp, Unclaimed, Running, At, OnFiber, InBody
    <2>13. RunningState'
      BY <2>1, <2>2, <2>3, <2>4, <2>7, <2>8, <2>5, <2>6, <2>9
         DEF RunningState, Unclaimed, Awaited, Running, At, OnFiber, InBody
    <2>14. SpareState'
      BY <2>1, <2>2, <2>3, <2>4, <2>7, <2>8, <2>5, <2>6, <2>9
         DEF SpareState, Spare, Unclaimed, PickedUp, Running, At, OnFiber,
         InBody
    <2>15. CarriersDiffer'
      BY <2>1, <2>2, <2>3, <2>4, <2>7, <2>8, <2>5, <2>6, <2>9
         DEF CarriersDiffer, OnFiber, InBody
    <2>16. OneRunner'
      BY <2>1, <2>2, <2>3, <2>4, <2>7, <2>8, <2>5, <2>6, <2>9
         DEF OneRunner, Running, At, OnFiber, InBody
    <2>17. ParkedIsReachable'
      BY <2>1, <2>2, <2>3, <2>4, <2>7, <2>8, <2>5, <2>6, <2>9
         DEF ParkedIsReachable, PickedUp, At, OnFiber, InBody
    <2> QED
      BY <2>4, <2>10, <2>11, <2>12, <2>13, <2>14, <2>15, <2>16, <2>17
  <1>9. CASE SettleEnded(t)
    <2>7. \A u \in Threads : /\ pc[u] \in OnFiber => Running(u) \in Fibers
                            /\ ft[u].fiber \in Fibers \cup {None}
                            /\ cbFiber[u] \in Fibers \cup {None}
      BY RunningFiber DEF TypeOK, Entry
    <2>5. PICK f \in Fibers :
            /\ f = Running(t) /\ f # None
            /\ f = IF ft[t].fiber # None THEN ft[t].fiber ELSE cbFiber[t]
            /\ t \in At(OnFiber)
      BY <1>9, RunningFiber
         DEF SettleReady, SettleEnded, SettleHold, Running, At, OnFiber
    <2>1. \A u \in Threads \ {t} : /\ pc'[u] = pc[u] /\ ft'[u] = ft[u]
                                  /\ cbFiber'[u] = cbFiber[u]
      BY <1>9 DEF SettleEnded, Release, poolVars, TypeOK
    <2>2. /\ pc[t] = "settle" /\ pc'[t] = "pick" /\ ft'[t].fiber = None
          /\ cbFiber'[t] = cbFiber[t]
      BY <1>9 DEF SettleEnded, Release, poolVars, TypeOK, NoEntry
    <2>3. /\ UNCHANGED waits /\ Ended(f)
          /\ ft[t].fiber = None => fstate'[f] = "INIT"
          /\ ft[t].fiber # None => fstate'[f] = fstate[f]
          /\ \A g \in Fibers : g # f => fstate'[g] = fstate[g]
      BY <1>9, <2>5 DEF SettleEnded, Release, poolVars, clientVars, TypeOK
    <2>4. QueueOnce' /\ \A g \in Fibers : Queued(g)' <=> Queued(g)
      BY <1>9 DEF SettleEnded, poolVars, QueueOnce, Queued
    <2>8. \A u \in Threads \ {t} : Running(u)' = Running(u)
      BY <2>1 DEF Running
    <2>6. Unclaimed(f) /\ fstate[f] \in {"TERM", "EXCEPT"}
      BY <2>2, <2>3, <2>5 DEF RunningState, Ended
    <2>9. \A u \in Threads \ {t} : pc[u] \in OnFiber => Running(u) # f
      BY <2>5 DEF OneRunner, At
    <2>10. QueuedState'
      BY <2>1, <2>2, <2>3, <2>4, <2>7, <2>8, <2>5, <2>6, <2>9
         DEF QueuedState, Unclaimed, OnFiber, InBody
    <2>11. WaitState'
      BY <2>1, <2>2, <2>3, <2>4, <2>7, <2>8, <2>5, <2>6, <2>9
         DEF WaitState, Unclaimed, OnFiber, InBody
    <2>12. PickedState'
      BY <2>1, <2>2, <2>3, <2>4, <2>7, <2>8, <2>5, <2>6, <2>9
         DEF PickedState, PickedUp, Unclaimed, Running, At, OnFiber, InBody
    <2>13. RunningState'
      BY <2>1, <2>2, <2>3, <2>4, <2>7, <2>8, <2>5, <2>6, <2>9
         DEF RunningState, Unclaimed, Awaited, Running, At, OnFiber, InBody
    <2>14. SpareState'
      <3>1. ~PickedUp(f) /\ \A g \in Fibers : PickedUp(g)' => PickedUp(g)
        BY <2>1, <2>2, <2>5 DEF PickedState, PickedUp, At
      <3>2. \A u \in Threads : ~Spare(u, f)
        BY <2>5 DEF SpareState
      <3>3. \A u \in Threads : cbFiber[u] = f => u = t /\ ft[t].fiber = None
        BY <2>5, <2>9, <3>2 DEF Spare, Running, OnFiber, InBody
      <3>4. ASSUME NEW u \in Threads, NEW g \in Fibers, g # f, Spare(u, g)'
            PROVE  Spare(u, g)
        BY <3>4, <2>1, <2>2, <2>5 DEF Spare
      <3>5. \A u \in At(OnFiber)' :
              u \in At(OnFiber) /\ Running(u)' = Running(u)
                                 /\ u # t
        BY <2>1, <2>2, <2>8 DEF At, OnFiber, InBody
      <3>6. ASSUME NEW u \in Threads, Spare(u, f)'
            PROVE  /\ fstate'[f] = "INIT" /\ Unclaimed(f)' /\ ~PickedUp(f)'
                   /\ \A w \in At(OnFiber)' : Running(w)' # f
        <4>1. u = t /\ ft[t].fiber = None
          BY <3>6, <3>3, <2>1, <2>2 DEF Spare
        <4> QED BY <4>1, <3>1, <3>5, <2>3, <2>4, <2>5, <2>6, <2>9
                DEF Unclaimed, At
      <3>7. ASSUME NEW u \in Threads, NEW g \in Fibers, g # f, Spare(u, g)'
            PROVE  /\ fstate'[g] = "INIT" /\ Unclaimed(g)' /\ ~PickedUp(g)'
                   /\ \A w \in At(OnFiber)' : Running(w)' # g
        BY <3>7, <3>4, <3>1, <3>5, <2>3, <2>4 DEF SpareState, Unclaimed
      <3> QED BY <3>6, <3>7 DEF SpareState
    <2>15. CarriersDiffer'
      BY <2>1, <2>2, <2>3, <2>4, <2>7, <2>8, <2>5, <2>6, <2>9
         DEF CarriersDiffer, OnFiber, InBody
    <2>16. OneRunner'
      BY <2>1, <2>2, <2>3, <2>4, <2>7, <2>8, <2>5, <2>6, <2>9
         DEF OneRunner, Running, At, OnFiber, InBody
    <2>17. ParkedIsReachable'
      BY <2>1, <2>2, <2>3, <2>4, <2>7, <2>8, <2>5, <2>6, <2>9
         DEF ParkedIsReachable, PickedUp, At, OnFiber, InBody
    <2> QED
      BY <2>4, <2>10, <2>11, <2>12, <2>13, <2>14, <2>15, <2>16, <2>17
  <1>10. CASE SettleHold(t)
    <2>7. \A u \in Threads : /\ pc[u] \in OnFiber => Running(u) \in Fibers
                            /\ ft[u].fiber \in Fibers \cup {None}
                            /\ cbFiber[u] \in Fibers \cup {None}
      BY RunningFiber DEF TypeOK, Entry
    <2>5. PICK f \in Fibers :
            /\ f = Running(t) /\ f # None
            /\ f = IF ft[t].fiber # None THEN ft[t].fiber ELSE cbFiber[t]
            /\ t \in At(OnFiber)
      BY <1>10, RunningFiber
         DEF SettleReady, SettleEnded, SettleHold, Running, At, OnFiber
    <2>1. \A u \in Threads \ {t} : /\ pc'[u] = pc[u] /\ ft'[u] = ft[u]
                                  /\ cbFiber'[u] = cbFiber[u]
      BY <1>10 DEF SettleHold, Release, poolVars, TypeOK
    <2>2. /\ pc[t] = "settle" /\ pc'[t] = "pick" /\ ft'[t].fiber = None
          /\ cbFiber'[t] = IF ft[t].fiber = None THEN None ELSE cbFiber[t]
      BY <1>10 DEF SettleHold, Release, poolVars, TypeOK, NoEntry
    <2>3. /\ UNCHANGED waits
          /\ fstate[f] # "READY" /\ ~Ended(f) /\ fstate'[f] = "HOLD"
          /\ \A g \in Fibers : g # f => fstate'[g] = fstate[g]
      BY <1>10, <2>5 DEF SettleHold, Release, poolVars, clientVars, TypeOK
    <2>4. QueueOnce' /\ \A g \in Fibers : Queued(g)' <=> Queued(g)
      BY <1>10 DEF SettleHold, poolVars, QueueOnce, Queued
    <2>8. \A u \in Threads \ {t} : Running(u)' = Running(u)
      BY <2>1 DEF Running
    <2>6. Awaited(f) /\ fstate[f] = "EXEC"
      BY <2>2, <2>3, <2>5 DEF RunningState, Ended
    <2>9. \A u \in Threads \ {t} : pc[u] \in OnFiber => Running(u) # f
      BY <2>5 DEF OneRunner, At
    <2>10. QueuedState'
      BY <2>1, <2>2, <2>3, <2>4, <2>7, <2>8, <2>5, <2>6, <2>9
         DEF QueuedState, Unclaimed, OnFiber, InBody
    <2>11. WaitState'
      BY <2>1, <2>2, <2>3, <2>4, <2>7, <2>8, <2>5, <2>6, <2>9
         DEF WaitState, Unclaimed, OnFiber, InBody
    <2>12. PickedState'
      BY <2>1, <2>2, <2>3, <2>4, <2>7, <2>8, <2>5, <2>6, <2>9
         DEF PickedState, PickedUp, Unclaimed, Running, At, OnFiber, InBody
    <2>13. RunningState'
      BY <2>1, <2>2, <2>3, <2>4, <2>7, <2>8, <2>5, <2>6, <2>9
         DEF RunningState, Unclaimed, Awaited, Running, At, OnFiber, InBody
    <2>14. SpareState'
      BY <2>1, <2>2, <2>3, <2>4, <2>7, <2>8, <2>5, <2>6, <2>9
         DEF SpareState, Spare, Unclaimed, PickedUp, Running, At, OnFiber,
         InBody
    <2>15. CarriersDiffer'
      BY <2>1, <2>2, <2>3, <2>4, <2>7, <2>8, <2>5, <2>6, <2>9
         DEF CarriersDiffer, OnFiber, InBody
    <2>16. OneRunner'
      BY <2>1, <2>2, <2>3, <2>4, <2>7, <2>8, <2>5, <2>6, <2>9
         DEF OneRunner, Running, At, OnFiber, InBody
    <2>17. ParkedIsReachable'
      BY <2>1, <2>2, <2>3, <2>4, <2>7, <2>8, <2>5, <2>6, <2>9
         DEF ParkedIsReachable, Awaited, PickedUp, At, OnFiber, InBody
    <2> QED
      BY <2>4, <2>10, <2>11, <2>12, <2>13, <2>14, <2>15, <2>16, <2>17
  <1> QED
    BY <1>1, <1>2, <1>3, <1>4, <1>5, <1>6, <1>7, <1>8, <1>9, <1>10 DEF RunLoop

-----------------------------------------------------------------------------
(* The bodies of the fibers.                                               *)

LEMMA BodyClaims ==
  ASSUME MaxWaits <= 1, TypeInv, ClaimInv, NEW t \in Threads, Body(t)
  PROVE  ClaimInv'
  <1> USE NamesAssumption DEF TypeInv, ClaimInv
  <1>1. CASE BodySchedule(t)
    BY <1>1, ScheduleClaims DEF BodySchedule, threadVars
  <1>2. CASE Register(t)
    <2>7. \A u \in Threads : /\ pc[u] \in OnFiber => Running(u) \in Fibers
                            /\ ft[u].fiber \in Fibers \cup {None}
                            /\ cbFiber[u] \in Fibers \cup {None}
      BY RunningFiber DEF TypeOK, Entry
    <2>5. PICK f \in Fibers : f = Running(t) /\ f # None /\ t \in At(OnFiber)
      BY <1>2, RunningFiber DEF Register, At, OnFiber, InBody
    <2>1. \A u \in Threads \ {t} : pc'[u] = pc[u]
      BY <1>2 DEF Register, TypeOK
    <2>2. /\ pc[t] = "run" /\ pc'[t] = "parking" /\ UNCHANGED <<ft, cbFiber>>
      BY <1>2 DEF Register, poolVars, TypeOK
    <2>3. /\ UNCHANGED fstate /\ waits'[f] = waits[f] + 1
          /\ \A g \in Fibers : g # f => waits'[g] = waits[g]
      <3>1. PICK n \in 1..MaxWaits : waits' = [waits EXCEPT ![f] = @ + n]
        BY <1>2, <2>5 DEF Register
      <3>2. n = 1
        BY <3>1, BoundsAssumption
      <3> QED BY <1>2, <3>1, <3>2 DEF Register, poolVars, TypeOK
    <2>6. Unclaimed(f) /\ fstate[f] = "EXEC"
      BY <2>2, <2>5 DEF RunningState
    <2>4. QueueOnce' /\ \A g \in Fibers : Queued(g)' <=> Queued(g)
      BY <1>2 DEF Register, poolVars, QueueOnce, Queued
    <2>8. \A u \in Threads : Running(u)' = Running(u)
      BY <2>2 DEF Running
    <2>9. \A u \in Threads \ {t} : pc[u] \in OnFiber => Running(u) # f
      BY <2>5 DEF OneRunner, At
    <2>10. QueuedState'
      BY <2>1, <2>2, <2>3, <2>4, <2>5, <2>6, <2>7, <2>8, <2>9
         DEF QueuedState, Unclaimed, OnFiber, InBody
    <2>11. WaitState'
      BY <2>1, <2>2, <2>3, <2>4, <2>5, <2>6, <2>7, <2>8, <2>9
         DEF WaitState, Unclaimed, OnFiber, InBody
    <2>12. PickedState'
      BY <2>1, <2>2, <2>3, <2>4, <2>5, <2>6, <2>7, <2>8, <2>9
         DEF PickedState, PickedUp, Unclaimed, Running, At, OnFiber, InBody
    <2>13. RunningState'
      BY <2>1, <2>2, <2>3, <2>4, <2>5, <2>6, <2>7, <2>8, <2>9
         DEF RunningState, Unclaimed, Awaited, Running, At, OnFiber, InBody
    <2>14. SpareState'
      BY <2>1, <2>2, <2>3, <2>4, <2>5, <2>6, <2>7, <2>8, <2>9
         DEF SpareState, Spare, Unclaimed, PickedUp, Running, At, OnFiber,
         InBody
    <2>15. CarriersDiffer'
      BY <2>1, <2>2, <2>3, <2>4, <2>5, <2>6, <2>7, <2>8, <2>9
         DEF CarriersDiffer, OnFiber, InBody
    <2>16. OneRunner'
      BY <2>1, <2>2, <2>3, <2>4, <2>5, <2>6, <2>7, <2>8, <2>9
         DEF OneRunner, Running, At, OnFiber, InBody
    <2>17. ParkedIsReachable'
      BY <2>1, <2>2, <2>3, <2>4, <2>5, <2>6, <2>7, <2>8, <2>9
         DEF ParkedIsReachable, PickedUp, At, OnFiber, InBody
    <2> QED
      BY <2>4, <2>10, <2>11, <2>12, <2>13, <2>14, <2>15, <2>16, <2>17
  <1>3. CASE SwitchTo(t)
    <2>7. \A u \in Threads : /\ pc[u] \in OnFiber => Running(u) \in Fibers
                            /\ ft[u].fiber \in Fibers \cup {None}
                            /\ cbFiber[u] \in Fibers \cup {None}
      BY RunningFiber DEF TypeOK, Entry
    <2>5. PICK f \in Fibers : f = Running(t) /\ f # None /\ t \in At(OnFiber)
      BY <1>3, RunningFiber DEF SwitchTo, At, OnFiber, InBody
    <2>1. \A u \in Threads \ {t} : pc'[u] = pc[u]
      BY <1>3 DEF SwitchTo, TypeOK
    <2>2. /\ pc[t] = "run" /\ pc'[t] = "parking" /\ UNCHANGED <<ft, cbFiber>>
      BY <1>3 DEF SwitchTo, poolVars, TypeOK
    <2>3. UNCHANGED <<fstate, waits>>
      BY <1>3, <2>5 DEF SwitchTo, poolVars, clientVars, TypeOK
    <2>6. Unclaimed(f) /\ fstate[f] = "EXEC"
      BY <2>2, <2>5 DEF RunningState
    <2>4. /\ QueueOnce'
          /\ \A g \in Fibers : Queued(g)' <=> Queued(g) \/ f = g
      <3>1. PICK q \in Pins : queue' = queue \o <<FiberEntry(f, q)>>
        BY <1>3, <2>5 DEF SwitchTo, Enqueue
      <3>2. FiberEntry(f, q) \in Entry /\ FiberEntry(f, q).fiber = f
        BY <2>5 DEF FiberEntry, Entry
      <3> QED BY <2>6, <3>1, <3>2, AppendClaims DEF Unclaimed
    <2>8. \A u \in Threads : Running(u)' = Running(u)
      BY <2>2 DEF Running
    <2>9. \A u \in Threads \ {t} : pc[u] \in OnFiber => Running(u) # f
      BY <2>5 DEF OneRunner, At
    <2>10. QueuedState'
      BY <2>1, <2>2, <2>3, <2>4, <2>5, <2>6, <2>7, <2>8, <2>9
         DEF QueuedState, Unclaimed, OnFiber, InBody
    <2>11. WaitState'
      BY <2>1, <2>2, <2>3, <2>4, <2>5, <2>6, <2>7, <2>8, <2>9
         DEF WaitState, Unclaimed, OnFiber, InBody
    <2>12. PickedState'
      BY <2>1, <2>2, <2>3, <2>4, <2>5, <2>6, <2>7, <2>8, <2>9
         DEF PickedState, PickedUp, Unclaimed, Running, At, OnFiber, InBody
    <2>13. RunningState'
      BY <2>1, <2>2, <2>3, <2>4, <2>5, <2>6, <2>7, <2>8, <2>9
         DEF RunningState, Unclaimed, Awaited, Running, At, OnFiber, InBody
    <2>14. SpareState'
      BY <2>1, <2>2, <2>3, <2>4, <2>5, <2>6, <2>7, <2>8, <2>9
         DEF SpareState, Spare, Unclaimed, PickedUp, Running, At, OnFiber,
         InBody
    <2>15. CarriersDiffer'
      BY <2>1, <2>2, <2>3, <2>4, <2>5, <2>6, <2>7, <2>8, <2>9
         DEF CarriersDiffer, OnFiber, InBody
    <2>16. OneRunner'
      BY <2>1, <2>2, <2>3, <2>4, <2>5, <2>6, <2>7, <2>8, <2>9
         DEF OneRunner, Running, At, OnFiber, InBody
    <2>17. ParkedIsReachable'
      BY <2>1, <2>2, <2>3, <2>4, <2>5, <2>6, <2>7, <2>8, <2>9
         DEF ParkedIsReachable, PickedUp, At, OnFiber, InBody
    <2> QED
      BY <2>4, <2>10, <2>11, <2>12, <2>13, <2>14, <2>15, <2>16, <2>17
  <1>4. CASE YieldToHold(t)
    <2>7. \A u \in Threads : /\ pc[u] \in OnFiber => Running(u) \in Fibers
                            /\ ft[u].fiber \in Fibers \cup {None}
                            /\ cbFiber[u] \in Fibers \cup {None}
      BY RunningFiber DEF TypeOK, Entry
    <2>5. PICK f \in Fibers : f = Running(t) /\ f # None /\ t \in At(OnFiber)
      BY <1>4, RunningFiber DEF YieldToHold, At, OnFiber, InBody
    <2>1. \A u \in Threads \ {t} : pc'[u] = pc[u]
      BY <1>4 DEF YieldToHold, TypeOK
    <2>2. /\ pc[t] = "parking" /\ pc'[t] = "swapped"
           /\ UNCHANGED <<ft, cbFiber>>
      BY <1>4 DEF YieldToHold, poolVars, TypeOK
    <2>3. UNCHANGED <<fstate, waits>>
      BY <1>4, <2>5 DEF YieldToHold, poolVars, clientVars, TypeOK
    <2>6. Awaited(f) /\ fstate[f] = "EXEC"
      BY <2>2, <2>5 DEF RunningState
    <2>4. QueueOnce' /\ \A g \in Fibers : Queued(g)' <=> Queued(g)
      BY <1>4 DEF YieldToHold, poolVars, QueueOnce, Queued
    <2>8. \A u \in Threads : Running(u)' = Running(u)
      BY <2>2 DEF Running
    <2>9. \A u \in Threads \ {t} : pc[u] \in OnFiber => Running(u) # f
      BY <2>5 DEF OneRunner, At
    <2>10. QueuedState'
      BY <2>1, <2>2, <2>3, <2>4, <2>5, <2>6, <2>7, <2>8, <2>9
         DEF QueuedState, Unclaimed, OnFiber, InBody
    <2>11. WaitState'
      BY <2>1, <2>2, <2>3, <2>4, <2>5, <2>6, <2>7, <2>8, <2>9
         DEF WaitState, Unclaimed, OnFiber, InBody
    <2>12. PickedState'
      BY <2>1, <2>2, <2>3, <2>4, <2>5, <2>6, <2>7, <2>8, <2>9
         DEF PickedState, PickedUp, Unclaimed, Running, At, OnFiber, InBody
    <2>13. RunningState'
      BY <2>1, <2>2, <2>3, <2>4, <2>5, <2>6, <2>7, <2>8, <2>9
         DEF RunningState, Unclaimed, Awaited, Running, At, OnFiber, InBody
    <2>14. SpareState'
      BY <2>1, <2>2, <2>3, <2>4, <2>5, <2>6, <2>7, <2>8, <2>9
         DEF SpareState, Spare, Unclaimed, PickedUp, Running, At, OnFiber,
         InBody
    <2>15. CarriersDiffer'
      BY <2>1, <2>2, <2>3, <2>4, <2>5, <2>6, <2>7, <2>8, <2>9
         DEF CarriersDiffer, OnFiber, InBody
    <2>16. OneRunner'
      BY <2>1, <2>2, <2>3, <2>4, <2>5, <2>6, <2>7, <2>8, <2>9
         DEF OneRunner, Running, At, OnFiber, InBody
    <2>17. ParkedIsReachable'
      BY <2>1, <2>2, <2>3, <2>4, <2>5, <2>6, <2>7, <2>8, <2>9
         DEF ParkedIsReachable, PickedUp, At, OnFiber, InBody
    <2> QED
      BY <2>4, <2>10, <2>11, <2>12, <2>13, <2>14, <2>15, <2>16, <2>17
  <1>5. CASE YieldToReady(t)
    <2>7. \A u \in Threads : /\ pc[u] \in OnFiber => Running(u) \in Fibers
                            /\ ft[u].fiber \in Fibers \cup {None}
                            /\ cbFiber[u] \in Fibers \cup {None}
      BY RunningFiber DEF TypeOK, Entry
    <2>5. PICK f \in Fibers : f = Running(t) /\ f # None /\ t \in At(OnFiber)
      BY <1>5, RunningFiber DEF YieldToReady, At, OnFiber, InBody
    <2>1. \A u \in Threads \ {t} : pc'[u] = pc[u]
      BY <1>5 DEF YieldToReady, TypeOK
    <2>2. /\ pc[t] = "run" /\ pc'[t] = "swapped" /\ UNCHANGED <<ft, cbFiber>>
      BY <1>5 DEF YieldToReady, poolVars, TypeOK
    <2>3. /\ UNCHANGED waits /\ fstate'[f] = "READY"
          /\ \A g \in Fibers : g # f => fstate'[g] = fstate[g]
      BY <1>5, <2>5 DEF YieldToReady, poolVars, clientVars, TypeOK
    <2>6. Unclaimed(f) /\ fstate[f] = "EXEC"
      BY <2>2, <2>5 DEF RunningState
    <2>4. QueueOnce' /\ \A g \in Fibers : Queued(g)' <=> Queued(g)
      BY <1>5 DEF YieldToReady, poolVars, QueueOnce, Queued
    <2>8. \A u \in Threads : Running(u)' = Running(u)
      BY <2>2 DEF Running
    <2>9. \A u \in Threads \ {t} : pc[u] \in OnFiber => Running(u) # f
      BY <2>5 DEF OneRunner, At
    <2>10. QueuedState'
      BY <2>1, <2>2, <2>3, <2>4, <2>5, <2>6, <2>7, <2>8, <2>9
         DEF QueuedState, Unclaimed, OnFiber, InBody
    <2>11. WaitState'
      BY <2>1, <2>2, <2>3, <2>4, <2>5, <2>6, <2>7, <2>8, <2>9
         DEF WaitState, Unclaimed, OnFiber, InBody
    <2>12. PickedState'
      BY <2>1, <2>2, <2>3, <2>4, <2>5, <2>6, <2>7, <2>8, <2>9
         DEF PickedState, PickedUp, Unclaimed, Running, At, OnFiber, InBody
    <2>13. RunningState'
      BY <2>1, <2>2, <2>3, <2>4, <2>5, <2>6, <2>7, <2>8, <2>9
         DEF RunningState, Unclaimed, Awaited, Running, At, OnFiber, InBody
    <2>14. SpareState'
      BY <2>1, <2>2, <2>3, <2>4, <2>5, <2>6, <2>7, <2>8, <2>9
         DEF SpareState, Spare, Unclaimed, PickedUp, Running, At, OnFiber,
         InBody
    <2>15. CarriersDiffer'
      BY <2>1, <2>2, <2>3, <2>4, <2>5, <2>6, <2>7, <2>8, <2>9
         DEF CarriersDiffer, OnFiber, InBody
    <2>16. OneRunner'
      BY <2>1, <2>2, <2>3, <2>4, <2>5, <2>6, <2>7, <2>8, <2>9
         DEF OneRunner, Running, At, OnFiber, InBody
    <2>17. ParkedIsReachable'
      BY <2>1, <2>2, <2>3, <2>4, <2>5, <2>6, <2>7, <2>8, <2>9
         DEF ParkedIsReachable, PickedUp, At, OnFiber, InBody
    <2> QED
      BY <2>4, <2>10, <2>11, <2>12, <2>13, <2>14, <2>15, <2>16, <2>17
  <1>6. CASE Return(t)
    <2>7. \A u \in Threads : /\ pc[u] \in OnFiber => Running(u) \in Fibers
                            /\ ft[u].fiber \in Fibers \cup {None}
                            /\ cbFiber[u] \in Fibers \cup {None}
      BY RunningFiber DEF TypeOK, Entry
    <2>5. PICK f \in Fibers : f = Running(t) /\ f # None /\ t \in At(OnFiber)
      BY <1>6, RunningFiber DEF Return, At, OnFiber, InBody
    <2>1. \A u \in Threads \ {t} : pc'[u] = pc[u]
      BY <1>6 DEF Return, TypeOK
    <2>2. /\ pc[t] = "run" /\ pc'[t] = "swapped" /\ UNCHANGED <<ft, cbFiber>>
      BY <1>6 DEF Return, poolVars, TypeOK
    <2>3. /\ UNCHANGED waits /\ fstate'[f] = "TERM"
          /\ \A g \in Fibers : g # f => fstate'[g] = fstate[g]
      BY <1>6, <2>5 DEF Return, poolVars, clientVars, TypeOK
    <2>6. Unclaimed(f) /\ fstate[f] = "EXEC"
      BY <2>2, <2>5 DEF RunningState
    <2>4. QueueOnce' /\ \A g \in Fibers : Queued(g)' <=> Queued(g)
      BY <1>6 DEF Return, poolVars, QueueOnce, Queued
    <2>8. \A u \in Threads : Running(u)' = Running(u)
      BY <2>2 DEF Running
    <2>9. \A u \in Threads \ {t} : pc[u] \in OnFiber => Running(u) # f
      BY <2>5 DEF OneRunner, At
    <2>10. QueuedState'
      BY <2>1, <2>2, <2>3, <2>4, <2>5, <2>6, <2>7, <2>8, <2>9
         DEF QueuedState, Unclaimed, OnFiber, InBody
    <2>11. WaitState'
      BY <2>1, <2>2, <2>3, <2>4, <2>5, <2>6, <2>7, <2>8, <2>9
         DEF WaitState, Unclaimed, OnFiber, InBody
    <2>12. PickedState'
      BY <2>1, <2>2, <2>3, <2>4, <2>5, <2>6, <2>7, <2>8, <2>9
         DEF PickedState, PickedUp, Unclaimed, Running, At, OnFiber, InBody
    <2>13. RunningState'
      BY <2>1, <2>2, <2>3, <2>4, <2>5, <2>6, <2>7, <2>8, <2>9
         DEF RunningState, Unclaimed, Awaited, Running, At, OnFiber, InBody
    <2>14. SpareState'
      BY <2>1, <2>2, <2>3, <2>4, <2>5, <2>6, <2>7, <2>8, <2>9
         DEF SpareState, Spare, Unclaimed, PickedUp, Running, At, OnFiber,
         InBody
    <2>15. CarriersDiffer'
      BY <2>1, <2>2, <2>3, <2>4, <2>5, <2>6, <2>7, <2>8, <2>9
         DEF CarriersDiffer, OnFiber, InBody
    <2>16. OneRunner'
      BY <2>1, <2>2, <2>3, <2>4, <2>5, <2>6, <2>7, <2>8, <2>9
         DEF OneRunner, Running, At, OnFiber, InBody
    <2>17. ParkedIsReachable'
      BY <2>1, <2>2, <2>3, <2>4, <2>5, <2>6, <2>7, <2>8, <2>9
         DEF ParkedIsReachable, PickedUp, At, OnFiber, InBody
    <2> QED
      BY <2>4, <2>10, <2>11, <2>12, <2>13, <2>14, <2>15, <2>16, <2>17
  <1>7. CASE Throw(t)
    <2>7. \A u \in Threads : /\ pc[u] \in OnFiber => Running(u) \in Fibers
                            /\ ft[u].fiber \in Fibers \cup {None}
                            /\ cbFiber[u] \in Fibers \cup {None}
      BY RunningFiber DEF TypeOK, Entry
    <2>5. PICK f \in Fibers : f = Running(t) /\ f # None /\ t \in At(OnFiber)
      BY <1>7, RunningFiber DEF Throw, At, OnFiber, InBody
    <2>1. \A u \in Threads \ {t} : pc'[u] = pc[u]
      BY <1>7 DEF Throw, TypeOK
    <2>2. /\ pc[t] = "run" /\ pc'[t] = "swapped" /\ UNCHANGED <<ft, cbFiber>>
      BY <1>7 DEF Throw, poolVars, TypeOK
    <2>3. /\ UNCHANGED waits /\ fstate'[f] = "EXCEPT"
          /\ \A g \in Fibers : g # f => fstate'[g] = fstate[g]
      BY <1>7, <2>5 DEF Throw, poolVars, clientVars, TypeOK
    <2>6. Unclaimed(f) /\ fstate[f] = "EXEC"
      BY <2>2, <2>5 DEF RunningState
    <2>4. QueueOnce' /\ \A g \in Fibers : Queued(g)' <=> Queued(g)
      BY <1>7 DEF Throw, poolVars, QueueOnce, Queued
    <2>8. \A u \in Threads : Running(u)' = Running(u)
      BY <2>2 DEF Running
    <2>9. \A u \in Threads \ {t} : pc[u] \in OnFiber => Running(u) # f
      BY <2>5 DEF OneRunner, At
    <2>10. QueuedState'
      BY <2>1, <2>2, <2>3, <2>4, <2>5, <2>6, <2>7, <2>8, <2>9
         DEF QueuedState, Unclaimed, OnFiber, InBody
    <2>11. WaitState'
      BY <2>1, <2>2, <2>3, <2>4, <2>5, <2>6, <2>7, <2>8, <2>9
         DEF WaitState, Unclaimed, OnFiber, InBody
    <2>12. PickedState'
      BY <2>1, <2>2, <2>3, <2>4, <2>5, <2>6, <2>7, <2>8, <2>9
         DEF PickedState, PickedUp, Unclaimed, Running, At, OnFiber, InBody
    <2>13. RunningState'
      BY <2>1, <2>2, <2>3, <2>4, <2>5, <2>6, <2>7, <2>8, <2>9
         DEF RunningState, Unclaimed, Awaited, Running, At, OnFiber, InBody
    <2>14. SpareState'
      BY <2>1, <2>2, <2>3, <2>4, <2>5, <2>6, <2>7, <2>8, <2>9
         DEF SpareState, Spare, Unclaimed, PickedUp, Running, At, OnFiber,
         InBody
    <2>15. CarriersDiffer'
      BY <2>1, <2>2, <2>3, <2>4, <2>5, <2>6, <2>7, <2>8, <2>9
         DEF CarriersDiffer, OnFiber, InBody
    <2>16. OneRunner'
      BY <2>1, <2>2, <2>3, <2>4, <2>5, <2>6, <2>7, <2>8, <2>9
         DEF OneRunner, Running, At, OnFiber, InBody
    <2>17. ParkedIsReachable'
      BY <2>1, <2>2, <2>3, <2>4, <2>5, <2>6, <2>7, <2>8, <2>9
         DEF ParkedIsReachable, PickedUp, At, OnFiber, InBody
    <2> QED
      BY <2>4, <2>10, <2>11, <2>12, <2>13, <2>14, <2>15, <2>16, <2>17
  <1> QED
    BY <1>1, <1>2, <1>3, <1>4, <1>5, <1>6, <1>7 DEF Body

-----------------------------------------------------------------------------
(* The owner.                                                              *)

LEMMA OwnerClaims ==
  ASSUME TypeInv, ClaimInv, OwnerSchedule \/ Start \/ OwnerStops
  PROVE  ClaimInv'
  <1>1. CASE OwnerSchedule
    BY <1>1, ScheduleClaims DEF OwnerSchedule, threadVars
  <1>2. CASE Start \/ OwnerStops
    <2>1. UNCHANGED <<queue, fstate, cbFiber, waits, ft>>
      BY <1>2 DEF Start, OwnerStops, StopBegin, StopRequest, StopCall,
                  StopResume, StopJoin, poolVars, clientVars, threadVars
    <2>2. \A t \in Threads : \/ pc'[t] = pc[t]
                             \/ pc[t] = "off" /\ pc'[t] = "pick"
      BY <1>2 DEF Start, OwnerStops, StopBegin, StopRequest, StopCall,
                  StopResume, StopJoin, threadVars, TypeInv, TypeOK,
                  OwnerPlaces, Threads
    <2>3. /\ \A f : Queued(f)' <=> Queued(f)
          /\ \A t : Running(t)' = Running(t)
          /\ At(OnFiber)' = At(OnFiber)
          /\ At({"dispatch"})' = At({"dispatch"})
          /\ \A t \in At(OnFiber) : pc'[t] = pc[t]
      BY <2>1, <2>2 DEF Queued, Running, At, OnFiber, InBody
    <2>4. \A t \in Threads : \A f : Spare(t, f)' <=> Spare(t, f)
      BY <2>1, <2>2 DEF Spare, OnFiber, InBody
    <2>5. \A f : /\ Unclaimed(f)' <=> Unclaimed(f)
                 /\ Awaited(f)' <=> Awaited(f)
                 /\ PickedUp(f)' <=> PickedUp(f)
      BY <2>1, <2>3 DEF Unclaimed, Awaited, PickedUp
    <2>6. QueueOnce' /\ QueuedState' /\ WaitState' /\ CarriersDiffer'
      BY <2>1, <2>3, <2>5
         DEF ClaimInv, QueueOnce, QueuedState, WaitState, CarriersDiffer
    <2>7. PickedState' /\ RunningState'
      BY <2>1, <2>3, <2>5 DEF ClaimInv, PickedState, RunningState
    <2>8. SpareState' /\ OneRunner' /\ ParkedIsReachable'
      BY <2>1, <2>3, <2>4, <2>5
         DEF ClaimInv, SpareState, OneRunner, ParkedIsReachable
    <2> QED BY <2>6, <2>7, <2>8 DEF ClaimInv
  <1> QED BY <1>1, <1>2

LEMMA NextClaims ==
  ASSUME MaxWaits <= 1, TypeInv, ClaimInv, [Next]_vars
  PROVE  ClaimInv'
  <1>1. CASE UNCHANGED vars
    <2>1. /\ UNCHANGED <<queue, fstate, waits, cbFiber, pc, ft>>
      BY <1>1 DEF vars, poolVars, threadVars, clientVars
    <2>2. QueueOnce' /\ \A f \in Fibers : Queued(f)' <=> Queued(f)
      BY <2>1 DEF ClaimInv, QueueOnce, Queued
    <2> QED BY <2>1, <2>2, SameClaims
  <1> QED BY <1>1, RunLoopClaims, BodyClaims, OwnerClaims DEF Next, Stopped

\* When a fiber waits for one wake-up at a time: it is never run by two
\* threads, the assertion of swapIn holds wherever run() evaluates it, and a
\* parked fiber stays known to somebody who will schedule it.
THEOREM FibersAreSafe ==
  ASSUME MaxWaits <= 1
  PROVE  Spec => [](OneRunner /\ SwapInAssert /\ ParkedIsReachable)
  <1>1. Init => TypeInv /\ ClaimInv
    BY InitTypeInv, InitClaims
  <1>2. TypeInv /\ ClaimInv /\ [Next]_vars => (TypeInv /\ ClaimInv)'
    BY NextTypeInv, NextClaims
  <1>3. ClaimInv => OneRunner /\ SwapInAssert /\ ParkedIsReachable
    BY DEF ClaimInv, SwapInAssert, PickedState
  <1> QED BY <1>1, <1>2, <1>3, PTL DEF Spec

-----------------------------------------------------------------------------
(* Fibers run where they were sent.  The entry of a fiber, on the list or  *)
(* in a thread's hands, carries the thread its last schedule() named,      *)
(* because nobody else holds a claim with which to schedule it again.      *)

QueuedPins ==
    \A i \in DOMAIN queue :
        queue[i].fiber # None => queue[i].thread = pin[queue[i].fiber]

PickedPins ==
    \A t \in At({"dispatch"}) :
        /\ ft[t].thread \in {AnyThread, t}
        /\ ft[t].fiber # None => ft[t].thread = pin[ft[t].fiber]

PinInv == QueuedPins /\ PickedPins /\ PinRespected

\* What a step may do: name a new thread for fibers that have no entry (S),
\* add entries that carry the thread named, pick an entry, and start a fiber
\* where it was sent.
LEMMA PinStep ==
  ASSUME TypeInv, PinInv, NEW S,
         \A g \in Fibers : g \in S \/ pin'[g] = pin[g],
         \A g \in Fibers : g \in S => ~Queued(g) /\ ~PickedUp(g),
         \A i \in DOMAIN queue' :
             \/ \E k \in DOMAIN queue : queue'[i] = queue[k]
             \/ queue'[i].fiber = None
             \/ queue'[i].thread = pin'[queue'[i].fiber],
         \A u \in Threads :
             pc'[u] = "dispatch" =>
               \/ pc[u] = "dispatch" /\ ft'[u] = ft[u]
               \/ \E k \in DOMAIN queue :
                    ft'[u] = queue[k] /\ Eligible(u, queue[k]),
         \A u \in Threads :
             pc'[u] = "run" =>
               \/ /\ pc[u] = "run" /\ Running(u)' = Running(u)
                  /\ Running(u) \notin S
               \/ pin'[Running(u)'] \in {AnyThread, u}
  PROVE  PinInv'
  <1>1. ASSUME NEW k \in DOMAIN queue, queue[k].fiber # None
        PROVE  queue[k].thread = pin'[queue[k].fiber]
    <2>1. queue[k].fiber \in Fibers /\ Queued(queue[k].fiber)
      <3>1. queue[k] \in Entry
        BY ElementOfSeq DEF TypeInv, TypeOK
      <3> QED BY <1>1, <3>1 DEF Entry, Queued
    <2> QED BY <1>1, <2>1 DEF PinInv, QueuedPins
  <1>2. QueuedPins'
    BY <1>1 DEF QueuedPins
  <1>3. PickedPins'
    <2> SUFFICES ASSUME NEW u \in Threads, pc'[u] = "dispatch"
                 PROVE  /\ ft'[u].thread \in {AnyThread, u}
                        /\ ft'[u].fiber # None =>
                             ft'[u].thread = pin'[ft'[u].fiber]
      BY DEF PickedPins, At
    <2>1. CASE pc[u] = "dispatch" /\ ft'[u] = ft[u]
      <3>1. /\ ft[u].thread \in {AnyThread, u}
            /\ ft[u].fiber # None => ft[u].thread = pin[ft[u].fiber]
        BY <2>1 DEF PinInv, PickedPins, At
      <3>2. ASSUME ft[u].fiber # None
            PROVE  ft[u].fiber \in Fibers /\ PickedUp(ft[u].fiber)
        BY <2>1, <3>2 DEF TypeInv, TypeOK, Entry, PickedUp, At
      <3> QED BY <2>1, <3>1, <3>2
    <2>2. ASSUME NEW k \in DOMAIN queue, ft'[u] = queue[k],
                 Eligible(u, queue[k])
          PROVE  /\ ft'[u].thread \in {AnyThread, u}
                 /\ ft'[u].fiber # None =>
                      ft'[u].thread = pin'[ft'[u].fiber]
      BY <1>1, <2>2 DEF Eligible
    <2> QED BY <2>1, <2>2
  <1>4. PinRespected'
    <2> SUFFICES ASSUME NEW u \in Threads, pc'[u] = "run"
                 PROVE  pin'[Running(u)'] \in {AnyThread, u}
      BY DEF PinRespected, At
    <2>1. pc[u] = "run" =>
            Running(u) \in Fibers /\ pin[Running(u)] \in {AnyThread, u}
      BY RunningFiber DEF PinInv, PinRespected, At, OnFiber, InBody
    <2> QED BY <2>1
  <1> QED BY <1>2, <1>3, <1>4 DEF PinInv

\* As above, when the step names no thread.
LEMMA PinKept ==
  ASSUME TypeInv, PinInv, UNCHANGED pin,
         \A i \in DOMAIN queue' :
             \/ \E k \in DOMAIN queue : queue'[i] = queue[k]
             \/ queue'[i].fiber = None,
         \A u \in Threads :
             pc'[u] = "dispatch" =>
               \/ pc[u] = "dispatch" /\ ft'[u] = ft[u]
               \/ \E k \in DOMAIN queue :
                    ft'[u] = queue[k] /\ Eligible(u, queue[k]),
         \A u \in Threads :
             pc'[u] = "run" =>
               \/ pc[u] = "run" /\ Running(u)' = Running(u)
               \/ pin[Running(u)'] \in {AnyThread, u}
  PROVE  PinInv'
  <1> DEFINE S == {}
  <1>1. /\ \A g \in Fibers : g \in S \/ pin'[g] = pin[g]
        /\ \A g \in Fibers : g \in S => ~Queued(g) /\ ~PickedUp(g)
        /\ \A u \in Threads : Running(u) \notin S
    OBVIOUS
  <1>2. \A i \in DOMAIN queue' :
             \/ \E k \in DOMAIN queue : queue'[i] = queue[k]
             \/ queue'[i].fiber = None
             \/ queue'[i].thread = pin'[queue'[i].fiber]
    OBVIOUS
  <1>3. \A u \in Threads :
             pc'[u] = "run" =>
               \/ /\ pc[u] = "run" /\ Running(u)' = Running(u)
                  /\ Running(u) \notin S
               \/ pin'[Running(u)'] \in {AnyThread, u}
    OBVIOUS
  <1> HIDE DEF S
  <1> QED BY <1>1, <1>2, <1>3, PinStep

LEMMA InitPins == Init => PinInv
  BY DEF Init, PinInv, QueuedPins, PickedPins, PinRespected, At

\* A fiber with a wake-up registered, or not made yet, has no entry and is
\* not in its body.
LEMMA SchedulePins ==
  ASSUME TypeInv, ClaimInv, PinInv, Schedule,
         UNCHANGED <<cbFiber, pc, ft>>
  PROVE  PinInv'
  <1>1. \A u \in Threads : Running(u)' = Running(u)
    BY DEF Running
  <1>7. ASSUME UNCHANGED pin,
               \A i \in DOMAIN queue' :
                 (\E k \in DOMAIN queue : queue'[i] = queue[k])
                 \/ queue'[i].fiber = None
        PROVE  PinInv'
    BY <1>1, <1>7, PinKept
  <1>2. ASSUME NEW j \in Jobs, NEW p \in Pins, SubmitCb(j, p) PROVE PinInv'
    <2>1. \A i \in DOMAIN queue' :
            (\E k \in DOMAIN queue : queue'[i] = queue[k])
            \/ queue'[i].fiber = None
      BY <1>2 DEF SubmitCb, Enqueue, CbEntry, TypeInv, TypeOK
    <2> QED BY <1>2, <1>7, <2>1 DEF SubmitCb
  <1>3. ASSUME NEW j \in Jobs, NEW k \in Jobs, SubmitBatch(j, k)
        PROVE  PinInv'
    <2>1. \A i \in DOMAIN queue' :
            (\E m \in DOMAIN queue : queue'[i] = queue[m])
            \/ queue'[i].fiber = None
      BY <1>3 DEF SubmitBatch, Enqueue, CbEntry, TypeInv, TypeOK
    <2> QED BY <1>3, <1>7, <2>1 DEF SubmitBatch
  <1>4. ASSUME NEW f \in Fibers, NEW p \in Pins,
               queue' = queue \o <<FiberEntry(f, p)>>,
               pin' = [pin EXCEPT ![f] = p],
               ~Queued(f), ~PickedUp(f),
               \A u \in At({"run"}) : Running(u) # f
        PROVE  PinInv'
    <2>1. \A g \in Fibers : g \in {f} \/ pin'[g] = pin[g]
      BY <1>4 DEF TypeInv, TypeOK
    <2>2. pin'[f] = p
      BY <1>4 DEF TypeInv, TypeOK
    <2>3. \A i \in DOMAIN queue' :
            \/ \E k \in DOMAIN queue : queue'[i] = queue[k]
            \/ queue'[i].thread = pin'[queue'[i].fiber]
      BY <1>4, <2>2 DEF FiberEntry, TypeInv, TypeOK
    <2>4. \A u \in Threads : pc'[u] = "run" =>
            /\ pc[u] = "run" /\ Running(u)' = Running(u)
            /\ Running(u) \notin {f}
      BY <1>1, <1>4 DEF At
    <2>5. \A g \in Fibers : g \in {f} => ~Queued(g) /\ ~PickedUp(g)
      BY <1>4
    <2> HIDE <1>4
    <2> QED BY <2>1, <2>3, <2>4, <2>5, PinStep
  <1>5. ASSUME NEW j \in Jobs, NEW p \in Pins, SubmitFiber(j, p)
        PROVE  PinInv'
    <2>1. PICK f \in Fibers : /\ fstate[f] = "FREE"
                              /\ pin' = [pin EXCEPT ![f] = p]
                              /\ queue' = queue \o <<FiberEntry(f, p)>>
      BY <1>5 DEF SubmitFiber, Enqueue
    <2>2. ~Queued(f)
      BY <2>1 DEF ClaimInv, WaitState, Unclaimed
    <2>3. ~PickedUp(f) /\ \A u \in At({"run"}) : Running(u) # f
      BY <2>1, NamesAssumption
         DEF ClaimInv, PickedState, PickedUp, RunningState, At, OnFiber,
             InBody
    <2> QED BY <1>4, <2>1, <2>2, <2>3
  <1>6. ASSUME NEW f \in Fibers, NEW p \in Pins, Wake(f, p)
        PROVE  PinInv'
    <2>1. /\ waits[f] > 0 /\ waits[f] # 0
          /\ pin' = [pin EXCEPT ![f] = p]
          /\ queue' = queue \o <<FiberEntry(f, p)>>
      BY <1>6 DEF Wake, Enqueue, TypeInv, TypeOK
    <2>2. ~Queued(f)
      BY <2>1 DEF ClaimInv, QueuedState
    <2>3. ~PickedUp(f) /\ \A u \in At({"run"}) : Running(u) # f
      BY <2>1, NamesAssumption
         DEF ClaimInv, PickedState, PickedUp, RunningState, Unclaimed, At,
             OnFiber, InBody
    <2> QED BY <1>4, <1>6, <2>1, <2>2, <2>3
  <1> QED BY <1>2, <1>3, <1>5, <1>6 DEF Schedule

\* The loop: a thread picks what it may, and starts what it picked.
LEMMA RunLoopPins ==
  ASSUME TypeInv, ClaimInv, NoReady, PinInv, NEW t \in Threads, RunLoop(t)
  PROVE  PinInv'
  <1> USE DEF TypeInv, TypeOK
  <1>1. CASE Pick(t)
    <2>1. PICK i \in DOMAIN queue :
            /\ Eligible(t, queue[i])
            /\ ft' = [ft EXCEPT ![t] = queue[i]]
            /\ queue' = RemoveAt(queue, i)
      BY <1>1 DEF Pick
    <2>2. /\ UNCHANGED <<pin, cbFiber>>
          /\ pc' = [pc EXCEPT ![t] = "dispatch"]
      BY <1>1 DEF Pick, historyVars
    <2>3. \A k \in DOMAIN queue' :
            \E m \in DOMAIN queue : queue'[k] = queue[m]
      <3>1. /\ Len(queue') = Len(queue) - 1 /\ queue' \in Seq(Entry)
            /\ \A k \in 1..(Len(queue) - 1) :
                 queue'[k] = IF k < i THEN queue[k] ELSE queue[k + 1]
        BY <2>1, RemoveAtProperties
      <3>2. /\ Len(queue) \in Nat /\ DOMAIN queue = 1..Len(queue)
            /\ DOMAIN queue' = 1..(Len(queue) - 1) /\ i \in 1..Len(queue)
        BY <3>1
      <3>3. ASSUME NEW k \in DOMAIN queue'
            PROVE  \E m \in DOMAIN queue : queue'[k] = queue[m]
        <4>1. /\ k \in DOMAIN queue /\ k + 1 \in DOMAIN queue
              /\ queue'[k] = queue[k] \/ queue'[k] = queue[k + 1]
          BY <3>1, <3>2
        <4> QED BY <4>1
      <3> QED BY <3>3
    <2>4. \A u \in Threads : pc'[u] = "run" =>
            pc[u] = "run" /\ Running(u)' = Running(u)
      BY <2>1, <2>2 DEF Running
    <2>5. \A u \in Threads : pc'[u] = "dispatch" =>
            \/ pc[u] = "dispatch" /\ ft'[u] = ft[u]
            \/ \E k \in DOMAIN queue :
                 ft'[u] = queue[k] /\ Eligible(u, queue[k])
      BY <2>1, <2>2
    <2> QED BY <2>2, <2>3, <2>4, <2>5, PinKept
  <1>2. CASE DispatchFiber(t)
    <2>1. /\ UNCHANGED <<queue, pin, ft, cbFiber>>
          /\ pc[t] = "dispatch" /\ ft[t].fiber # None
          /\ pc' = [pc EXCEPT ![t] = "run"]
      BY <1>2 DEF DispatchFiber, historyVars
    <2>2. pin[Running(t)] \in {AnyThread, t} /\ Running(t)' = Running(t)
      BY <2>1 DEF PinInv, PickedPins, At, Running
    <2>3. \A u \in Threads : pc'[u] = "run" =>
            \/ pc[u] = "run" /\ Running(u)' = Running(u)
            \/ pin[Running(u)'] \in {AnyThread, u}
      BY <2>1, <2>2 DEF Running
    <2> QED BY <2>1, <2>3, PinKept
  <1>3. CASE DispatchCb(t)
    <2>1. PICK f \in Fibers :
            /\ CarrierFor(t, f)
            /\ cbFiber' = [cbFiber EXCEPT ![t] = f]
            /\ pin' = [pin EXCEPT ![f] = ft[t].thread]
      BY <1>3 DEF DispatchCb
    <2>2. /\ pc[t] = "dispatch" /\ ft[t].cb # None
          /\ ft' = [ft EXCEPT ![t] = NoEntry]
          /\ pc' = [pc EXCEPT ![t] = "run"]
          /\ UNCHANGED queue
      BY <1>3 DEF DispatchCb
    <2>3. /\ ~Queued(f) /\ ~PickedUp(f)
          /\ \A u \in At({"run"}) : Running(u) # f
      <3>1. CASE cbFiber[t] # None
        <4>1. Spare(t, f)
          BY <2>1, <2>2, <3>1 DEF CarrierFor, Spare, OnFiber, InBody
        <4> QED
          BY <4>1 DEF ClaimInv, SpareState, Unclaimed, At, OnFiber, InBody
      <3>2. CASE cbFiber[t] = None
        <4>1. fstate[f] = "FREE"
          BY <2>1, <3>2 DEF CarrierFor
        <4>2. ~Queued(f)
          BY <4>1 DEF ClaimInv, WaitState, Unclaimed
        <4>3. ~PickedUp(f)
          <5>1. \A u \in At({"dispatch"}) :
                  ft[u].fiber # None => fstate[ft[u].fiber] # "FREE"
            BY DEF ClaimInv, PickedState
          <5>2. f # None
            BY NamesAssumption
          <5> QED BY <4>1, <5>1, <5>2 DEF PickedUp
        <4>4. \A u \in At({"run"}) : Running(u) # f
          BY <4>1 DEF ClaimInv, RunningState, At, OnFiber, InBody
        <4> QED BY <4>2, <4>3, <4>4
      <3> QED BY <3>1, <3>2
    <2>4. /\ Running(t)' = f /\ pin'[f] \in {AnyThread, t}
          /\ \A u \in Threads \ {t} : Running(u)' = Running(u)
      BY <2>1, <2>2 DEF Running, NoEntry, PinInv, PickedPins, At
    <2>5. \A g \in Fibers : g \in {f} \/ pin'[g] = pin[g]
      BY <2>1
    <2>6. \A u \in Threads : pc'[u] = "run" =>
            \/ /\ pc[u] = "run" /\ Running(u)' = Running(u)
               /\ Running(u) \notin {f}
            \/ pin'[Running(u)'] \in {AnyThread, u}
      BY <2>2, <2>3, <2>4 DEF At
    <2>7. \A g \in Fibers : g \in {f} => ~Queued(g) /\ ~PickedUp(g)
      BY <2>3
    <2>8. \A u \in Threads : pc'[u] = "dispatch" =>
            pc[u] = "dispatch" /\ ft'[u] = ft[u]
      BY <2>2
    <2> QED BY <2>2, <2>5, <2>6, <2>7, <2>8, PinStep
  <1>4. ~SettleReady(t)
    <2>1. ASSUME pc[t] = "settle" PROVE Running(t) \in Fibers
      BY <2>1, RunningFiber DEF OnFiber
    <2> QED BY <2>1 DEF SettleReady, NoReady
  <1>5. CASE \/ PickNothing(t) \/ Idle(t) \/ DispatchEnded(t) \/ SwapBack(t)
             \/ SettleEnded(t) \/ SettleHold(t)
    <2>1. UNCHANGED <<queue, pin>>
      BY <1>5 DEF PickNothing, Idle, DispatchEnded, SwapBack, SettleEnded,
                  SettleHold, Release, poolVars, historyVars
    <2>2. /\ pc'[t] \notin {"run", "dispatch"}
          /\ \A u \in Threads \ {t} : /\ pc'[u] = pc[u] /\ ft'[u] = ft[u]
                                      /\ cbFiber'[u] = cbFiber[u]
      BY <1>5 DEF PickNothing, Idle, DispatchEnded, SwapBack, SettleEnded,
                  SettleHold, Release, poolVars
    <2>3. \A u \in Threads \ {t} : Running(u)' = Running(u)
      BY <2>2 DEF Running
    <2> QED BY <2>1, <2>2, <2>3, PinKept
  <1> QED BY <1>1, <1>2, <1>3, <1>4, <1>5 DEF RunLoop

LEMMA BodyPins ==
  ASSUME TypeInv, ClaimInv, PinInv, NEW t \in Threads, Body(t)
  PROVE  PinInv'
  <1> USE DEF TypeInv, TypeOK
  <1>1. CASE BodySchedule(t)
    BY <1>1, SchedulePins DEF BodySchedule, threadVars
  <1>2. CASE SwitchTo(t)
    <2>1. PICK p \in Pins :
            /\ queue' = queue \o <<FiberEntry(Running(t), p)>>
            /\ pin' = [pin EXCEPT ![Running(t)] = p]
      BY <1>2 DEF SwitchTo, Enqueue
    <2>2. /\ pc[t] = "run" /\ pc' = [pc EXCEPT ![t] = "parking"]
          /\ UNCHANGED <<ft, cbFiber>>
      BY <1>2 DEF SwitchTo
    <2> DEFINE f == Running(t)
    <2>3. f \in Fibers /\ t \in At(OnFiber) /\ t \in At({"run"})
      BY <2>2, RunningFiber DEF OnFiber, InBody, At
    <2>4. ~Queued(f) /\ ~PickedUp(f)
      <3>1. ~Queued(f)
        BY <2>2, <2>3 DEF ClaimInv, RunningState, Unclaimed
      <3>2. \A u \in At({"dispatch"}) :
              ft[u].fiber # None => f # ft[u].fiber
        BY <2>3 DEF ClaimInv, PickedState
      <3>3. f # None
        BY <2>3, NamesAssumption
      <3> QED BY <3>1, <3>2, <3>3 DEF PickedUp
    <2>5. \A u \in Threads : pc'[u] = "run" =>
            /\ pc[u] = "run" /\ Running(u)' = Running(u)
            /\ Running(u) \notin {f}
      BY <2>2, <2>3 DEF Running, ClaimInv, OneRunner, At, OnFiber, InBody
    <2> HIDE DEF f
    <2>6. /\ queue' = queue \o <<FiberEntry(f, p)>>
          /\ pin' = [pin EXCEPT ![f] = p]
      BY <2>1 DEF f
    <2>7. \A i \in DOMAIN queue' :
            \/ \E k \in DOMAIN queue : queue'[i] = queue[k]
            \/ queue'[i].thread = pin'[queue'[i].fiber]
      BY <2>3, <2>6 DEF FiberEntry
    <2>8. \A g \in Fibers : g \in {f} \/ pin'[g] = pin[g]
      BY <2>6
    <2>9. \A g \in Fibers : g \in {f} => ~Queued(g) /\ ~PickedUp(g)
      BY <2>4
    <2>10. \A u \in Threads : pc'[u] = "dispatch" =>
             pc[u] = "dispatch" /\ ft'[u] = ft[u]
      BY <2>2
    <2> HIDE <2>6
    <2> QED BY <2>5, <2>7, <2>8, <2>9, <2>10, PinStep
  <1>3. CASE \/ Register(t) \/ YieldToHold(t) \/ YieldToReady(t)
             \/ Return(t) \/ Throw(t)
    <2>1. UNCHANGED <<queue, pin, ft, cbFiber>>
      BY <1>3 DEF Register, YieldToHold, YieldToReady, Return, Throw,
                  poolVars, historyVars
    <2>2. /\ pc'[t] \notin {"run", "dispatch"}
          /\ \A u \in Threads \ {t} : pc'[u] = pc[u]
      BY <1>3 DEF Register, YieldToHold, YieldToReady, Return, Throw
    <2>3. \A u \in Threads : Running(u)' = Running(u)
      BY <2>1 DEF Running
    <2> QED BY <2>1, <2>2, <2>3, PinKept
  <1> QED BY <1>1, <1>2, <1>3 DEF Body

LEMMA OwnerPins ==
  ASSUME TypeInv, ClaimInv, PinInv, OwnerSchedule \/ Start \/ OwnerStops
  PROVE  PinInv'
  <1>1. CASE OwnerSchedule
    BY <1>1, SchedulePins DEF OwnerSchedule, threadVars
  <1>2. CASE Start \/ OwnerStops
    <2>1. UNCHANGED <<queue, cbFiber, pin, ft>>
      BY <1>2 DEF Start, OwnerStops, StopBegin, StopRequest, StopCall,
                  StopResume, StopJoin, poolVars, historyVars, threadVars
    <2>2. \A u \in Threads : pc'[u] \in {"run", "dispatch"} => pc'[u] = pc[u]
      BY <1>2 DEF Start, OwnerStops, StopBegin, StopRequest, StopCall,
                  StopResume, StopJoin, threadVars, TypeInv, TypeOK
    <2>3. \A u \in Threads : Running(u)' = Running(u)
      BY <2>1 DEF Running
    <2> QED BY <2>1, <2>2, <2>3, PinKept
  <1> QED BY <1>1, <1>2

\* When no body yields READY and a fiber waits for one wake-up at a time, a
\* fiber runs where the schedule() that made it runnable sent it.  (A READY
\* fiber is put back on the list for any thread, whatever switchTo() said.)
THEOREM FibersRunWhereSent ==
  ASSUME ~AllowReady, MaxWaits <= 1
  PROVE  Spec => []PinRespected
  <1> DEFINE Inv == QuietInv /\ ClaimInv /\ PinInv
  <1>1. Init => Inv
    BY InitQuiet, InitClaims, InitPins
  <1>2. ASSUME Inv, [Next]_vars PROVE Inv'
    <2>1. QuietInv' /\ ClaimInv' /\ TypeInv /\ NoReady
      BY <1>2, NextQuiet, NextClaims DEF QuietInv
    <2>2. CASE UNCHANGED vars
      <3>1. UNCHANGED <<queue, pin, ft, cbFiber, pc>>
        BY <2>2 DEF vars, poolVars, threadVars, historyVars
      <3>2. \A u \in Threads : Running(u)' = Running(u)
        BY <3>1 DEF Running
      <3> QED BY <1>2, <2>1, <3>1, <3>2, PinKept
    <2>3. CASE Next
      BY <1>2, <2>1, <2>2, <2>3, RunLoopPins, BodyPins, OwnerPins
         DEF Next, Stopped
    <2> QED BY <1>2, <2>1, <2>2, <2>3
  <1>3. Inv => PinRespected
    BY DEF PinInv
  <1> QED BY <1>1, <1>2, <1>3, PTL DEF Spec
=============================================================================
