-------------------------- MODULE SchedulerProofs --------------------------
(***************************************************************************)
(* Theorems about Scheduler, for every set of workers, fibers and          *)
(* functions.  The first part proves the types and the two counters, the   *)
(* second that stopping() is final for bodies that do not YieldToReady,    *)
(* the third that then no task waits for a thread that has left its loop.  *)
(***************************************************************************)
EXTENDS Scheduler, FiniteSetTheorems, SequenceTheorems, TLAPS

\* The pool has finitely many threads.
LEMMA ThreadsFinite == IsFiniteSet(Threads)
  BY ThreadsAssumption, FS_AddElement, FS_EmptySet, FS_Union, FS_Singleton
     DEF Threads

\* What RemoveAt, the erase() of the pick, leaves of a sequence.
LEMMA RemoveAtProperties ==
  ASSUME NEW S, NEW s \in Seq(S), NEW i \in DOMAIN s
  PROVE  /\ RemoveAt(s, i) \in Seq(S)
         /\ Len(RemoveAt(s, i)) = Len(s) - 1
         /\ \A k \in 1..(Len(s) - 1) :
              RemoveAt(s, i)[k] = IF k < i THEN s[k] ELSE s[k + 1]
  <1> DEFINE a == SubSeq(s, 1, i - 1)
             b == SubSeq(s, i + 1, Len(s))
  <1>1. /\ Len(s) \in Nat /\ i \in 1..Len(s)
        /\ \A k \in 1..Len(s) : s[k] \in S
    OBVIOUS
  <1>2. /\ a \in Seq(S) /\ Len(a) = i - 1
        /\ \A k \in 1..(i - 1) : a[k] = s[k]
    BY <1>1
  <1>3. /\ b \in Seq(S) /\ Len(b) = Len(s) - i
        /\ \A k \in 1..(Len(s) - i) : b[k] = s[i + k]
    BY <1>1
  <1>4. RemoveAt(s, i) = a \o b
    BY DEF RemoveAt
  <1> HIDE DEF a, b
  <1>5. /\ a \o b \in Seq(S) /\ Len(a \o b) = Len(a) + Len(b)
        /\ \A k \in 1..(Len(a) + Len(b)) :
             (a \o b)[k] = IF k <= Len(a) THEN a[k] ELSE b[k - Len(a)]
    BY <1>2, <1>3, ConcatProperties
  <1>6. Len(RemoveAt(s, i)) = Len(s) - 1
    BY <1>1, <1>2, <1>3, <1>4, <1>5
  <1>7. ASSUME NEW k \in 1..(Len(s) - 1)
        PROVE  RemoveAt(s, i)[k] = IF k < i THEN s[k] ELSE s[k + 1]
    <2>1. CASE k < i
      BY <2>1, <1>1, <1>2, <1>3, <1>4, <1>5
    <2>2. CASE ~(k < i)
      <3>1. k - Len(a) \in 1..(Len(s) - i) /\ ~(k <= Len(a))
        BY <2>2, <1>1, <1>2
      <3>2. b[k - Len(a)] = s[i + (k - Len(a))]
        BY <3>1, <1>3
      <3>3. i + (k - Len(a)) = k + 1
        BY <1>1, <1>2
      <3>4. (a \o b)[k] = b[k - Len(a)]
        <4>1. k \in 1..(Len(a) + Len(b))
          BY <1>1, <1>2, <1>3
        <4> QED BY <4>1, <3>1, <1>5
      <3> QED BY <2>2, <3>2, <3>3, <3>4, <1>4
    <2> QED BY <2>1, <2>2
  <1> QED BY <1>4, <1>5, <1>6, <1>7

\* What one thread's step does to the set of threads at some places of run().
LEMMA CountStep ==
  ASSUME NEW S, NEW t \in Threads, NEW v,
         pc \in [Threads -> PcValues], pc' = [pc EXCEPT ![t] = v]
  PROVE  /\ Cardinality(At(S)) \in Nat
         /\ (pc[t] \in S <=> v \in S) => At(S)' = At(S)
         /\ pc[t] \notin S /\ v \in S
              => Cardinality(At(S)') = Cardinality(At(S)) + 1
         /\ pc[t] \in S /\ v \notin S
              => /\ Cardinality(At(S)') = Cardinality(At(S)) - 1
                 /\ Cardinality(At(S)) # 0
  <1>1. IsFiniteSet(At(S)) /\ Cardinality(At(S)) \in Nat
    BY ThreadsFinite, FS_Subset, FS_CardinalityType DEF At
  <1>2. ASSUME pc[t] \in S <=> v \in S PROVE At(S)' = At(S)
    BY <1>2 DEF At
  <1>3. ASSUME pc[t] \notin S, v \in S
        PROVE  Cardinality(At(S)') = Cardinality(At(S)) + 1
    <2>1. At(S)' = At(S) \cup {t} /\ t \notin At(S)
      BY <1>3 DEF At
    <2> QED BY <2>1, <1>1, FS_AddElement
  <1>4. ASSUME pc[t] \in S, v \notin S
        PROVE  /\ Cardinality(At(S)') = Cardinality(At(S)) - 1
               /\ Cardinality(At(S)) # 0
    <2>1. At(S)' = At(S) \ {t} /\ t \in At(S)
      BY <1>4 DEF At
    <2> QED BY <2>1, <1>1, FS_RemoveElement, FS_EmptySet
  <1> QED BY <1>1, <1>2, <1>3, <1>4

-----------------------------------------------------------------------------
(* Types and counters.  The decrements need the counters to be exact, and  *)
(* the history of finished functions that a thread in a body has a fiber.  *)

HasFiber == \A t \in At(OnFiber) : Running(t) # None

\* Who has not entered the loop yet: start() and stop() put threads at its
\* top, and count on their not being elsewhere.
OwnerPlaces ==
    /\ owner = "setup" => \A t \in Threads : pc[t] = "off"
    /\ UseCaller /\ owner \in {"setup", "up", "halting", "check"}
         => pc[Caller] = "off"

TypeInv == TypeOK /\ CountersExact /\ HasFiber /\ OwnerPlaces

LEMMA InitTypeInv == Init => TypeInv
  <1> SUFFICES ASSUME Init PROVE TypeInv
    OBVIOUS
  <1>1. TypeOK
    <2>1. NoEntry \in Entry
      BY DEF NoEntry, Entry
    <2>2. queue \in Seq(Entry) /\ ft \in [Threads -> Entry]
      BY <2>1 DEF Init
    <2>3. pc \in [Threads -> PcValues] /\ owner \in OwnerValues
      BY DEF Init, PcValues, OwnerValues
    <2> QED BY <2>2, <2>3 DEF Init, TypeOK
  <1>2. At(Busy) = {} /\ At({"idle"}) = {} /\ At(OnFiber) = {}
    BY DEF Init, At, Busy, InBody, OnFiber
  <1> QED
    BY <1>1, <1>2, FS_EmptySet
       DEF Init, TypeInv, CountersExact, HasFiber, OwnerPlaces, Threads

\* schedule() keeps the list and the fibers well formed.
LEMMA ScheduleType ==
  ASSUME TypeOK, Schedule
  PROVE  /\ queue' \in Seq(Entry)
         /\ fstate' \in [Fibers -> FiberState \cup {"FREE"}]
         /\ cbOf' \in [Fibers -> Jobs \cup {None}]
         /\ waits' \in [Fibers -> Nat]
         /\ submitted' \subseteq Jobs
         /\ pin' \in [Fibers -> Threads \cup {AnyThread}]
  <1> USE NamesAssumption DEF TypeOK
  <1>1. \A e \in Entry : queue \o <<e>> \in Seq(Entry)
    OBVIOUS
  <1>2. \A d, e \in Entry : queue \o <<d, e>> \in Seq(Entry)
    OBVIOUS
  <1>3. /\ \A j \in Jobs, p \in Pins : CbEntry(j, p) \in Entry
        /\ \A j \in Jobs : CbEntry(j, AnyThread) \in Entry
        /\ \A f \in Fibers, p \in Pins : FiberEntry(f, p) \in Entry
    BY DEF Entry, CbEntry, FiberEntry
  <1>4. ASSUME NEW j \in Jobs, NEW p \in Pins, SubmitCb(j, p), UNCHANGED waits
        PROVE  /\ queue' \in Seq(Entry)
               /\ UNCHANGED <<fstate, cbOf, pin>>
               /\ submitted' \subseteq Jobs
    BY <1>1, <1>3, <1>4 DEF SubmitCb, Enqueue
  <1>5. ASSUME NEW j \in Jobs, NEW p \in Pins, SubmitFiber(j, p),
               UNCHANGED waits
        PROVE  /\ queue' \in Seq(Entry)
               /\ fstate' \in [Fibers -> FiberState \cup {"FREE"}]
               /\ cbOf' \in [Fibers -> Jobs \cup {None}]
               /\ submitted' \subseteq Jobs
               /\ pin' \in [Fibers -> Threads \cup {AnyThread}]
    BY <1>1, <1>3, <1>5 DEF SubmitFiber, Enqueue, FiberState
  <1>6. ASSUME NEW j \in Jobs, NEW k \in Jobs, SubmitBatch(j, k),
               UNCHANGED waits
        PROVE  /\ queue' \in Seq(Entry)
               /\ UNCHANGED <<fstate, cbOf, pin>>
               /\ submitted' \subseteq Jobs
    BY <1>2, <1>3, <1>6 DEF SubmitBatch, Enqueue
  <1>7. ASSUME NEW f \in Fibers, NEW p \in Pins, Wake(f, p)
        PROVE  /\ queue' \in Seq(Entry)
               /\ UNCHANGED <<fstate, cbOf, submitted>>
               /\ waits' \in [Fibers -> Nat]
               /\ pin' \in [Fibers -> Threads \cup {AnyThread}]
    BY <1>1, <1>3, <1>7 DEF Wake, Enqueue
  <1> QED BY <1>4, <1>5, <1>6, <1>7 DEF Schedule

\* The counters stay exact when a step changes them as it changes the
\* places they count.
LEMMA CountersStep ==
  ASSUME TypeOK, CountersExact, NEW t \in Threads, NEW v,
         pc' = [pc EXCEPT ![t] = v],
         active' = IF pc[t] \in Busy
                     THEN IF v \in Busy THEN active ELSE active - 1
                     ELSE IF v \in Busy THEN active + 1 ELSE active,
         idleCount' = IF pc[t] = "idle"
                        THEN IF v = "idle" THEN idleCount ELSE idleCount - 1
                        ELSE IF v = "idle" THEN idleCount + 1 ELSE idleCount
  PROVE  CountersExact' /\ active' \in Nat /\ idleCount' \in Nat
  <1>1. /\ Cardinality(At(Busy)) \in Nat
        /\ (pc[t] \in Busy <=> v \in Busy) => At(Busy)' = At(Busy)
        /\ pc[t] \notin Busy /\ v \in Busy
             => Cardinality(At(Busy)') = Cardinality(At(Busy)) + 1
        /\ pc[t] \in Busy /\ v \notin Busy
             => /\ Cardinality(At(Busy)') = Cardinality(At(Busy)) - 1
                /\ Cardinality(At(Busy)) # 0
    BY CountStep DEF TypeOK
  <1> DEFINE I == {"idle"}
  <1>2. /\ Cardinality(At(I)) \in Nat
        /\ (pc[t] \in I <=> v \in I) => At(I)' = At(I)
        /\ pc[t] \notin I /\ v \in I
             => Cardinality(At(I)') = Cardinality(At(I)) + 1
        /\ pc[t] \in I /\ v \notin I
             => /\ Cardinality(At(I)') = Cardinality(At(I)) - 1
                /\ Cardinality(At(I)) # 0
    BY CountStep DEF TypeOK
  <1>3. /\ active = Cardinality(At(Busy)) /\ idleCount = Cardinality(At(I))
        /\ pc[t] \in I <=> pc[t] = "idle"
        /\ v \in I <=> v = "idle"
    BY DEF CountersExact
  <1>4. /\ active' = Cardinality(At(Busy)') /\ active' \in Nat
    BY <1>1, <1>3
  <1>5. /\ idleCount' = Cardinality(At(I)') /\ idleCount' \in Nat
    BY <1>2, <1>3
  <1> QED BY <1>4, <1>5 DEF CountersExact

\* Only t's own pointers say which fiber t is in.
LEMMA HasFiberStep ==
  ASSUME TypeOK, HasFiber, NEW t \in Threads, NEW v,
         pc' = [pc EXCEPT ![t] = v],
         \A u \in Threads \ {t} : ft'[u] = ft[u] /\ cbFiber'[u] = cbFiber[u],
         v \in OnFiber => Running(t)' # None
  PROVE  HasFiber'
  <1> SUFFICES ASSUME NEW u \in Threads, pc'[u] \in OnFiber
               PROVE  Running(u)' # None
    BY DEF HasFiber, At
  <1>1. CASE u = t
    BY <1>1 DEF TypeOK
  <1>2. CASE u # t
    BY <1>2 DEF TypeOK, HasFiber, At, Running
  <1> QED BY <1>1, <1>2

\* As above, when the step leaves the pointers alone.
LEMMA HasFiberKept ==
  ASSUME TypeOK, HasFiber, NEW t \in Threads, NEW v,
         pc' = [pc EXCEPT ![t] = v], UNCHANGED <<ft, cbFiber>>,
         pc[t] \in OnFiber \/ v \notin OnFiber
  PROVE  HasFiber'
  BY DEF TypeOK, HasFiber, At, Running

\* A step of a thread that is in the loop does not concern OwnerPlaces.
LEMMA OwnerPlacesStep ==
  ASSUME TypeOK, OwnerPlaces, NEW t \in Threads, NEW v, pc[t] # "off",
         pc' = [pc EXCEPT ![t] = v], UNCHANGED owner
  PROVE  OwnerPlaces'
  BY DEF TypeOK, OwnerPlaces

\* A thread in a body, or coming out of one, has a fiber object.
LEMMA RunningFiber ==
  ASSUME TypeInv, NEW t \in Threads, pc[t] \in OnFiber
  PROVE  Running(t) \in Fibers
  BY NamesAssumption
     DEF TypeInv, TypeOK, HasFiber, At, Running, Entry

\* Every step of the loop keeps the types and the counters.
LEMMA RunLoopTypeInv ==
  ASSUME TypeInv, NEW t \in Threads, RunLoop(t)
  PROVE  TypeInv'
  <1> USE DEF TypeInv
  <1> USE NamesAssumption DEF TypeOK, PcValues, Busy, InBody, OnFiber
  <1>1. CASE Pick(t)
    <2>8. pc' = [pc EXCEPT ![t] = "dispatch"]
      BY <1>1 DEF Pick
    <2>9. CountersExact' /\ active' \in Nat /\ idleCount' \in Nat
      BY <1>1, <2>8, CountersStep DEF Pick, countVars
    <2>1. PICK i \in DOMAIN queue :
            /\ ft' = [ft EXCEPT ![t] = queue[i]]
            /\ queue' = RemoveAt(queue, i)
      BY <1>1 DEF Pick
    <2>2. queue' \in Seq(Entry) /\ queue[i] \in Entry
      BY <2>1, RemoveAtProperties, ElementOfSeq
    <2>3. TypeOK'
      BY <1>1, <2>1, <2>2, <2>9
         DEF Pick, poolVars, stopVars, clientVars, historyVars
    <2>4. HasFiber'
      BY <1>1, <2>8, HasFiberStep
         DEF Pick, Running, NoEntry, poolVars
    <2>6. OwnerPlaces'
      BY <1>1, <2>8, OwnerPlacesStep DEF Pick
    <2> QED BY <2>3, <2>4, <2>6, <2>9
  <1>2. CASE PickNothing(t)
    <2> DEFINE v == IF idleTerm[t] THEN "exited" ELSE "idle"
    <2>8. pc' = [pc EXCEPT ![t] = v]
      BY <1>2 DEF PickNothing
    <2>9. CountersExact' /\ active' \in Nat /\ idleCount' \in Nat
      BY <1>2, <2>8, CountersStep DEF PickNothing, countVars
    <2>3. TypeOK'
      BY <1>2, <2>8, <2>9
         DEF PickNothing, Entry, NoEntry, FiberState, poolVars, countVars,
         stopVars, clientVars, historyVars
    <2>4. HasFiber'
      BY <1>2, <2>8, HasFiberStep
         DEF PickNothing, Running, NoEntry, poolVars
    <2>6. OwnerPlaces'
      BY <1>2, <2>8, OwnerPlacesStep DEF PickNothing
    <2> QED BY <2>3, <2>4, <2>6, <2>9
  <1>3. CASE Idle(t)
    <2>8. pc' = [pc EXCEPT ![t] = "pick"]
      BY <1>3 DEF Idle
    <2>9. CountersExact' /\ active' \in Nat /\ idleCount' \in Nat
      BY <1>3, <2>8, CountersStep DEF Idle, countVars
    <2>1. Stopping \in BOOLEAN
      BY DEF Stopping
    <2>3. TypeOK'
      BY <1>3, <2>1, <2>8, <2>9
         DEF Idle, poolVars, countVars, stopVars, clientVars, historyVars
    <2>4. HasFiber'
      BY <1>3, <2>8, HasFiberStep
         DEF Idle, Running, NoEntry, poolVars
    <2>6. OwnerPlaces'
      BY <1>3, <2>8, OwnerPlacesStep DEF Idle
    <2> QED BY <2>3, <2>4, <2>6, <2>9
  <1>4. CASE DispatchFiber(t)
    <2>8. pc' = [pc EXCEPT ![t] = "run"]
      BY <1>4 DEF DispatchFiber
    <2>9. CountersExact' /\ active' \in Nat /\ idleCount' \in Nat
      BY <1>4, <2>8, CountersStep DEF DispatchFiber, countVars
    <2>3. TypeOK'
      BY <1>4, <2>8, <2>9
         DEF DispatchFiber, Entry, NoEntry, FiberState, poolVars, countVars,
         stopVars, clientVars, historyVars
    <2>4. HasFiber'
      BY <1>4, <2>8, HasFiberStep
         DEF DispatchFiber, Running, NoEntry, poolVars
    <2>6. OwnerPlaces'
      BY <1>4, <2>8, OwnerPlacesStep DEF DispatchFiber
    <2> QED BY <2>3, <2>4, <2>6, <2>9
  <1>5. CASE DispatchCb(t)
    <2>8. pc' = [pc EXCEPT ![t] = "run"]
      BY <1>5 DEF DispatchCb
    <2>9. CountersExact' /\ active' \in Nat /\ idleCount' \in Nat
      BY <1>5, <2>8, CountersStep DEF DispatchCb, countVars
    <2>10. PICK f \in Fibers :
             /\ fstate' = [fstate EXCEPT ![f] = "EXEC"]
             /\ cbOf' = [cbOf EXCEPT ![f] = ft[t].cb]
             /\ cbFiber' = [cbFiber EXCEPT ![t] = f]
             /\ pin' = [pin EXCEPT ![f] = ft[t].thread]
      BY <1>5 DEF DispatchCb
    <2>11. /\ ft[t].cb \in Jobs \cup {None}
           /\ ft[t].thread \in Threads \cup {AnyThread}
           /\ NoEntry \in Entry
      BY DEF Entry, NoEntry
    <2>12. /\ ft' = [ft EXCEPT ![t] = NoEntry]
           /\ UNCHANGED <<queue, active, idleCount, stopping, autoStop,
                          idleTerm, owner, waits, suspends, submitted,
                          finished>>
      BY <1>5, <2>9 DEF DispatchCb, countVars, stopVars, clientVars
    <2>3. TypeOK'
      BY <2>8, <2>9, <2>10, <2>11, <2>12 DEF FiberState
    <2>1. Running(t)' \in Fibers
      BY <2>10, <2>12 DEF Running, NoEntry
    <2>4. HasFiber'
      <3>1. \A u \in Threads \ {t} :
              ft'[u] = ft[u] /\ cbFiber'[u] = cbFiber[u]
        BY <2>10, <2>12
      <3>2. Running(t)' # None
        BY <2>1
      <3> QED BY <2>8, <3>1, <3>2, HasFiberStep
    <2>6. OwnerPlaces'
      BY <1>5, <2>8, OwnerPlacesStep DEF DispatchCb
    <2> QED BY <2>3, <2>4, <2>6, <2>9
  <1>6. CASE DispatchEnded(t)
    <2>8. pc' = [pc EXCEPT ![t] = "pick"]
      BY <1>6 DEF DispatchEnded
    <2>9. CountersExact' /\ active' \in Nat /\ idleCount' \in Nat
      BY <1>6, <2>8, CountersStep DEF DispatchEnded, countVars
    <2>3. TypeOK'
      BY <1>6, <2>8, <2>9
         DEF DispatchEnded, Entry, NoEntry, FiberState, poolVars, countVars,
         stopVars, clientVars, historyVars
    <2>4. HasFiber'
      BY <1>6, <2>8, HasFiberStep
         DEF DispatchEnded, Running, NoEntry, poolVars
    <2>6. OwnerPlaces'
      BY <1>6, <2>8, OwnerPlacesStep DEF DispatchEnded
    <2> QED BY <2>3, <2>4, <2>6, <2>9
  <1>7. CASE SwapBack(t)
    <2>8. pc' = [pc EXCEPT ![t] = "settle"]
      BY <1>7 DEF SwapBack
    <2>9. CountersExact' /\ active' \in Nat /\ idleCount' \in Nat
      BY <1>7, <2>8, CountersStep DEF SwapBack, countVars
    <2>3. TypeOK'
      BY <1>7, <2>8, <2>9
         DEF SwapBack, Entry, NoEntry, FiberState, poolVars, countVars,
         stopVars, clientVars, historyVars
    <2>1. Running(t) # None /\ Running(t)' = Running(t)
      BY <1>7 DEF SwapBack, HasFiber, At, Running, poolVars
    <2>4. HasFiber'
      BY <1>7, <2>1, <2>8, HasFiberStep DEF SwapBack, poolVars
    <2>6. OwnerPlaces'
      BY <1>7, <2>8, OwnerPlacesStep DEF SwapBack
    <2> QED BY <2>3, <2>4, <2>6, <2>9
  <1>8. CASE SettleReady(t)
    <2>8. pc' = [pc EXCEPT ![t] = "pick"]
      BY <1>8 DEF SettleReady, Release
    <2>9. CountersExact' /\ active' \in Nat /\ idleCount' \in Nat
      BY <1>8, <2>8, CountersStep DEF SettleReady, Release, countVars
    <2>1. FiberEntry(Running(t), AnyThread) \in Entry
      BY <1>8, RunningFiber DEF SettleReady, FiberEntry, Entry
    <2>2. queue' \in Seq(Entry)
      BY <1>8, <2>1 DEF SettleReady, Enqueue
    <2>3. TypeOK'
      BY <1>8, <2>2, <2>8, <2>9
         DEF SettleReady, Release, Entry, NoEntry, poolVars, countVars,
         stopVars, clientVars, historyVars
    <2>5. \A u \in Threads \ {t} : ft'[u] = ft[u] /\ cbFiber'[u] = cbFiber[u]
      BY <1>8 DEF SettleReady, Release
    <2>4. HasFiber'
      BY <2>5, <2>8, HasFiberStep
    <2>6. OwnerPlaces'
      BY <1>8, <2>8, OwnerPlacesStep DEF SettleReady, Release
    <2> QED BY <2>3, <2>4, <2>6, <2>9
  <1>9. CASE SettleEnded(t)
    <2>8. pc' = [pc EXCEPT ![t] = "pick"]
      BY <1>9 DEF SettleEnded, Release
    <2>9. CountersExact' /\ active' \in Nat /\ idleCount' \in Nat
      BY <1>9, <2>8, CountersStep DEF SettleEnded, Release, countVars
    <2>1. /\ fstate' \in [Fibers -> FiberState \cup {"FREE"}]
          /\ cbOf' \in [Fibers -> Jobs \cup {None}]
      BY <1>9 DEF SettleEnded, FiberState
    <2>3. TypeOK'
      BY <1>9, <2>1, <2>8, <2>9
         DEF SettleEnded, Release, Entry, NoEntry, poolVars, countVars,
             stopVars, clientVars, historyVars
    <2>5. \A u \in Threads \ {t} : ft'[u] = ft[u] /\ cbFiber'[u] = cbFiber[u]
      BY <1>9 DEF SettleEnded, Release
    <2>4. HasFiber'
      BY <2>5, <2>8, HasFiberStep
    <2>6. OwnerPlaces'
      BY <1>9, <2>8, OwnerPlacesStep DEF SettleEnded, Release
    <2> QED BY <2>3, <2>4, <2>6, <2>9
  <1>10. CASE SettleHold(t)
    <2>8. pc' = [pc EXCEPT ![t] = "pick"]
      BY <1>10 DEF SettleHold, Release
    <2>9. CountersExact' /\ active' \in Nat /\ idleCount' \in Nat
      BY <1>10, <2>8, CountersStep DEF SettleHold, Release, countVars
    <2>3. TypeOK'
      BY <1>10, <2>8, <2>9
         DEF SettleHold, Release, Entry, NoEntry, FiberState, poolVars,
             countVars, stopVars, clientVars, historyVars
    <2>5. \A u \in Threads \ {t} : ft'[u] = ft[u] /\ cbFiber'[u] = cbFiber[u]
      BY <1>10 DEF SettleHold, Release
    <2>4. HasFiber'
      BY <2>5, <2>8, HasFiberStep
    <2>6. OwnerPlaces'
      BY <1>10, <2>8, OwnerPlacesStep DEF SettleHold, Release
    <2> QED BY <2>3, <2>4, <2>6, <2>9
  <1> QED BY <1>1, <1>2, <1>3, <1>4, <1>5, <1>6, <1>7, <1>8, <1>9, <1>10
             DEF RunLoop

\* So does every step of a body.
LEMMA BodyTypeInv ==
  ASSUME TypeInv, NEW t \in Threads, Body(t)
  PROVE  TypeInv'
  <1> USE DEF TypeInv
  <1> USE NamesAssumption, BoundsAssumption
      DEF TypeOK, PcValues, Busy, InBody, OnFiber
  <1>1. CASE BodySchedule(t)
    <2>1. TypeOK'
      BY <1>1, ScheduleType DEF BodySchedule, countVars, stopVars, threadVars
    <2>2. CountersExact' /\ HasFiber' /\ OwnerPlaces'
      BY <1>1 DEF BodySchedule, CountersExact, HasFiber, OwnerPlaces, At,
                  Running, countVars, threadVars
    <2> QED BY <2>1, <2>2
  <1>2. CASE Register(t)
    <2>1. pc' = [pc EXCEPT ![t] = "parking"]
      BY <1>2 DEF Register
    <2>2. CountersExact' /\ active' \in Nat /\ idleCount' \in Nat
      BY <1>2, <2>1, CountersStep DEF Register, countVars
    <2>3. Running(t) \in Fibers /\ Running(t)' = Running(t)
      BY <1>2, RunningFiber DEF Register, Running, poolVars
    <2>6. TypeOK'
      BY <1>2, <2>1, <2>2, <2>3
         DEF Register, FiberState, poolVars, stopVars, clientVars, historyVars
    <2>7. HasFiber'
      BY <1>2, <2>1, HasFiberKept DEF Register, poolVars
    <2>8. OwnerPlaces'
      BY <1>2, <2>1, OwnerPlacesStep DEF Register
    <2> QED BY <2>2, <2>6, <2>7, <2>8
  <1>3. CASE SwitchTo(t)
    <2>1. pc' = [pc EXCEPT ![t] = "parking"]
      BY <1>3 DEF SwitchTo
    <2>2. CountersExact' /\ active' \in Nat /\ idleCount' \in Nat
      BY <1>3, <2>1, CountersStep DEF SwitchTo, countVars
    <2>3. Running(t) \in Fibers /\ Running(t)' = Running(t)
      BY <1>3, RunningFiber DEF SwitchTo, Running, poolVars
    <2>4. PICK p \in Pins \ {AnyThread, t} :
            /\ queue' = queue \o <<FiberEntry(Running(t), p)>>
            /\ pin' = [pin EXCEPT ![Running(t)] = p]
      BY <1>3 DEF SwitchTo, Enqueue
    <2>5. FiberEntry(Running(t), p) \in Entry
      BY <2>3 DEF FiberEntry, Entry
    <2>6. TypeOK'
      BY <1>3, <2>1, <2>2, <2>3, <2>4, <2>5
         DEF SwitchTo, stopVars
    <2>7. HasFiber'
      BY <1>3, <2>1, HasFiberKept DEF SwitchTo, poolVars
    <2>8. OwnerPlaces'
      BY <1>3, <2>1, OwnerPlacesStep DEF SwitchTo
    <2> QED BY <2>2, <2>6, <2>7, <2>8
  <1>4. CASE YieldToHold(t)
    <2>1. pc' = [pc EXCEPT ![t] = "swapped"]
      BY <1>4 DEF YieldToHold
    <2>2. CountersExact' /\ active' \in Nat /\ idleCount' \in Nat
      BY <1>4, <2>1, CountersStep DEF YieldToHold, countVars
    <2>3. Running(t) \in Fibers /\ Running(t)' = Running(t)
      BY <1>4, RunningFiber DEF YieldToHold, Running, poolVars
    <2>6. TypeOK'
      BY <1>4, <2>1, <2>2, <2>3
         DEF YieldToHold, FiberState, poolVars, stopVars, clientVars,
             historyVars
    <2>7. HasFiber'
      BY <1>4, <2>1, HasFiberKept DEF YieldToHold, poolVars
    <2>8. OwnerPlaces'
      BY <1>4, <2>1, OwnerPlacesStep DEF YieldToHold
    <2> QED BY <2>2, <2>6, <2>7, <2>8
  <1>5. CASE YieldToReady(t)
    <2>1. pc' = [pc EXCEPT ![t] = "swapped"]
      BY <1>5 DEF YieldToReady
    <2>2. CountersExact' /\ active' \in Nat /\ idleCount' \in Nat
      BY <1>5, <2>1, CountersStep DEF YieldToReady, countVars
    <2>3. Running(t) \in Fibers /\ Running(t)' = Running(t)
      BY <1>5, RunningFiber DEF YieldToReady, Running, poolVars
    <2>6. TypeOK'
      BY <1>5, <2>1, <2>2, <2>3
         DEF YieldToReady, FiberState, poolVars, stopVars, clientVars,
             historyVars
    <2>7. HasFiber'
      BY <1>5, <2>1, HasFiberKept DEF YieldToReady, poolVars
    <2>8. OwnerPlaces'
      BY <1>5, <2>1, OwnerPlacesStep DEF YieldToReady
    <2> QED BY <2>2, <2>6, <2>7, <2>8
  <1>6. CASE Return(t)
    <2>1. pc' = [pc EXCEPT ![t] = "swapped"]
      BY <1>6 DEF Return
    <2>2. CountersExact' /\ active' \in Nat /\ idleCount' \in Nat
      BY <1>6, <2>1, CountersStep DEF Return, countVars
    <2>3. Running(t) \in Fibers /\ Running(t)' = Running(t)
      BY <1>6, RunningFiber DEF Return, Running, poolVars
    <2>6. TypeOK'
      BY <1>6, <2>1, <2>2, <2>3
         DEF Return, FiberState, poolVars, stopVars, clientVars, historyVars
    <2>7. HasFiber'
      BY <1>6, <2>1, HasFiberKept DEF Return, poolVars
    <2>8. OwnerPlaces'
      BY <1>6, <2>1, OwnerPlacesStep DEF Return
    <2> QED BY <2>2, <2>6, <2>7, <2>8
  <1>7. CASE Throw(t)
    <2>1. pc' = [pc EXCEPT ![t] = "swapped"]
      BY <1>7 DEF Throw
    <2>2. CountersExact' /\ active' \in Nat /\ idleCount' \in Nat
      BY <1>7, <2>1, CountersStep DEF Throw, countVars
    <2>3. Running(t) \in Fibers /\ Running(t)' = Running(t)
      BY <1>7, RunningFiber DEF Throw, Running, poolVars
    <2>6. TypeOK'
      BY <1>7, <2>1, <2>2, <2>3
         DEF Throw, FiberState, poolVars, stopVars, clientVars, historyVars
    <2>7. HasFiber'
      BY <1>7, <2>1, HasFiberKept DEF Throw, poolVars
    <2>8. OwnerPlaces'
      BY <1>7, <2>1, OwnerPlacesStep DEF Throw
    <2> QED BY <2>2, <2>6, <2>7, <2>8
  <1> QED BY <1>1, <1>2, <1>3, <1>4, <1>5, <1>6, <1>7 DEF Body

\* And every step of the owner, whose Start and StopCall put threads at the
\* top of the loop.
LEMMA OwnerTypeInv ==
  ASSUME TypeInv, OwnerSchedule \/ Start \/ OwnerStops
  PROVE  TypeInv'
  <1> USE DEF TypeInv
  <1> USE NamesAssumption
      DEF TypeOK, PcValues, OwnerValues, Busy, InBody, OnFiber
  <1>1. CASE OwnerSchedule
    <2>1. TypeOK'
      BY <1>1, ScheduleType DEF OwnerSchedule, countVars, stopVars, threadVars
    <2>2. CountersExact' /\ HasFiber' /\ OwnerPlaces'
      BY <1>1 DEF OwnerSchedule, CountersExact, HasFiber, OwnerPlaces, At,
                  Running, countVars, threadVars
    <2> QED BY <2>1, <2>2
  <1>2. CASE Start
    <2>1. TypeOK'
      BY <1>2 DEF Start, poolVars, countVars, clientVars, historyVars
    <2>2. \A t \in Threads : pc[t] = "off" /\ pc'[t] \in {"off", "pick"}
      BY <1>2 DEF Start, OwnerPlaces
    <2>3. /\ At(Busy)' = At(Busy) /\ At({"idle"})' = At({"idle"})
          /\ At(OnFiber)' = {}
      BY <2>2 DEF At
    <2>4. CountersExact' /\ HasFiber'
      BY <1>2, <2>3 DEF Start, CountersExact, HasFiber, countVars
    <2>5. OwnerPlaces'
      BY <1>2, ThreadsAssumption DEF Start, OwnerPlaces, Threads
    <2> QED BY <2>1, <2>4, <2>5
  <1>3. CASE StopCall
    <2>1. CASE UNCHANGED pc
      BY <1>3, <2>1
         DEF StopCall, CountersExact, HasFiber, OwnerPlaces, At, Running,
             poolVars, countVars, stopVars, clientVars, historyVars
    <2>2. CASE UseCaller /\ ~Stopping
      <3>1. /\ Caller \in Threads /\ pc[Caller] = "off"
            /\ pc' = [pc EXCEPT ![Caller] = "pick"]
        BY <1>3, <2>2 DEF StopCall, OwnerPlaces, Threads
      <3>2. CountersExact'
        BY <1>3, <3>1, CountersStep DEF StopCall, countVars
      <3>3. HasFiber'
        BY <1>3, <3>1, HasFiberKept DEF StopCall, poolVars
      <3>4. TypeOK'
        BY <1>3, <3>1 DEF StopCall, poolVars, countVars, stopVars, clientVars,
                          historyVars
      <3>5. OwnerPlaces'
        BY <1>3, <2>2 DEF StopCall, OwnerPlaces
      <3> QED BY <3>2, <3>3, <3>4, <3>5
    <2> QED BY <1>3, <2>1, <2>2 DEF StopCall
  <1>4. CASE StopBegin \/ StopRequest \/ StopResume \/ StopJoin
    <2>1. TypeOK'
      BY <1>4 DEF StopBegin, StopRequest, StopResume, StopJoin, poolVars,
                  countVars, stopVars, threadVars, clientVars, historyVars
    <2>2. UNCHANGED <<pc, ft, cbFiber, active, idleCount>>
      BY <1>4 DEF StopBegin, StopRequest, StopResume, StopJoin, poolVars,
                  countVars, threadVars
    <2>3. OwnerPlaces'
      BY <1>4, <2>2
         DEF StopBegin, StopRequest, StopResume, StopJoin, OwnerPlaces
    <2> QED BY <2>1, <2>2, <2>3 DEF CountersExact, HasFiber, At, Running
  <1> QED BY <1>1, <1>2, <1>3, <1>4 DEF OwnerStops

\* A step of the system keeps the types and the counters.
LEMMA NextTypeInv == TypeInv /\ [Next]_vars => TypeInv'
  <1>1. ASSUME TypeInv, UNCHANGED vars PROVE TypeInv'
    BY <1>1
       DEF TypeInv, TypeOK, CountersExact, HasFiber, OwnerPlaces, At, Running,
           vars, poolVars, countVars, stopVars, threadVars, clientVars,
           historyVars
  <1> QED
    BY <1>1, RunLoopTypeInv, BodyTypeInv, OwnerTypeInv DEF Next, Stopped

\* The variables have their types and the two thread counters are exact in
\* every reachable state, for any number of threads, fibers and functions.
THEOREM TypesAndCounters == Spec => [](TypeOK /\ CountersExact)
  <1>1. TypeInv => TypeOK /\ CountersExact
    BY DEF TypeInv
  <1> QED BY <1>1, InitTypeInv, NextTypeInv, PTL DEF Spec

-----------------------------------------------------------------------------
(* stopping() is final when no body yields READY.  A READY fiber is in     *)
(* nobody's count and on no list between SwapBack and SettleReady; this is *)
(* the only way out of a state in which stopping() holds.                  *)

NoReady == \A f \in Fibers : fstate[f] # "READY"

\* The owner only submits tasks before it calls stop().
OwnerQuiet == owner \in {"setup", "up"} => ~autoStop

QuietInv == TypeInv /\ NoReady /\ OwnerQuiet

LEMMA InitQuiet == Init => QuietInv
  BY InitTypeInv DEF Init, QuietInv, NoReady, OwnerQuiet

\* stop() sets m_autoStop, and nothing else does.
LEMMA NextOwnerQuiet ==
  ASSUME OwnerQuiet, [Next]_vars
  PROVE  OwnerQuiet'
  BY DEF OwnerQuiet, Next, vars, stopVars, RunLoop, Body, OwnerStops, Pick,
         PickNothing, Idle, DispatchFiber, DispatchCb, DispatchEnded,
         SwapBack, SettleReady, SettleEnded, SettleHold, Release,
         BodySchedule, Register, SwitchTo, YieldToHold, YieldToReady,
         Return, Throw, OwnerSchedule, Start, StopBegin, StopRequest,
         StopCall, StopResume, StopJoin, Stopped

\* Without YieldToReady no step stores READY.
LEMMA NextQuiet ==
  ASSUME ~AllowReady, QuietInv, [Next]_vars
  PROVE  QuietInv'
  <1> USE DEF QuietInv
  <1>1. TypeInv'
    BY NextTypeInv
  <1>2. OwnerQuiet'
    BY NextOwnerQuiet
  <1>3. NoReady'
    <2> DEFINE Kept == \A g \in Fibers : fstate'[g] # "READY"
    <2>0. NoReady /\ fstate \in [Fibers -> FiberState \cup {"FREE"}]
      BY DEF TypeInv, TypeOK
    <2> USE <2>0 DEF NoReady
    <2>1. ASSUME NEW t \in Threads, RunLoop(t) PROVE Kept
      BY <2>1
         DEF RunLoop, Pick, PickNothing, Idle, DispatchFiber, DispatchCb,
             DispatchEnded, SwapBack, SettleReady, SettleEnded, SettleHold,
             poolVars
    <2>2. Schedule => Kept
      BY DEF Schedule, SubmitCb, SubmitFiber, SubmitBatch, Wake
    <2>3. ASSUME NEW t \in Threads, Body(t) PROVE Kept
      BY <2>2, <2>3
         DEF Body, BodySchedule, Register, SwitchTo, YieldToHold,
             YieldToReady, Return, Throw, poolVars
    <2>4. ASSUME OwnerSchedule \/ Start \/ OwnerStops PROVE Kept
      BY <2>2, <2>4
         DEF OwnerSchedule, Start, OwnerStops, StopBegin, StopRequest,
             StopCall, StopResume, StopJoin, poolVars
    <2>5. Kept
      BY <2>1, <2>3, <2>4 DEF Next, Stopped, vars, poolVars
    <2> QED BY <2>5
  <1> QED BY <1>1, <1>2, <1>3

\* While stopping() holds no thread has a task.
LEMMA StoppingMeansQuiet ==
  ASSUME TypeInv, Stopping
  PROVE  \A t \in Threads : pc[t] \notin Busy
  <1>1. IsFiniteSet(At(Busy))
    BY ThreadsFinite, FS_Subset DEF At
  <1> QED
    BY <1>1, FS_EmptySet DEF TypeInv, CountersExact, Stopping, At

\* The step of the theorem below.
LEMMA StoppingStep ==
  ASSUME ~AllowReady, QuietInv, Stopping, [Next]_vars
  PROVE  Stopping'
  <1> USE DEF QuietInv
  <1>1. /\ autoStop /\ stopping /\ queue = <<>> /\ active = 0
        /\ \A t \in Threads : pc[t] \notin Busy
        /\ owner \notin {"setup", "up"}
    BY StoppingMeansQuiet DEF Stopping, OwnerQuiet
  <1>2. ASSUME NEW t \in Threads, RunLoop(t) PROVE Stopping'
    <2>1. ASSUME pc[t] = "settle" PROVE fstate[Running(t)] # "READY"
      <3>1. Running(t) \in Fibers
        BY <2>1, RunningFiber DEF OnFiber
      <3> QED BY <3>1 DEF NoReady
    <2>2. ~Pick(t)
      BY <1>1 DEF Pick
    <2>3. pc[t] # "dispatch" /\ pc[t] # "swapped"
      BY <1>1 DEF Busy
    <2>4. ~SettleReady(t)
      BY <2>1 DEF SettleReady
    <2>5. \/ PickNothing(t) \/ Idle(t) \/ SettleEnded(t) \/ SettleHold(t)
      BY <1>2, <2>2, <2>3, <2>4
         DEF RunLoop, DispatchFiber, DispatchCb, DispatchEnded, SwapBack
    <2> QED
      BY <1>1, <2>5
         DEF Stopping, PickNothing, Idle, SettleEnded, SettleHold, Release,
             poolVars, countVars, stopVars
  <1>3. ASSUME NEW t \in Threads, Body(t) PROVE Stopping'
    BY <1>1, <1>3
       DEF Body, BodySchedule, Register, SwitchTo, YieldToHold, YieldToReady,
           Return, Throw, Busy, InBody
  <1>4. ASSUME OwnerSchedule \/ Start PROVE Stopping'
    BY <1>1, <1>4 DEF OwnerSchedule, Start
  <1>5. ASSUME OwnerStops PROVE Stopping'
    BY <1>1, <1>5
       DEF Stopping, OwnerStops, StopBegin, StopRequest, StopCall, StopResume,
           StopJoin, poolVars, countVars, stopVars
  <1>6. ASSUME UNCHANGED vars PROVE Stopping'
    BY <1>1, <1>6 DEF Stopping, vars, poolVars, countVars, stopVars
  <1> QED BY <1>2, <1>3, <1>4, <1>5, <1>6 DEF Next, Stopped

\* If no body yields READY, stopping() once true stays true: the threads that
\* leave the loop on its word leave no work behind them, now or later.
THEOREM StoppingFinal ==
  ASSUME ~AllowReady
  PROVE  Spec => StoppingIsFinal
  <1>1. QuietInv /\ [Next]_vars => QuietInv'
    BY NextQuiet
  <1>2. QuietInv /\ [Next]_vars => (Stopping => Stopping')
    BY StoppingStep
  <1> QED BY <1>1, <1>2, InitQuiet, PTL DEF Spec, StoppingIsFinal

-----------------------------------------------------------------------------
(* A thread leaves its loop only on the word of stopping(), and stopping() *)
(* is final: what is on the list later can name no thread that has left.   *)

\* Whoever has left, or is bound to, was told that stopping() holds.
LeftOnStopping ==
  /\ \A t \in Threads : idleTerm[t] => Stopping
  /\ \A t \in Threads : Gone(t) => Stopping

GoneInv == QuietInv /\ LeftOnStopping

LEMMA InitGone == Init => GoneInv
  <1> SUFFICES ASSUME Init PROVE GoneInv
    OBVIOUS
  <1>1. QuietInv
    BY InitQuiet
  <1>2. LeftOnStopping
    BY DEF Init, LeftOnStopping, Gone
  <1> QED BY <1>1, <1>2 DEF GoneInv

\* Only these four steps make somebody leave; each has seen stopping() hold
\* or the mark of a thread that had.
LEMMA NextGone ==
  ASSUME ~AllowReady, GoneInv, [Next]_vars
  PROVE  GoneInv'
  <1> USE DEF GoneInv
  <1>1. QuietInv'
    BY NextQuiet
  <1>2. Stopping => Stopping'
    BY StoppingStep
  <1>3. /\ pc \in [Threads -> PcValues] /\ idleTerm \in [Threads -> BOOLEAN]
        /\ \A u \in Threads : idleTerm[u] \/ Gone(u) => Stopping
    BY DEF QuietInv, TypeInv, TypeOK, LeftOnStopping
  <1> DEFINE Kept == \A u \in Threads : idleTerm'[u] \/ Gone(u)' => Stopping'
  <1>4. ASSUME UNCHANGED <<pc, idleTerm, owner>> PROVE Kept
    BY <1>2, <1>3, <1>4 DEF Gone
  <1>5. ASSUME NEW t \in Threads, RunLoop(t) PROVE Kept
    <2>1. UNCHANGED owner
      BY <1>5
         DEF RunLoop, Pick, PickNothing, Idle, DispatchFiber, DispatchCb,
             DispatchEnded, SwapBack, SettleReady, SettleEnded, SettleHold,
             Release
    <2>2. CASE PickNothing(t)
      BY <1>2, <1>3, <2>1, <2>2 DEF PickNothing, Gone
    <2>3. CASE Idle(t)
      BY <1>2, <1>3, <2>1, <2>3
         DEF Idle, Gone, Stopping, poolVars, stopVars
    <2>4. CASE ~PickNothing(t) /\ ~Idle(t)
      <3>1. UNCHANGED idleTerm /\ \E v \in PcValues \ {"exited"} :
                                    pc' = [pc EXCEPT ![t] = v]
        BY <1>5, <2>4
           DEF RunLoop, Pick, DispatchFiber, DispatchCb, DispatchEnded,
               SwapBack, SettleReady, SettleEnded, SettleHold, Release,
               PcValues, Busy, InBody
      <3> QED BY <1>2, <1>3, <2>1, <3>1 DEF Gone
    <2> QED BY <2>2, <2>3, <2>4
  <1>6. ASSUME NEW t \in Threads, Body(t) PROVE Kept
    <2>1. UNCHANGED <<idleTerm, owner>> /\ \A u \in Threads :
            pc'[u] = "exited" => pc[u] = "exited"
      BY <1>3, <1>6
         DEF Body, BodySchedule, Register, SwitchTo, YieldToHold,
             YieldToReady, Return, Throw, threadVars
    <2> QED BY <1>2, <1>3, <2>1 DEF Gone
  <1>7. ASSUME OwnerSchedule PROVE Kept
    BY <1>4, <1>7 DEF OwnerSchedule, threadVars
  <1>8. ASSUME Start PROVE Kept
    BY <1>2, <1>3, <1>8 DEF Start, Gone
  <1>9. ASSUME OwnerStops PROVE Kept
    <2>1. CASE StopBegin
      <3>1. owner' = "stopped" => Stopping'
        BY <2>1 DEF StopBegin, Stopping, poolVars, countVars
      <3> QED BY <1>2, <1>3, <2>1, <3>1 DEF StopBegin, Gone, threadVars
    <2>2. CASE StopRequest
      BY <1>2, <1>3, <2>2 DEF StopRequest, Gone, threadVars
    <2>3. CASE StopCall
      <3>1. Caller \in Threads /\ owner' = "join" => Stopping
        BY <2>3, ThreadsAssumption DEF StopCall, Threads
      <3> QED BY <1>2, <1>3, <2>3, <3>1 DEF StopCall, Gone
    <2>4. CASE StopResume
      <3>1. Caller \in Threads => Stopping
        BY <1>3, <2>4 DEF StopResume, Gone
      <3> QED BY <1>2, <1>3, <2>4, <3>1 DEF StopResume, Gone, threadVars
    <2>5. CASE StopJoin
      BY <1>2, <1>3, <2>5 DEF StopJoin, Gone, threadVars
    <2> QED BY <1>9, <2>1, <2>2, <2>3, <2>4, <2>5 DEF OwnerStops
  <1>10. Kept
    BY <1>4, <1>5, <1>6, <1>7, <1>8, <1>9
       DEF Next, Stopped, vars, threadVars
  <1> QED BY <1>1, <1>10 DEF LeftOnStopping

\* If no body yields READY, no task is left on the list for a thread that has
\* left its loop.
THEOREM NobodyOrphaned ==
  ASSUME ~AllowReady
  PROVE  Spec => []NoOrphan
  <1>1. GoneInv /\ [Next]_vars => GoneInv'
    BY NextGone
  <1>2. GoneInv => NoOrphan
    <2> SUFFICES ASSUME GoneInv, NEW i \in DOMAIN queue,
                        queue[i].thread # AnyThread, Gone(queue[i].thread)
                 PROVE  FALSE
      BY DEF NoOrphan
    <2>1. queue \in Seq(Entry) /\ queue[i] \in Entry
      BY ElementOfSeq DEF GoneInv, QuietInv, TypeInv, TypeOK
    <2>2. queue[i].thread \in Threads
      BY <2>1 DEF Entry
    <2>3. queue = <<>>
      BY <2>2 DEF GoneInv, LeftOnStopping, Stopping
    <2> QED BY <2>1, <2>3
  <1> QED BY <1>1, <1>2, InitGone, PTL DEF Spec
=============================================================================
