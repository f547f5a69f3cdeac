-------------------------- MODULE IOStartupProofs --------------------------
(***************************************************************************)
(* The first part is about FdTable, the table of contexts, for any number  *)
(* of threads, descriptors and resizes: no call goes on with a context     *)
(* that is not one, no registered event is forgotten, and nothing goes     *)
(* wrong before two resizes cross.                                         *)
(*                                                                         *)
(* The second part is about ThreadStart: start() and stop() for every size *)
(* of the pool and any number of starts.  The ids are exact, no task runs  *)
(* before the list of threads is complete, and no Thread object is         *)
(* destroyed under its thread.                                             *)
(*                                                                         *)
(* The third part is about IOStartup: the IOManager coming up and going    *)
(* down implements both the start of the pool and the table of contexts,   *)
(* so it has the properties of both.                                       *)
(***************************************************************************)
EXTENDS IOStartup, FiniteSetTheorems, TLAPS

\* Once constructed the table has its least size, and every slot inside it
\* is filled, every one outside it empty.
Filled ==
    /\ size = 0 \/ size >= InitSize
    /\ \A fd \in Fds : ctxOf[fd] = 0 <=> size <= fd
    /\ \A fd \in Fds : ctxOf[fd] <= made[fd]

\* A thread about to resize has been told that its descriptor is outside; one
\* that has a context has arguments to go with it.
Prepared ==
    \A t \in Threads :
        /\ step[t] = "grow" =>
             /\ args[t] \in Args /\ args[t].op = "add"
             /\ measured[t] >= InitSize /\ args[t].fd >= measured[t]
        /\ step[t] = "found" => args[t] \in Args /\ fdCtx[t] # 0
        /\ step[t] # "free" /\ args[t].op = "add" => args[t].evs # {}
        /\ size = 0 => step[t] = "free"

\* A context the kernel holds has events; they are of no other context.
KernelKnows ==
    /\ NoneForgotten
    /\ \A x \in events : x[2] # 0
    /\ \A fd \in Fds : kernel[fd] # 0 => Armed(fd, kernel[fd]) # {}

\* While no resize has crossed another one, everybody uses the context that
\* is in the table.
Orderly ==
    ~raced =>
        /\ ~failed
        /\ \A x \in events : ctxOf[x[1]] = x[2]
        /\ \A t \in Threads :
             step[t] = "found" => fdCtx[t] = ctxOf[args[t].fd]

TableInv == TypeTable /\ Filled /\ Prepared /\ KernelKnows /\ Orderly

\* The library's facts about one element: an event is what a call names.
LEMMA OneEvent ==
  ASSUME NEW evs, Cardinality(evs) = 1
  PROVE  evs # {}
  BY FS_EmptySet

LEMMA InitTable == InitEmpty => TableInv
  <1> SUFFICES ASSUME InitEmpty PROVE TableInv
    OBVIOUS
  <1>1. TypeTable
    BY DEF InitEmpty, TypeTable
  <1>2. Filled
    BY TableAssumption DEF InitEmpty, Filled
  <1>3. Prepared
    BY DEF InitEmpty, Prepared
  <1>4. KernelKnows
    BY DEF InitEmpty, KernelKnows, NoneForgotten
  <1>5. Orderly
    BY DEF InitEmpty, Orderly
  <1> QED BY <1>1, <1>2, <1>3, <1>4, <1>5 DEF TableInv

-----------------------------------------------------------------------------
(* The resize.                                                             *)

\* A resize keeps the table filled; one that does not shrink it drops no
\* context.
LEMMA ResizeFills ==
  ASSUME TableInv, NEW n \in Nat, n >= InitSize, ContextResize(n)
  PROVE  /\ size' \in Nat /\ ctxOf' \in [Fds -> Nat]
         /\ made' \in [Fds -> Nat]
         /\ Filled'
         /\ n >= size => \A fd \in Fds :
                            ctxOf[fd] # 0 => ctxOf'[fd] = ctxOf[fd]
         /\ \A fd \in Fds : fd < n => ctxOf'[fd] # 0
  <1>1. /\ Fds \subseteq Nat /\ size \in Nat
        /\ ctxOf \in [Fds -> Nat] /\ made \in [Fds -> Nat]
    BY TableAssumption DEF TableInv, TypeTable
  <1>2. /\ size' = n
        /\ \A fd \in Fds :
             ctxOf'[fd] = IF fd >= n THEN 0
                          ELSE IF ctxOf[fd] = 0 THEN made[fd] + 1
                          ELSE ctxOf[fd]
        /\ \A fd \in Fds :
             made'[fd] = IF fd < n /\ ctxOf[fd] = 0 THEN made[fd] + 1
                                                    ELSE made[fd]
    BY DEF ContextResize
  <1>3. ctxOf' \in [Fds -> Nat]
    BY <1>1 DEF ContextResize
  <1>4. made' \in [Fds -> Nat]
    BY <1>1 DEF ContextResize
  <1>5. \A fd \in Fds : /\ ctxOf[fd] = 0 <=> size <= fd
                        /\ ctxOf[fd] <= made[fd]
    BY DEF TableInv, Filled
  <1>6. Filled'
    BY <1>1, <1>2, <1>5 DEF Filled
  <1> QED BY <1>1, <1>2, <1>3, <1>4, <1>5, <1>6

LEMMA ConstructSafe == TableInv /\ Construct => TableInv'
  <1> SUFFICES ASSUME TableInv, Construct PROVE TableInv'
    OBVIOUS
  <1>1. /\ InitSize \in Nat /\ InitSize >= 2 /\ Fds \subseteq Nat
        /\ size = 0 /\ ContextResize(InitSize)
        /\ UNCHANGED <<eventVars, callVars, noteVars>>
    BY TableAssumption DEF Construct
  <1>2. /\ size' \in Nat /\ ctxOf' \in [Fds -> Nat]
        /\ made' \in [Fds -> Nat] /\ Filled'
        /\ size' # 0
        /\ \A fd \in Fds : ctxOf[fd] # 0 => ctxOf'[fd] = ctxOf[fd]
    BY <1>1, ResizeFills DEF ContextResize
  <1>3. TypeTable'
    BY <1>1, <1>2
       DEF TableInv, TypeTable, eventVars, callVars, noteVars, Args, NoArgs
  <1>4. Prepared'
    BY <1>1, <1>2 DEF TableInv, Prepared, eventVars, callVars, noteVars, Args
  <1>5. KernelKnows'
    BY <1>1 DEF TableInv, KernelKnows, NoneForgotten, Armed, eventVars
  <1>6. Orderly'
    <2>1. UNCHANGED <<events, step, args, fdCtx, raced, failed>>
      BY <1>1 DEF eventVars, callVars, noteVars
    <2>2. \A t \in Threads : step[t] # "found"
      BY <1>1 DEF TableInv, Prepared
    <2>3. \A x \in events : x[1] \in Fds /\ x[2] # 0
      BY DEF TableInv, TypeTable, KernelKnows
    <2>4. ~raced =>
            ~failed /\ \A x \in events : ctxOf[x[1]] = x[2]
      BY DEF TableInv, Orderly
    <2>5. ~raced => \A x \in events : ctxOf'[x[1]] = x[2]
      BY <1>2, <2>3, <2>4
    <2> QED BY <2>1, <2>2, <2>4, <2>5 DEF Orderly
  <1> QED BY <1>2, <1>3, <1>4, <1>5, <1>6 DEF TableInv

\* The descriptor is inside the table it is resized for.
LEMMA HalfMore ==
  ASSUME NEW fd \in Nat, fd >= 2
  PROVE  fd + fd \div 2 \in Nat /\ fd + fd \div 2 > fd
  OBVIOUS

LEMMA GrowSafe ==
  ASSUME TableInv, NEW t \in Threads, Grow(t) PROVE TableInv'
  <1>1. PICK fd \in Fds :
          /\ args[t].fd = fd /\ fd \in Nat /\ fd >= 2
          /\ fd >= InitSize /\ fd >= measured[t]
    <2>1. /\ args[t] \in Args /\ measured[t] \in Nat
          /\ measured[t] >= InitSize /\ args[t].fd >= measured[t]
      BY DEF Grow, TableInv, TypeTable, Prepared
    <2>2. PICK fd \in Fds : args[t].fd = fd
      BY <2>1 DEF Args
    <2>3. fd \in Nat /\ fd >= measured[t]
      BY <2>1, <2>2, TableAssumption
    <2> QED BY <2>1, <2>2, <2>3, TableAssumption
  <1>2. PICK n \in Nat : n = fd + fd \div 2 /\ n > fd
    BY <1>1, HalfMore
  <1>3. /\ step[t] = "grow" /\ args[t] \in Args /\ args[t].op = "add"
        /\ ContextResize(n)
        /\ step' = [step EXCEPT ![t] = "found"]
        /\ fdCtx' = [fdCtx EXCEPT ![t] = ctxOf'[fd]]
        /\ UNCHANGED <<eventVars, args, measured, failed, resizes>>
    BY <1>1, <1>2 DEF Grow, TableInv, Prepared
  <1>4. /\ InitSize \in Nat /\ InitSize >= 2 /\ Fds \subseteq Nat
        /\ size \in Nat /\ measured[t] \in Nat
    BY TableAssumption DEF TableInv, TypeTable
  <1>5. /\ size' \in Nat /\ ctxOf' \in [Fds -> Nat]
        /\ made' \in [Fds -> Nat] /\ Filled'
        /\ n >= size => \A f \in Fds : ctxOf[f] # 0 => ctxOf'[f] = ctxOf[f]
        /\ \A f \in Fds : f < n => ctxOf'[f] # 0
    BY <1>1, <1>2, <1>3, <1>4, ResizeFills
  <1>6. size' = n /\ size' # 0 /\ ctxOf'[fd] # 0
    BY <1>1, <1>2, <1>3, <1>5 DEF ContextResize
  <1>7. raced' \in BOOLEAN /\ (~raced' => ~raced /\ measured[t] = size)
    BY DEF Grow
  <1>8. TypeTable'
    BY <1>3, <1>5, <1>6, <1>7 DEF TableInv, TypeTable, eventVars
  <1>9. Prepared'
    BY <1>3, <1>5, <1>6 DEF TableInv, TypeTable, Prepared
  <1>10. KernelKnows'
    BY <1>3 DEF TableInv, KernelKnows, NoneForgotten, Armed, eventVars
  <1>11. Orderly'
    <2> SUFFICES ASSUME ~raced'
                 PROVE  /\ ~failed'
                        /\ \A x \in events' : ctxOf'[x[1]] = x[2]
                        /\ \A u \in Threads :
                             step'[u] = "found" =>
                               fdCtx'[u] = ctxOf'[args'[u].fd]
      BY DEF Orderly
    <2>1. ~raced /\ n >= size
      BY <1>1, <1>2, <1>4, <1>7
    <2>2. \A f \in Fds : ctxOf[f] # 0 => ctxOf'[f] = ctxOf[f]
      BY <1>5, <2>1
    <2>3. \A x \in events' : ctxOf'[x[1]] = x[2]
      BY <1>3, <2>1, <2>2
         DEF TableInv, TypeTable, Orderly, KernelKnows, eventVars
    <2>4. ASSUME NEW u \in Threads, step'[u] = "found"
          PROVE  fdCtx'[u] = ctxOf'[args'[u].fd]
      <3>1. CASE u = t
        BY <1>1, <1>3, <3>1 DEF TableInv, TypeTable
      <3>2. CASE u # t
        <4>1. /\ step[u] = "found" /\ fdCtx'[u] = fdCtx[u]
              /\ args'[u] = args[u]
          BY <1>3, <2>4, <3>2 DEF TableInv, TypeTable
        <4>2. /\ args[u].fd \in Fds /\ fdCtx[u] # 0
              /\ fdCtx[u] = ctxOf[args[u].fd]
          BY <2>1, <4>1 DEF TableInv, Prepared, Orderly, Args
        <4> QED BY <2>2, <4>1, <4>2
      <3> QED BY <3>1, <3>2
    <2>5. ~failed'
      BY <1>3, <2>1 DEF TableInv, Orderly
    <2> QED BY <2>3, <2>4, <2>5
  <1> QED BY <1>5, <1>8, <1>9, <1>10, <1>11 DEF TableInv

-----------------------------------------------------------------------------
(* The calls.                                                              *)

LEMMA LookUpSafe ==
  ASSUME TableInv, size # 0, NEW t \in Threads, LookUp(t) PROVE TableInv'
  <1>1. PICK a \in Args :
          /\ Callable(a)
          /\ \/ /\ size > a.fd
                /\ Look(t, a, "found", ctxOf[a.fd], size)
                /\ UNCHANGED <<failed, resizes>>
             \/ /\ size <= a.fd /\ a.op = "add"
                /\ resizes < MaxResizes /\ resizes' = resizes + 1
                /\ Look(t, a, "grow", 0, size)
                /\ UNCHANGED failed
             \/ /\ size <= a.fd /\ a.op = "remove"
                /\ failed' = (failed \/ a.evs \cap Registered(a.fd) # {})
                /\ UNCHANGED <<callVars, resizes>>
    BY DEF LookUp
  <1>2. UNCHANGED <<slotVars, eventVars, raced>>
    BY DEF LookUp
  <1>3. a.fd \in Fds /\ a.fd \in Nat /\ a.op \in {"add", "remove"}
    BY TableAssumption DEF Args
  <1>4. a.op = "add" => a.evs # {}
    <2>1. a.op = "add" => Cardinality(a.evs) = 1
      BY <1>1 DEF Callable
    <2> QED BY <2>1, OneEvent
  <1>5. /\ size \in Nat /\ InitSize \in Nat /\ InitSize >= 2
        /\ size >= InitSize /\ resizes \in Nat
    BY TableAssumption DEF TableInv, TypeTable, Filled
  <1>6. Filled'
    BY <1>2 DEF TableInv, Filled, slotVars
  <1>7. KernelKnows'
    BY <1>2 DEF TableInv, KernelKnows, NoneForgotten, Armed, eventVars
  <1>8. ctxOf[a.fd] \in Nat /\ (ctxOf[a.fd] = 0 <=> size <= a.fd)
    BY <1>3 DEF TableInv, TypeTable, Filled
  <1>9. CASE /\ size > a.fd
             /\ Look(t, a, "found", ctxOf[a.fd], size)
             /\ UNCHANGED <<failed, resizes>>
    <2>1. ctxOf[a.fd] # 0
      BY <1>3, <1>5, <1>8, <1>9
    <2>2. TypeTable'
      BY <1>2, <1>5, <1>8, <1>9
         DEF TableInv, TypeTable, Look, slotVars, eventVars
    <2>3. Prepared'
      BY <1>2, <1>4, <1>5, <1>9, <2>1
         DEF TableInv, TypeTable, Prepared, Look, slotVars
    <2>4. Orderly'
      BY <1>2, <1>9
         DEF TableInv, TypeTable, Orderly, Look, slotVars, eventVars
    <2> QED BY <1>6, <1>7, <2>2, <2>3, <2>4 DEF TableInv
  <1>10. CASE /\ size <= a.fd /\ a.op = "add"
              /\ resizes < MaxResizes /\ resizes' = resizes + 1
              /\ Look(t, a, "grow", 0, size)
              /\ UNCHANGED failed
    <2>1. TypeTable'
      BY <1>2, <1>5, <1>10
         DEF TableInv, TypeTable, Look, slotVars, eventVars
    <2>2. Prepared'
      BY <1>2, <1>4, <1>5, <1>10
         DEF TableInv, TypeTable, Prepared, Look, slotVars
    <2>3. Orderly'
      BY <1>2, <1>10
         DEF TableInv, TypeTable, Orderly, Look, slotVars, eventVars
    <2> QED BY <1>6, <1>7, <2>1, <2>2, <2>3 DEF TableInv
  <1>11. CASE /\ size <= a.fd /\ a.op = "remove"
              /\ failed' = (failed \/ a.evs \cap Registered(a.fd) # {})
              /\ UNCHANGED <<callVars, resizes>>
    <2>1. TypeTable'
      BY <1>2, <1>11
         DEF TableInv, TypeTable, slotVars, eventVars, callVars
    <2>2. Prepared'
      BY <1>2, <1>11 DEF TableInv, Prepared, slotVars, callVars
    <2>3. ~raced => Registered(a.fd) = {}
      BY <1>3, <1>8, <1>11
         DEF TableInv, KernelKnows, Orderly, Registered
    <2>4. ~raced' => ~raced /\ ~failed /\ ~failed'
      BY <1>2, <1>11, <2>3 DEF TableInv, Orderly
    <2>5. Orderly'
      BY <1>2, <1>11, <2>4
         DEF TableInv, Orderly, slotVars, eventVars, callVars
    <2> QED BY <1>6, <1>7, <2>1, <2>2, <2>5 DEF TableInv
  <1> QED BY <1>1, <1>9, <1>10, <1>11

\* A call returns: nothing of it is left.
LEMMA ReturnPrepared ==
  ASSUME TableInv, NEW t \in Threads, Return(t), UNCHANGED slotVars
  PROVE  /\ Prepared' /\ Filled'
         /\ step' \in [Threads -> {"free", "grow", "found"}]
         /\ args' \in [Threads -> Args \cup {NoArgs}]
         /\ fdCtx' \in [Threads -> Nat] /\ measured' \in [Threads -> Nat]
         /\ \A u \in Threads : step'[u] = "found" =>
              /\ step[u] = "found" /\ args'[u] = args[u]
              /\ fdCtx'[u] = fdCtx[u]
  <1>1. Filled'
    BY DEF TableInv, Filled, slotVars
  <1>2. Prepared'
    BY DEF TableInv, TypeTable, Prepared, Return, Look, slotVars
  <1> QED BY <1>1, <1>2 DEF TableInv, TypeTable, Return, Look

LEMMA AddEventSafe ==
  ASSUME TableInv, NEW t \in Threads, AddEvent(t) PROVE TableInv'
  <1>1. PICK fd \in Fds, c \in Nat, evs \in SUBSET Events :
          /\ args[t].fd = fd /\ fdCtx[t] = c /\ args[t].evs = evs
          /\ c # 0 /\ evs # {}
    BY DEF AddEvent, Found, TableInv, TypeTable, Prepared, Args
  <1>2. /\ step[t] = "found" /\ Return(t)
        /\ UNCHANGED <<slotVars, raced, resizes>>
        /\ \/ /\ Accepts(fd, c)
              /\ events' = events \cup {<<fd, c, e>> : e \in evs}
              /\ kernel' = [kernel EXCEPT ![fd] = c]
              /\ UNCHANGED failed
           \/ /\ ~Accepts(fd, c)
              /\ failed' = TRUE /\ UNCHANGED eventVars
    BY <1>1 DEF AddEvent, Found
  <1>3. /\ Prepared' /\ Filled'
        /\ step' \in [Threads -> {"free", "grow", "found"}]
        /\ args' \in [Threads -> Args \cup {NoArgs}]
        /\ fdCtx' \in [Threads -> Nat] /\ measured' \in [Threads -> Nat]
        /\ \A u \in Threads : step'[u] = "found" =>
              /\ step[u] = "found" /\ args'[u] = args[u]
              /\ fdCtx'[u] = fdCtx[u]
    BY <1>2, ReturnPrepared
  <1>4. ~raced => c = ctxOf[fd]
    BY <1>1, <1>2 DEF TableInv, Orderly
  <1>5. CASE /\ Accepts(fd, c)
             /\ events' = events \cup {<<fd, c, e>> : e \in evs}
             /\ kernel' = [kernel EXCEPT ![fd] = c]
             /\ UNCHANGED failed
    <2>1. TypeTable'
      BY <1>1, <1>2, <1>3, <1>5 DEF TableInv, TypeTable, slotVars
    <2>2. \A x \in events : x[1] = fd => x[2] = c
      <3>1. kernel[fd] \in {0, c}
        BY <1>5 DEF Accepts, Armed, TableInv, KernelKnows, NoneForgotten
      <3> QED BY <3>1 DEF TableInv, KernelKnows, NoneForgotten
    <2>3. NoneForgotten' /\ \A x \in events' : x[2] # 0
      <3> SUFFICES ASSUME NEW x \in events'
                   PROVE  kernel'[x[1]] = x[2] /\ x[2] # 0
        BY DEF NoneForgotten
      <3>1. CASE x \in events
        BY <1>5, <2>2, <3>1
           DEF TableInv, TypeTable, KernelKnows, NoneForgotten
      <3>2. CASE x \notin events
        <4>1. x[1] = fd /\ x[2] = c
          BY <1>5, <3>2
        <4> QED BY <1>1, <1>5, <4>1 DEF TableInv, TypeTable
      <3> QED BY <3>1, <3>2
    <2>4. \A f \in Fds : kernel'[f] # 0 => Armed(f, kernel[f])' # {}
      <3> SUFFICES ASSUME NEW f \in Fds, kernel'[f] # 0
                   PROVE  Armed(f, kernel[f])' # {}
        OBVIOUS
      <3>1. CASE f = fd
        <4>1. PICK e \in Events : e \in evs
          BY <1>1
        <4>2. kernel'[f] = c /\ <<f, c, e>> \in events'
          BY <1>5, <3>1, <4>1 DEF TableInv, TypeTable
        <4> QED BY <4>2 DEF Armed
      <3>2. CASE f # fd
        <4>1. kernel'[f] = kernel[f]
          BY <1>5, <3>2 DEF TableInv, TypeTable
        <4>2. PICK e \in Events : <<f, kernel[f], e>> \in events
          BY <4>1 DEF TableInv, KernelKnows, Armed
        <4> QED BY <1>5, <4>1, <4>2 DEF Armed
      <3> QED BY <3>1, <3>2
    <2>5. Orderly'
      <3>1. ~raced' => ~raced /\ ~failed'
        BY <1>2, <1>5 DEF TableInv, Orderly
      <3>2. ~raced => \A x \in events' : ctxOf'[x[1]] = x[2]
        BY <1>2, <1>4, <1>5 DEF TableInv, Orderly, slotVars
      <3> QED BY <1>2, <1>3, <3>1, <3>2 DEF TableInv, Orderly, slotVars
    <2> QED BY <1>3, <2>1, <2>3, <2>4, <2>5 DEF TableInv, KernelKnows
  <1>6. CASE ~Accepts(fd, c) /\ failed' = TRUE /\ UNCHANGED eventVars
    <2>1. raced
      <3> SUFFICES ASSUME ~raced PROVE FALSE
        OBVIOUS
      <3>1. kernel[fd] # 0 /\ Armed(fd, c) = {}
        BY <1>6 DEF Accepts
      <3>2. PICK e \in Events : <<fd, kernel[fd], e>> \in events
        BY <3>1 DEF TableInv, KernelKnows, Armed
      <3>3. kernel[fd] = c
        BY <1>4, <3>2 DEF TableInv, Orderly
      <3> QED BY <3>1, <3>2, <3>3 DEF Armed
    <2>2. TypeTable'
      BY <1>2, <1>3, <1>6 DEF TableInv, TypeTable, slotVars, eventVars
    <2>3. KernelKnows'
      BY <1>6 DEF TableInv, KernelKnows, NoneForgotten, Armed, eventVars
    <2>4. Orderly'
      BY <1>2, <2>1 DEF Orderly
    <2> QED BY <1>3, <2>2, <2>3, <2>4 DEF TableInv
  <1> QED BY <1>2, <1>5, <1>6

\* Events leave the context the kernel holds.
LEMMA DisarmKnows ==
  ASSUME TableInv, NEW fd \in Fds, NEW c \in Nat, NEW evs \in SUBSET Events,
         kernel[fd] = c, Disarm(fd, c, evs)
  PROVE  /\ KernelKnows' /\ events' \subseteq events
         /\ kernel' \in [Fds -> Nat]
  <1>1. /\ events' = events \ {<<fd, c, e>> : e \in evs}
        /\ events' \subseteq events
        /\ kernel' = IF Armed(fd, c) \subseteq evs
                       THEN [kernel EXCEPT ![fd] = 0] ELSE kernel
        /\ kernel' \in [Fds -> Nat]
        /\ events \subseteq Fds \X Nat \X Events
    BY DEF Disarm, TableInv, TypeTable
  <1>2. ASSUME NEW x \in events' PROVE kernel'[x[1]] = x[2] /\ x[2] # 0
    <2>1. x \in events /\ kernel[x[1]] = x[2] /\ x[2] # 0
      BY <1>1, <1>2 DEF TableInv, KernelKnows, NoneForgotten
    <2>2. CASE x[1] = fd
      <3>1. x = <<fd, c, x[3]>> /\ x[3] \in Events
        BY <1>1, <2>1, <2>2
      <3>2. x[3] \in Armed(fd, c) /\ x[3] \notin evs
        BY <1>1, <1>2, <2>1, <3>1 DEF Armed
      <3> QED BY <1>1, <2>1, <3>2
    <2>3. CASE x[1] # fd
      BY <1>1, <2>1, <2>3 DEF TableInv, TypeTable
    <2> QED BY <2>2, <2>3
  <1>3. ASSUME NEW f \in Fds, kernel'[f] # 0
        PROVE  Armed(f, kernel[f])' # {}
    <2>1. kernel'[f] = kernel[f]
      BY <1>1, <1>3 DEF TableInv, TypeTable
    <2>2. CASE f = fd
      <3>1. ~(Armed(fd, c) \subseteq evs)
        BY <1>1, <1>3, <2>2 DEF TableInv, TypeTable
      <3>2. PICK e \in Events : <<fd, c, e>> \in events /\ e \notin evs
        BY <3>1 DEF Armed
      <3>3. <<fd, c, e>> \in events'
        BY <1>1, <3>2
      <3> QED BY <2>1, <2>2, <3>3 DEF Armed
    <2>3. CASE f # fd
      <3>1. PICK e \in Events : <<f, kernel[f], e>> \in events
        BY <1>3, <2>1 DEF TableInv, KernelKnows, Armed
      <3>2. <<f, kernel[f], e>> \in events'
        BY <1>1, <2>3, <3>1
      <3> QED BY <2>1, <3>2 DEF Armed
    <2> QED BY <2>2, <2>3
  <1> QED BY <1>1, <1>2, <1>3 DEF KernelKnows, NoneForgotten

LEMMA RemoveEventSafe ==
  ASSUME TableInv, NEW t \in Threads, RemoveEvent(t) PROVE TableInv'
  <1>1. PICK fd \in Fds, c \in Nat, evs \in SUBSET Events :
          args[t].fd = fd /\ fdCtx[t] = c /\ args[t].evs = evs
    BY DEF RemoveEvent, Found, TableInv, TypeTable, Prepared, Args
  <1>2. /\ step[t] = "found" /\ Return(t)
        /\ UNCHANGED <<slotVars, raced, resizes>>
        /\ \/ /\ Armed(fd, c) \cap evs # {}
              /\ Disarm(fd, c, evs) /\ UNCHANGED failed
           \/ /\ Armed(fd, c) \cap evs = {}
              /\ failed' = (failed \/ evs \cap Registered(fd) # {})
              /\ UNCHANGED eventVars
    BY <1>1 DEF RemoveEvent, Found, Removed
  <1>3. /\ Prepared' /\ Filled'
        /\ step' \in [Threads -> {"free", "grow", "found"}]
        /\ args' \in [Threads -> Args \cup {NoArgs}]
        /\ fdCtx' \in [Threads -> Nat] /\ measured' \in [Threads -> Nat]
        /\ \A u \in Threads : step'[u] = "found" =>
              /\ step[u] = "found" /\ args'[u] = args[u]
              /\ fdCtx'[u] = fdCtx[u]
    BY <1>2, ReturnPrepared
  <1>4. CASE /\ Armed(fd, c) \cap evs # {}
             /\ Disarm(fd, c, evs) /\ UNCHANGED failed
    <2>1. kernel[fd] = c
      BY <1>4 DEF Armed, TableInv, KernelKnows, NoneForgotten
    <2>2. /\ KernelKnows' /\ events' \subseteq events
          /\ kernel' \in [Fds -> Nat]
      BY <1>4, <2>1, DisarmKnows
    <2>3. TypeTable'
      BY <1>2, <1>3, <1>4, <2>2 DEF TableInv, TypeTable, slotVars
    <2>4. Orderly'
      BY <1>2, <1>3, <1>4, <2>2 DEF TableInv, Orderly, slotVars
    <2> QED BY <1>3, <2>2, <2>3, <2>4 DEF TableInv
  <1>5. CASE /\ Armed(fd, c) \cap evs = {}
             /\ failed' = (failed \/ evs \cap Registered(fd) # {})
             /\ UNCHANGED eventVars
    <2>1. ~raced => evs \cap Registered(fd) = {}
      <3> SUFFICES ASSUME ~raced, NEW x \in events, x[1] = fd,
                          x[3] \in evs
                   PROVE  FALSE
        BY DEF Registered
      <3>1. x[2] = c
        BY <1>1, <1>2 DEF TableInv, Orderly
      <3>2. x = <<fd, c, x[3]>>
        BY <3>1 DEF TableInv, TypeTable
      <3> QED BY <1>5, <3>2 DEF Armed
    <2>2. /\ failed' \in BOOLEAN
          /\ ~raced' => ~raced /\ ~failed'
      BY <1>2, <1>5, <2>1 DEF TableInv, Orderly
    <2>3. TypeTable'
      BY <1>2, <1>3, <1>5, <2>2 DEF TableInv, TypeTable, slotVars, eventVars
    <2>4. KernelKnows'
      BY <1>5 DEF TableInv, KernelKnows, NoneForgotten, Armed, eventVars
    <2>5. Orderly'
      BY <1>2, <1>3, <1>5, <2>2 DEF TableInv, Orderly, slotVars, eventVars
    <2> QED BY <1>3, <2>3, <2>4, <2>5 DEF TableInv
  <1> QED BY <1>2, <1>4, <1>5

LEMMA TriggerSafe ==
  ASSUME TableInv, NEW fd \in Fds, NEW evs \in SUBSET Events,
         Trigger(fd, evs)
  PROVE  TableInv'
  <1>1. Disarm(fd, kernel[fd], evs)
    BY DEF Trigger
  <1>2. UNCHANGED <<slotVars, callVars, noteVars>>
    BY DEF Trigger
  <1>3. /\ KernelKnows' /\ events' \subseteq events
        /\ kernel' \in [Fds -> Nat]
    BY <1>1, DisarmKnows DEF TableInv, TypeTable
  <1>4. TypeTable'
    BY <1>2, <1>3 DEF TableInv, TypeTable, slotVars, callVars, noteVars
  <1>5. Filled' /\ Prepared'
    BY <1>2 DEF TableInv, Filled, Prepared, slotVars, callVars
  <1>6. Orderly'
    BY <1>2, <1>3 DEF TableInv, Orderly, slotVars, callVars, noteVars
  <1> QED BY <1>3, <1>4, <1>5, <1>6 DEF TableInv

-----------------------------------------------------------------------------
LEMMA NextTableSafe ==
  ASSUME TableInv, [NextTable]_tableVars PROVE TableInv'
  <1>1. CASE Construct
    BY <1>1, ConstructSafe
  <1>2. ASSUME size # 0, NEW t \in Threads, CallStep(t) PROVE TableInv'
    BY <1>2, LookUpSafe, GrowSafe, AddEventSafe, RemoveEventSafe
       DEF CallStep
  <1>3. ASSUME NEW fd \in Fds, NEW evs \in SUBSET Events, Trigger(fd, evs)
        PROVE  TableInv'
    BY <1>3, TriggerSafe
  <1>4. CASE UNCHANGED tableVars
    <2>1. UNCHANGED <<slotVars, eventVars, callVars, noteVars>>
      BY <1>4 DEF tableVars
    <2>2. TypeTable'
      BY <2>1 DEF TableInv, TypeTable, slotVars, eventVars, callVars, noteVars
    <2>3. Filled' /\ Prepared'
      BY <2>1 DEF TableInv, Filled, Prepared, slotVars, callVars
    <2>4. KernelKnows'
      BY <2>1 DEF TableInv, KernelKnows, NoneForgotten, Armed, eventVars
    <2>5. Orderly'
      BY <2>1 DEF TableInv, Orderly, slotVars, eventVars, callVars, noteVars
    <2> QED BY <2>2, <2>3, <2>4, <2>5 DEF TableInv
  <1> QED BY <1>1, <1>2, <1>3, <1>4 DEF NextTable

LEMMA TableFacts ==
  TableInv => TypeTable /\ InBounds /\ NoneForgotten /\ HarmedByRaceOnly
  BY DEF TableInv, Prepared, KernelKnows, Orderly, InBounds,
         HarmedByRaceOnly

\* For any threads, descriptors and resizes that cross in any way: addEvent
\* and the others always go on with a context (contextResize makes room for
\* the descriptor it is called for), and no registered event is in a context
\* other than the one epoll reports.
THEOREM TableSafe ==
  SpecTable => [](TypeTable /\ InBounds /\ NoneForgotten)
  <1>1. TableInv /\ [NextTable]_tableVars => TableInv'
    BY NextTableSafe
  <1>2. TableInv => TypeTable /\ InBounds /\ NoneForgotten
    BY TableFacts
  <1> QED BY <1>1, <1>2, InitTable, PTL DEF SpecTable

\* As long as contextResize is only called by a thread that has seen the size
\* it finds, every registered event is reached through the table and no call
\* of addEvent, delEvent or cancelEvent fails that should not.
THEOREM HarmNeedsRace == SpecTable => []HarmedByRaceOnly
  <1>1. TableInv /\ [NextTable]_tableVars => TableInv'
    BY NextTableSafe
  <1>2. TableInv => HarmedByRaceOnly
    BY TableFacts
  <1> QED BY <1>1, <1>2, InitTable, PTL DEF SpecTable

-----------------------------------------------------------------------------
(* The start of the pool.                                                  *)

Room == Count * MaxStarts

LEMMA RoomNat == Count \in Nat /\ Room \in Nat /\ Objects = 1..Room
  BY StartAssumption DEF Room, Objects

\* How far the loop of start() is, and what stop() has taken.
Counted ==
    /\ created <= Room /\ Len(threads) <= Count
    /\ call \in {"rest", "join"} => Len(threadIds) = created
    /\ call = "create" =>
         /\ Len(threadIds) = created /\ Len(threads) < Count
         /\ created + (Count - Len(threads)) <= Room
    /\ call = "collect" =>
         /\ Len(threadIds) = created - 1 /\ Len(threads) < Count
         /\ created + (Count - Len(threads)) <= Room + 1
    /\ call \in {"create", "collect"} => ~stopping
    /\ stopping => threads = <<>>
    /\ call # "join" => thrs = <<>> /\ joined = 0

\* A thread stores its id before it posts the semaphore.
Handshake ==
    \A t \in Objects :
        /\ place[t] = "none" <=> t > created
        /\ place[t] \in Places \ {"none", "born"} => mid[t] = t
        /\ sem[t] > 0 => place[t] \in Places \ {"none", "born", "stored"}

\* A thread that has not ended is in m_threads, or among those stop() has
\* still to join; the ones it has joined have ended.
Owned ==
    /\ \A t \in 1..created : place[t] # "ended" =>
         \/ call = "collect" /\ t = created
         \/ \E i \in 1..Len(threads) : threads[i] = t
         \/ \E i \in (joined + 1)..Len(thrs) : thrs[i] = t
    /\ \A i \in 1..joined : place[thrs[i]] = "ended"

\* While start() holds the lock nobody has a task: the threads of the last
\* start have ended, the new ones cannot take one.
NoneAtWork ==
    call \in {"create", "collect"} => \A t \in Objects : place[t] # "working"

StartInv ==
    /\ TypeStart /\ Counted /\ Handshake /\ Owned /\ NoneAtWork
    /\ IdsExact /\ DestroyedEnded

LEMMA InitStartInv == InitStart => StartInv
  <1> SUFFICES ASSUME InitStart PROVE StartInv
    OBVIOUS
  <1>1. TypeStart
    <2>1. /\ threads \in Seq(Objects) /\ thrs \in Seq(Objects)
          /\ threadIds \in Seq(Objects \cup {NoId}) /\ joined \in 0..Len(thrs)
      BY DEF InitStart
    <2>2. /\ place \in [Objects -> Places]
          /\ mid \in [Objects -> Objects \cup {NoId}]
          /\ sem \in [Objects -> Nat]
          /\ idle \in [Objects -> {"on", "asked", "over"}]
      BY DEF InitStart, Places
    <2> QED BY <2>1, <2>2 DEF InitStart, TypeStart
  <1>2. Counted
    BY RoomNat DEF InitStart, Counted
  <1>3. Handshake
    BY RoomNat DEF InitStart, Handshake
  <1>4. Owned /\ NoneAtWork /\ IdsExact /\ DestroyedEnded
    BY DEF InitStart, Owned, NoneAtWork, IdsExact, DestroyedEnded
  <1> QED BY <1>1, <1>2, <1>3, <1>4 DEF StartInv

-----------------------------------------------------------------------------
(* The owner.                                                              *)

LEMMA StartCallSafe == StartInv /\ StartCall => StartInv'
  <1> SUFFICES ASSUME StartInv, StartCall PROVE StartInv'
    OBVIOUS
  <1>1. /\ call = "rest" /\ stopping /\ stopping' = FALSE
        /\ created + Count <= Room
        /\ call' = IF Count = 0 THEN "rest" ELSE "create"
        /\ UNCHANGED <<created, alive, threads, threadIds, thrs, joined,
                       autoStop, objectVars, workVars>>
    BY DEF StartCall, Room
  <1>2. threads = <<>> /\ thrs = <<>> /\ joined = 0
    BY <1>1 DEF StartInv, Counted
  <1>3. TypeStart'
    BY <1>1 DEF StartInv, TypeStart, objectVars, workVars, idleVars
  <1>4. Counted'
    BY <1>1, <1>2, RoomNat DEF StartInv, TypeStart, Counted
  <1>5. Handshake'
    BY <1>1 DEF StartInv, Handshake, objectVars
  <1>6. \A t \in 1..created : place[t] = "ended"
    BY <1>1, <1>2 DEF StartInv, Owned
  <1>7. Owned'
    BY <1>1, <1>2, <1>6 DEF Owned, objectVars
  <1>8. NoneAtWork'
    <2>1. ASSUME NEW t \in Objects PROVE place[t] # "working"
      <3>1. t \in 1..created \/ t > created
        BY <2>1, RoomNat DEF StartInv, TypeStart
      <3> QED BY <1>6, <2>1, <3>1 DEF StartInv, Handshake
    <2> QED BY <1>1, <2>1 DEF NoneAtWork, objectVars
  <1>9. IdsExact' /\ DestroyedEnded'
    BY <1>1 DEF StartInv, IdsExact, DestroyedEnded, objectVars
  <1> QED BY <1>3, <1>4, <1>5, <1>7, <1>8, <1>9 DEF StartInv

LEMMA CreateSafe == StartInv /\ Create => StartInv'
  <1> SUFFICES ASSUME StartInv, Create PROVE StartInv'
    OBVIOUS
  <1>1. PICK k \in Objects :
          /\ k = created + 1 /\ created' = k
          /\ alive' = alive \cup {k}
          /\ place' = [place EXCEPT ![k] = "born"]
    <2>1. created \in Nat /\ created + 1 <= Room
      <3>1. /\ call = "create" /\ created \in Nat /\ Len(threads) \in Nat
            /\ Len(threads) < Count
            /\ created + (Count - Len(threads)) <= Room
        BY DEF Create, StartInv, TypeStart, Counted
      <3> QED BY <3>1, RoomNat
    <2>2. created + 1 \in Objects
      BY <2>1, RoomNat
    <2> QED BY <2>2 DEF Create
  <1>2. /\ call = "create" /\ call' = "collect"
        /\ UNCHANGED <<threads, threadIds, thrs, joined, flagVars, mid, sem,
                       workVars>>
    BY DEF Create
  <1>3. /\ created \in Nat /\ thrs = <<>> /\ joined = 0
        /\ place \in [Objects -> Places]
    BY <1>2 DEF StartInv, TypeStart, Counted
  <1>4. TypeStart'
    BY <1>1, <1>2 DEF StartInv, TypeStart, Places, flagVars, workVars, idleVars
  <1>5. Counted'
    BY <1>1, <1>2, <1>3, RoomNat DEF StartInv, TypeStart, Counted, flagVars
  <1>6. Handshake'
    BY <1>1, <1>2, <1>3, RoomNat DEF StartInv, TypeStart, Handshake
  <1>7. Owned'
    BY <1>1, <1>2, <1>3, RoomNat DEF StartInv, Owned
  <1>8. NoneAtWork' /\ IdsExact' /\ DestroyedEnded'
    BY <1>1, <1>2, <1>3, RoomNat
       DEF StartInv, NoneAtWork, IdsExact, DestroyedEnded
  <1> QED BY <1>4, <1>5, <1>6, <1>7, <1>8 DEF StartInv

LEMMA CollectSafe == StartInv /\ Collect => StartInv'
  <1> SUFFICES ASSUME StartInv, Collect PROVE StartInv'
    OBVIOUS
  <1>1. /\ call = "collect" /\ sem[created] > 0
        /\ sem' = [sem EXCEPT ![created] = sem[created] - 1]
        /\ threads' = Append(threads, created)
        /\ threadIds' = Append(threadIds, mid[created])
        /\ call' = IF Len(threads') = Count THEN "rest" ELSE "create"
        /\ UNCHANGED <<created, alive, thrs, joined, flagVars, place, mid,
                       workVars>>
    BY DEF Collect, Collected, SemWait
  <1>2. /\ created \in Objects /\ mid[created] = created
        /\ threads \in Seq(Objects) /\ threadIds \in Seq(Objects \cup {NoId})
        /\ Len(threadIds) = created - 1 /\ Len(threads) < Count
        /\ thrs = <<>> /\ joined = 0 /\ ~stopping
    <2>1. created \in Objects
      BY <1>1, RoomNat DEF StartInv, TypeStart, Counted
    <2>2. place[created] \in Places \ {"none", "born", "stored"}
      BY <1>1, <2>1 DEF StartInv, Handshake
    <2> QED BY <1>1, <2>1, <2>2
            DEF StartInv, TypeStart, Counted, Handshake, Places
  <1>3. /\ threads' \in Seq(Objects) /\ Len(threads') = Len(threads) + 1
        /\ threads'[Len(threads) + 1] = created
        /\ \A i \in 1..Len(threads) : threads'[i] = threads[i]
        /\ threadIds' \in Seq(Objects \cup {NoId})
        /\ Len(threadIds') = created
        /\ \A i \in 1..Len(threadIds') :
             threadIds'[i] = IF i = created THEN created ELSE threadIds[i]
    BY <1>1, <1>2, RoomNat
  <1>4. TypeStart'
    BY <1>1, <1>2, <1>3 DEF StartInv, TypeStart, flagVars, workVars, idleVars
  <1>5. Counted'
    BY <1>1, <1>2, <1>3, RoomNat DEF StartInv, TypeStart, Counted, flagVars
  <1>6. Handshake'
    BY <1>1, <1>2 DEF StartInv, TypeStart, Handshake
  <1>7. Owned'
    <2> SUFFICES ASSUME NEW t \in 1..created', place'[t] # "ended"
                 PROVE  \E i \in 1..Len(threads') : threads'[i] = t
      BY <1>1, <1>2 DEF Owned
    <2>1. CASE t = created
      BY <1>2, <1>3, <2>1
    <2>2. CASE t # created
      <3>1. PICK i \in 1..Len(threads) : threads[i] = t
        BY <1>1, <1>2, <2>2 DEF StartInv, Owned
      <3> QED BY <1>2, <1>3, <3>1
    <2> QED BY <2>1, <2>2
  <1>8. NoneAtWork' /\ DestroyedEnded'
    BY <1>1 DEF StartInv, NoneAtWork, DestroyedEnded
  <1>9. IdsExact'
    <2> SUFFICES ASSUME NEW i \in 1..Len(threadIds')
                 PROVE  threadIds'[i] = i
      BY <1>3 DEF IdsExact
    <2>1. i # created => i \in 1..Len(threadIds)
      BY <1>2, <1>3, RoomNat
    <2>2. i # created => threadIds[i] = i
      BY <1>2, <2>1 DEF StartInv, IdsExact
    <2> QED BY <1>3, <2>2
  <1> QED BY <1>4, <1>5, <1>6, <1>7, <1>8, <1>9 DEF StartInv

LEMMA StopCallSafe == StartInv /\ StopCall => StartInv'
  <1> SUFFICES ASSUME StartInv, StopCall PROVE StartInv'
    OBVIOUS
  <1>1. /\ call = "rest" /\ call' = "join"
        /\ autoStop' = TRUE /\ stopping' = TRUE
        /\ thrs' = threads /\ threads' = <<>>
        /\ UNCHANGED <<created, alive, threadIds, joined, objectVars,
                       workVars>>
    BY DEF StopCall
  <1>2. thrs = <<>> /\ joined = 0 /\ Len(threads) \in Nat
    BY <1>1 DEF StartInv, Counted, TypeStart
  <1>3. TypeStart'
    BY <1>1, <1>2 DEF StartInv, TypeStart, objectVars, workVars, idleVars
  <1>4. Counted'
    BY <1>1, RoomNat DEF StartInv, TypeStart, Counted
  <1>5. Handshake' /\ NoneAtWork' /\ IdsExact' /\ DestroyedEnded'
    BY <1>1 DEF StartInv, Handshake, NoneAtWork, IdsExact, DestroyedEnded,
                objectVars
  <1>6. Owned'
    BY <1>1, <1>2 DEF StartInv, Owned, objectVars
  <1> QED BY <1>3, <1>4, <1>5, <1>6 DEF StartInv

LEMMA JoinSafe == StartInv /\ Join => StartInv'
  <1> SUFFICES ASSUME StartInv, Join PROVE StartInv'
    OBVIOUS
  <1>1. /\ call = "join" /\ joined < Len(thrs)
        /\ place[thrs[joined + 1]] = "ended" /\ joined' = joined + 1
        /\ UNCHANGED <<call, created, alive, threads, threadIds, thrs,
                       flagVars, objectVars, workVars>>
    BY DEF Join
  <1>2. joined \in Nat /\ Len(thrs) \in Nat
    BY DEF StartInv, TypeStart
  <1>3. TypeStart'
    BY <1>1, <1>2
       DEF StartInv, TypeStart, flagVars, objectVars, workVars, idleVars
  <1>4. Counted' /\ Handshake' /\ NoneAtWork' /\ IdsExact' /\ DestroyedEnded'
    BY <1>1 DEF StartInv, Counted, Handshake, NoneAtWork, IdsExact,
                DestroyedEnded, flagVars, objectVars
  <1>5. Owned'
    BY <1>1, <1>2 DEF StartInv, Owned, objectVars
  <1> QED BY <1>3, <1>4, <1>5 DEF StartInv

LEMMA StopReturnSafe == StartInv /\ StopReturn => StartInv'
  <1> SUFFICES ASSUME StartInv, StopReturn PROVE StartInv'
    OBVIOUS
  <1>1. /\ call = "join" /\ joined = Len(thrs) /\ call' = "rest"
        /\ alive' = alive \ Range(thrs) /\ thrs' = <<>> /\ joined' = 0
        /\ UNCHANGED <<created, threads, threadIds, flagVars, objectVars,
                       workVars>>
    BY DEF StopReturn
  <1>2. joined \in Nat /\ thrs \in Seq(Objects)
    BY DEF StartInv, TypeStart
  <1>3. TypeStart'
    BY <1>1 DEF StartInv, TypeStart, flagVars, objectVars, workVars, idleVars
  <1>4. Counted' /\ Handshake' /\ NoneAtWork' /\ IdsExact'
    BY <1>1 DEF StartInv, Counted, Handshake, NoneAtWork, IdsExact,
                flagVars, objectVars
  <1>5. Owned'
    BY <1>1, <1>2 DEF StartInv, Owned, objectVars
  <1>6. DestroyedEnded'
    <2> SUFFICES ASSUME NEW t \in 1..created', t \notin alive'
                 PROVE  place[t] = "ended"
      BY <1>1 DEF DestroyedEnded, objectVars
    <2>1. CASE t \in Range(thrs)
      <3>1. PICK i \in 1..Len(thrs) : thrs[i] = t
        BY <1>2, <2>1 DEF Range
      <3> QED BY <1>1, <3>1 DEF StartInv, Owned
    <2>2. CASE t \notin Range(thrs)
      BY <1>1, <2>2 DEF StartInv, DestroyedEnded
    <2> QED BY <2>1, <2>2
  <1> QED BY <1>3, <1>4, <1>5, <1>6 DEF StartInv

-----------------------------------------------------------------------------
(* The threads.                                                            *)

\* A thread that moves on leaves the owner's records as they are.
LEMMA MoveSafe ==
  ASSUME StartInv, NEW t \in Objects,
         NEW p \in Places \ {"none", "born"}, MoveTo(t, p),
         UNCHANGED <<ownerVars, flagVars>>,
         place[t] # "ended", place[t] # "none",
         p = "working" => ~Locked
  PROVE  /\ place' \in [Objects -> Places]
         /\ Counted' /\ Owned' /\ NoneAtWork' /\ IdsExact'
         /\ DestroyedEnded'
  <1>1. /\ place' = [place EXCEPT ![t] = p]
        /\ place \in [Objects -> Places]
        /\ created \in Nat /\ thrs \in Seq(Objects)
        /\ joined \in 0..Len(thrs)
    BY DEF StartInv, TypeStart, MoveTo
  <1>2. Counted' /\ IdsExact'
    BY DEF StartInv, Counted, IdsExact, ownerVars, flagVars
  <1>3. \A u \in Objects : place[u] = "ended" => place'[u] = "ended"
    BY <1>1
  <1>4. 1..created \subseteq Objects
    BY <1>1, RoomNat DEF StartInv, Counted
  <1>5. \A i \in 1..joined : thrs[i] \in Objects
    BY <1>1
  <1>6. Owned'
    BY <1>1, <1>3, <1>4, <1>5 DEF StartInv, Owned, ownerVars
  <1>7. NoneAtWork'
    BY <1>1 DEF StartInv, NoneAtWork, ownerVars, Locked
  <1>8. DestroyedEnded'
    BY <1>3, <1>4 DEF StartInv, DestroyedEnded, ownerVars
  <1> QED BY <1>1, <1>2, <1>6, <1>7, <1>8

LEMMA StoreIdSafe ==
  ASSUME StartInv, NEW t \in Objects, StoreId(t) PROVE StartInv'
  <1>1. /\ place[t] = "born" /\ mid' = [mid EXCEPT ![t] = t]
        /\ MoveTo(t, "stored")
        /\ UNCHANGED <<ownerVars, flagVars, sem, workVars>>
    BY DEF StoreId
  <1>2. /\ place' \in [Objects -> Places]
        /\ Counted' /\ Owned' /\ NoneAtWork' /\ IdsExact' /\ DestroyedEnded'
    BY <1>1, MoveSafe DEF Places
  <1>3. TypeStart'
    <2>1. mid' \in [Objects -> Objects \cup {NoId}]
      BY <1>1 DEF StartInv, TypeStart
    <2> QED BY <1>1, <1>2, <2>1
            DEF StartInv, TypeStart, ownerVars, flagVars, workVars, idleVars
  <1>4. Handshake'
    BY <1>1 DEF StartInv, TypeStart, Handshake, MoveTo, ownerVars
  <1> QED BY <1>2, <1>3, <1>4 DEF StartInv

LEMMA NotifySafe ==
  ASSUME StartInv, NEW t \in Objects, Notify(t) PROVE StartInv'
  <1>1. /\ place[t] = "stored" /\ sem' = [sem EXCEPT ![t] = sem[t] + 1]
        /\ MoveTo(t, "ready")
        /\ UNCHANGED <<ownerVars, flagVars, mid, workVars>>
    BY DEF Notify, SemNotify
  <1>2. /\ place' \in [Objects -> Places]
        /\ Counted' /\ Owned' /\ NoneAtWork' /\ IdsExact' /\ DestroyedEnded'
    BY <1>1, MoveSafe DEF Places
  <1>3. TypeStart'
    <2>1. sem' \in [Objects -> Nat]
      BY <1>1 DEF StartInv, TypeStart
    <2> QED BY <1>1, <1>2, <2>1
            DEF StartInv, TypeStart, ownerVars, flagVars, workVars, idleVars
  <1>4. Handshake'
    BY <1>1 DEF StartInv, TypeStart, Handshake, MoveTo, ownerVars,
                Places
  <1> QED BY <1>2, <1>3, <1>4 DEF StartInv

LEMMA WorkSafe ==
  ASSUME StartInv, NEW t \in Objects,
         TakeTask(t) \/ Requeue(t) \/ Leave(t) \/ TaskStep(t)
  PROVE  StartInv'
  <1>1. PICK p \in {"ready", "working", "requeue", "ended"} :
          /\ MoveTo(t, p) /\ place[t] \in {"ready", "working", "requeue"}
          /\ p = "working" => ~Locked
          /\ UNCHANGED <<ownerVars, flagVars, mid, sem, idleVars>>
    BY DEF TakeTask, Requeue, Leave, TaskStep, FinishTask, YieldReady,
           workVars
  <1>2. /\ place' \in [Objects -> Places]
        /\ Counted' /\ Owned' /\ NoneAtWork' /\ IdsExact' /\ DestroyedEnded'
    BY <1>1, MoveSafe DEF Places
  <1>3. tasks' \in Nat
    BY DEF StartInv, TypeStart, TakeTask, Requeue, Leave, TaskStep,
           FinishTask, YieldReady, workVars
  <1>4. TypeStart'
    BY <1>1, <1>2, <1>3 DEF StartInv, TypeStart, ownerVars, flagVars, idleVars
  <1>5. Handshake'
    BY <1>1 DEF StartInv, TypeStart, Handshake, MoveTo, ownerVars, Places
  <1> QED BY <1>2, <1>4, <1>5 DEF StartInv

\* The idle fiber's turns and a schedule() touch only its own state and the
\* count of tasks.
LEMMA TurnSafe ==
  ASSUME StartInv, UNCHANGED <<ownerVars, flagVars, objectVars>>,
         idle' \in [Objects -> {"on", "asked", "over"}], tasks' \in Nat,
         hasty' \in BOOLEAN
  PROVE  StartInv'
  BY DEF StartInv, TypeStart, Counted, Handshake, Owned, NoneAtWork,
         IdsExact, DestroyedEnded, ownerVars, flagVars, objectVars

LEMMA IdleSafe ==
  ASSUME StartInv, NEW t \in Objects,
         Idle(t) \/ \E also \in BOOLEAN : Answer(t, also)
  PROVE  StartInv'
  <1>1. PICK how \in {"on", "asked", "over"} : TurnIdle(t, how)
    BY DEF Idle, Answer
  <1>2. hasty' \in BOOLEAN
    BY DEF Idle, Answer, StartInv, TypeStart
  <1>3. idle' \in [Objects -> {"on", "asked", "over"}] /\ tasks' \in Nat
    BY <1>1 DEF TurnIdle, StartInv, TypeStart
  <1> QED BY <1>1, <1>2, <1>3, TurnSafe DEF TurnIdle

LEMMA ScheduleSafe ==
  ASSUME StartInv, NEW n \in Nat, Schedule(n) PROVE StartInv'
  BY TurnSafe DEF Schedule, StartInv, TypeStart, idleVars

-----------------------------------------------------------------------------
LEMMA NextStartSafe ==
  ASSUME StartInv, [NextStart]_startVars PROVE StartInv'
  <1>1. CASE Submit \/ StartCall \/ StopCall
    BY <1>1, ScheduleSafe, StartCallSafe, StopCallSafe DEF Submit
  <1>2. CASE OwnerStep
    BY <1>2, CreateSafe, CollectSafe, JoinSafe, StopReturnSafe DEF OwnerStep
  <1>3. CASE UNCHANGED startVars
    BY <1>3
       DEF StartInv, TypeStart, Counted, Handshake, Owned, NoneAtWork,
           IdsExact, DestroyedEnded, startVars, ownerVars, flagVars,
           objectVars, workVars, idleVars
  <1>4. ASSUME NEW t \in Objects, ThreadStep(t) PROVE StartInv'
    BY <1>4, StoreIdSafe, NotifySafe, WorkSafe, IdleSafe
       DEF ThreadStep, RunStep
  <1>5. ASSUME NEW n \in Nat, Schedule(n) PROVE StartInv'
    BY <1>5, ScheduleSafe
  <1> QED BY <1>1, <1>2, <1>3, <1>4, <1>5 DEF NextStart

LEMMA StartFacts ==
  StartInv => TypeStart /\ IdsExact /\ ListComplete /\ DestroyedEnded
  <1> SUFFICES ASSUME StartInv PROVE ListComplete
    BY DEF StartInv
  <1>1. CASE Working # {}
    BY <1>1 DEF StartInv, TypeStart, NoneAtWork, Counted, ListComplete,
                Working
  <1> QED BY <1>1 DEF ListComplete

\* Whatever the size of the pool and however often it is started: each id
\* start() lists is that of the thread whose semaphore it waited for, a task
\* finds the list complete, and stop() destroys no Thread object whose thread
\* has not ended.
THEOREM StartSafe ==
  SpecStart => [](TypeStart /\ IdsExact /\ ListComplete /\ DestroyedEnded)
  <1>1. StartInv /\ [NextStart]_startVars => StartInv'
    BY NextStartSafe
  <1> QED BY <1>1, InitStartInv, StartFacts, PTL DEF SpecStart

-----------------------------------------------------------------------------
(* The composition.                                                        *)

\* The constructor makes the table before it starts the threads.
TableFirst ==
    size = 0 => \A t \in Objects : place[t] \notin {"ready", "working"}

StartupInv == TableInv /\ StartInv /\ TableFirst

\* Every step is one of the pool, or leaves the pool alone.
\* A task has something to schedule for each event it takes away.
LEMMA SomeRemoved ==
  ASSUME NEW evs, evs \subseteq Events PROVE Cardinality(evs) \in Nat
  BY TableAssumption, FS_Subset, FS_CardinalityType

\* Every step is one of the pool, or leaves the pool alone.
LEMMA StepOfPool == [Next]_vars => [NextStart]_startVars
  <1> SUFFICES ASSUME [Next]_vars PROVE [NextStart]_startVars
    OBVIOUS
  <1>1. CASE (Construct /\ UNCHANGED startVars) \/ UNCHANGED vars
    BY <1>1 DEF vars
  <1>2. CASE Managing
    BY <1>2 DEF Managing, NextStart, ThreadStep
  <1>3. ASSUME NEW t \in Objects, AskPending(t)
        PROVE  \E also \in BOOLEAN : Answer(t, also)
    BY <1>3 DEF AskPending
  <1>4. ASSUME NEW t \in Objects, Tasking(t) PROVE [NextStart]_startVars
    <2>1. Cardinality(Removed(t)) \in Nat
      BY SomeRemoved DEF Removed, Armed
    <2> QED BY <1>4, <2>1 DEF Tasking, Removing, NextStart, ThreadStep
  <1>5. ASSUME NEW fd \in Fds, NEW evs \in SUBSET Events, Polling(fd, evs)
        PROVE  NextStart
    BY <1>5, SomeRemoved DEF Polling, NextStart
  <1> QED BY <1>1, <1>2, <1>3, <1>4, <1>5 DEF Next, NextStart, ThreadStep

\* Every step is one of the table, or leaves the table alone.
LEMMA StepOfTable ==
  ASSUME TableFirst, [Next]_vars PROVE [NextTable]_tableVars
  <1>1. CASE (Construct /\ UNCHANGED startVars) \/ Managing
    BY <1>1 DEF Managing, NextTable
  <1>2. ASSUME NEW t \in Objects, Tasking(t) PROVE [NextTable]_tableVars
    <2>1. t \in Threads /\ size # 0
      BY <1>2, StartupAssumption DEF Tasking, TableFirst
    <2> QED BY <1>2, <2>1 DEF Tasking, Removing, CallStep, NextTable
  <1>3. ASSUME NEW fd \in Fds, NEW evs \in SUBSET Events, Polling(fd, evs)
        PROVE  [NextTable]_tableVars
    <2>1. size # 0
      BY <1>3 DEF Polling, TableFirst
    <2> QED BY <1>3, <2>1 DEF Polling, NextTable
  <1>4. ASSUME NEW t \in Objects, AskPending(t) PROVE UNCHANGED tableVars
    BY <1>4 DEF AskPending
  <1>5. CASE UNCHANGED vars
    BY <1>5 DEF vars
  <1> QED BY <1>1, <1>2, <1>3, <1>4, <1>5 DEF Next

\* No call empties the table.
LEMMA StaysBuilt ==
  ASSUME TableInv, NEW t \in Threads, CallStep(t), size # 0
  PROVE  size' # 0
  <1>1. CASE Grow(t)
    <2>1. PICK fd \in Fds : args[t].fd = fd /\ fd \in Nat /\ fd >= 2
      <3>1. /\ args[t] \in Args /\ measured[t] \in Nat
            /\ measured[t] >= InitSize /\ args[t].fd >= measured[t]
        BY <1>1 DEF Grow, TableInv, TypeTable, Prepared
      <3>2. PICK fd \in Fds : args[t].fd = fd
        BY <3>1 DEF Args
      <3> QED BY <3>1, <3>2, TableAssumption
    <2>2. size' = fd + fd \div 2
      BY <1>1, <2>1 DEF Grow, ContextResize
    <2> QED BY <2>1, <2>2, HalfMore
  <1>2. CASE LookUp(t) \/ AddEvent(t) \/ RemoveEvent(t)
    BY <1>2 DEF LookUp, AddEvent, RemoveEvent, slotVars
  <1> QED BY <1>1, <1>2 DEF CallStep

LEMMA TableFirstStep ==
  ASSUME StartupInv, [Next]_vars PROVE TableFirst'
  <1>1. CASE Construct /\ UNCHANGED startVars
    BY <1>1, TableAssumption DEF Construct, ContextResize, TableFirst
  <1>2. CASE Managing
    BY <1>2 DEF Managing, Constructed, TableFirst, tableVars, slotVars
  <1>3. ASSUME NEW t \in Objects, Tasking(t) PROVE TableFirst'
    <2>1. t \in Threads /\ size # 0
      BY <1>3, StartupAssumption DEF Tasking, StartupInv, TableFirst
    <2>2. CASE CallStep(t)
      BY <2>1, <2>2, StaysBuilt DEF StartupInv, TableFirst
    <2>3. CASE UNCHANGED tableVars
      BY <2>1, <2>3 DEF TableFirst, tableVars, slotVars
    <2> QED BY <1>3, <2>2, <2>3 DEF Tasking, Removing, CallStep
  <1>4. ASSUME NEW fd \in Fds, NEW evs \in SUBSET Events, Polling(fd, evs)
        PROVE  TableFirst'
    BY <1>4 DEF Polling, Trigger, StartupInv, TableFirst, slotVars
  <1>5. ASSUME NEW t \in Objects, AskPending(t) PROVE TableFirst'
    BY <1>5 DEF AskPending, Answer, TurnIdle, objectVars, StartupInv,
                TableFirst, tableVars, slotVars
  <1>6. CASE UNCHANGED vars
    BY <1>6 DEF vars, startVars, objectVars, tableVars, slotVars,
                StartupInv, TableFirst
  <1> QED BY <1>1, <1>2, <1>3, <1>4, <1>5, <1>6 DEF Next

LEMMA InitStartup == Init => StartupInv
  <1>1. Init => TableFirst
    BY DEF Init, InitStart, TableFirst
  <1> QED BY <1>1, InitTable, InitStartInv DEF Init, StartupInv

LEMMA NextStartup == StartupInv /\ [Next]_vars => StartupInv'
  BY StepOfPool, StepOfTable, NextStartSafe, NextTableSafe, TableFirstStep
     DEF StartupInv

\* The composition implements its two parts: no task touches the table before
\* contextResize(32) has made it, although start() runs in the constructor.
THEOREM StartupImplementsParts == Spec => SpecStart /\ SpecTable
  <1>1. StartupInv => TableFirst
    BY DEF StartupInv
  <1>2. TableFirst /\ [Next]_vars => [NextTable]_tableVars
    BY StepOfTable
  <1>3. Init => InitStart /\ InitEmpty
    BY DEF Init
  <1> QED BY <1>1, <1>2, <1>3, StepOfPool, InitStartup, NextStartup,
             PTL DEF Spec, SpecStart, SpecTable

\* So it has what is proved of the pool: exact ids, a complete list of
\* threads for every task, no Thread object destroyed under its thread.
THEOREM StartupPool == Spec => [](IdsExact /\ ListComplete /\ DestroyedEnded)
  BY StartupImplementsParts, StartSafe, PTL

\* And what is proved of the table, for the threads of the pool.
THEOREM StartupTable ==
  Spec => [](InBounds /\ NoneForgotten /\ HarmedByRaceOnly)
  BY StartupImplementsParts, TableSafe, HarmNeedsRace, PTL

-----------------------------------------------------------------------------
(* stop() leaves no event behind.                                          *)

\* The threads that have not ended, those of them whose idle fiber goes
\* round, and those whose idle fiber has still to ask the count of events.
Present == {t \in Objects : place[t] \notin {"none", "ended"}}
Awake == {t \in Present : idle[t] = "on"}
Asking == {t \in Present : idle[t] = "asked"}

\* A thread begins awake, and gives that up only under stop().
Retreat ==
    /\ \A t \in Objects :
         place[t] \in {"none", "born", "stored"} => idle[t] = "on"
    /\ call = "join" => stopping
    /\ \A t \in Present : idle[t] # "on" => call = "join"

\* When the last idle fiber has asked Scheduler::stopping there is no task,
\* hence nobody who would make one; when the last has asked the count as
\* well there is no event either.
LastOneLooks ==
    ~hasty /\ Awake = {} =>
        /\ Working = {} /\ Yielding = {}
        /\ Present # {} => tasks = 0
        /\ Asking = {} => events = {}

CleanInv == StartupInv /\ Retreat /\ LastOneLooks

\* While stop() has not returned, its threads are those of the last start().
LEMMA PresentUnderStop ==
  ASSUME StartInv, stopping, NEW t \in Present
  PROVE  call = "join" /\ joined < Len(thrs)
  <1>1. t \in 1..created /\ place[t] # "ended"
    BY RoomNat DEF Present, StartInv, Handshake, TypeStart
  <1>2. call \notin {"create", "collect"} /\ threads = <<>>
    BY DEF StartInv, Counted
  <1>3. PICK i \in (joined + 1)..Len(thrs) : thrs[i] = t
    BY <1>1, <1>2 DEF StartInv, Owned
  <1>4. joined \in Nat /\ Len(thrs) \in Nat
    BY DEF StartInv, TypeStart
  <1>5. joined < Len(thrs)
    BY <1>3, <1>4
  <1>6. call \in {"rest", "create", "collect", "join"}
    BY DEF StartInv, TypeStart
  <1>7. call # "rest"
    BY <1>4, <1>5 DEF StartInv, Counted
  <1> QED BY <1>2, <1>5, <1>6, <1>7

\* The owner's steps.
LEMMA OwnerRetreats ==
  ASSUME CleanInv, Managing,
         \/ Submit \/ StartCall \/ StopCall \/ OwnerStep
  PROVE  Retreat' /\ LastOneLooks'
  <1> USE DEF CleanInv, StartupInv
  <1>1. UNCHANGED <<events, idleVars>>
    BY DEF Managing, tableVars, eventVars, Submit, Schedule, StartCall,
           StopCall, OwnerStep, Create, Collect, Join, StopReturn, workVars
  <1>2. CASE Submit
    <2>1. call = "rest" /\ UNCHANGED <<ownerVars, flagVars, objectVars>>
      BY <1>2 DEF Submit, Schedule
    <2>2. Retreat' /\ Present' = Present /\ Awake' = Awake
          /\ Asking' = Asking /\ Working' = Working /\ Yielding' = Yielding
      BY <1>1, <2>1 DEF Retreat, Present, Awake, Asking, Working, Yielding,
                        ownerVars, flagVars, objectVars, idleVars
    <2>3. Awake = {} => Present = {}
      BY <2>1 DEF Retreat, Awake
    <2> QED BY <1>1, <2>2, <2>3 DEF LastOneLooks, idleVars
  <1>3. CASE Create
    <2>1. PICK k \in Objects : place' = [place EXCEPT ![k] = "born"]
                               /\ place[k] = "none"
      <3>1. created + 1 \in Objects
        BY <1>3, RoomNat DEF Create, StartInv, Counted, TypeStart
      <3>2. place[created + 1] = "none"
        BY <3>1, RoomNat DEF StartInv, Handshake, TypeStart
      <3> QED BY <1>3, <3>1, <3>2 DEF Create
    <2>2. call = "create" /\ call' = "collect"
      BY <1>3 DEF Create
    <2>3. idle[k] = "on" /\ idle' = idle /\ place \in [Objects -> Places]
      BY <1>1, <2>1 DEF Retreat, idleVars, StartInv, TypeStart
    <2>4. k \in Awake'
      BY <2>1, <2>3 DEF Awake, Present
    <2>5. Retreat'
      BY <2>1, <2>2, <2>3 DEF Retreat, Present
    <2> QED BY <2>4, <2>5 DEF LastOneLooks
  <1>4. CASE StartCall \/ StopCall \/ Collect \/ Join \/ StopReturn
    <2>1. UNCHANGED <<place, tasks>>
      BY <1>4 DEF StartCall, StopCall, Collect, Join, StopReturn,
                  objectVars, workVars
    <2>2. /\ Present' = Present /\ Awake' = Awake /\ Asking' = Asking
          /\ Working' = Working /\ Yielding' = Yielding
      BY <1>1, <2>1 DEF Present, Awake, Asking, Working, Yielding, idleVars
    <2>3. LastOneLooks'
      BY <1>1, <2>1, <2>2 DEF LastOneLooks, idleVars
    <2>4. call' = "join" => stopping'
      BY <1>4 DEF Retreat, StartCall, StopCall, Collect, Collected, Join,
                  StopReturn, flagVars
    <2>5. ASSUME NEW t \in Present, idle[t] # "on" PROVE call' = "join"
      <3>1. call = "join" /\ stopping
        BY <2>5 DEF Retreat
      <3>2. joined < Len(thrs) /\ joined \in Nat /\ Len(thrs) \in Nat
        BY <3>1, PresentUnderStop DEF StartInv, TypeStart
      <3>3. ~StopReturn
        BY <3>2 DEF StopReturn
      <3> QED BY <1>4, <3>1, <3>3
              DEF StartCall, StopCall, Collect, Join
    <2> QED BY <1>1, <2>1, <2>2, <2>3, <2>4, <2>5 DEF Retreat, idleVars
  <1> QED BY <1>2, <1>3, <1>4 DEF OwnerStep

\* The threads' steps in run() and in idle().
LEMMA ThreadRetreats ==
  ASSUME CleanInv, NEW t \in Objects,
         RunStep(t) \/ TaskStep(t) \/ AskPending(t), UNCHANGED tableVars
  PROVE  Retreat' /\ LastOneLooks'
  <1> USE DEF CleanInv, StartupInv
  <1>1. /\ UNCHANGED <<call, stopping, events>>
        /\ place \in [Objects -> Places]
        /\ idle \in [Objects -> {"on", "asked", "over"}] /\ tasks \in Nat
    BY DEF RunStep, TaskStep, AskPending, StoreId, Notify, TakeTask, Requeue,
           FinishTask, YieldReady, Idle, Leave, Answer, TurnIdle, ownerVars,
           flagVars, tableVars, eventVars, StartInv, TypeStart
  <1>2. CASE StoreId(t) \/ Notify(t)
    <2>1. PICK p \in {"stored", "ready"} : place' = [place EXCEPT ![t] = p]
      BY <1>2 DEF StoreId, Notify, MoveTo
    <2>2. idle[t] = "on" /\ idle' = idle
      BY <1>2 DEF StoreId, Notify, Retreat, workVars, idleVars
    <2>3. t \in Awake'
      BY <1>1, <2>1, <2>2 DEF Awake, Present
    <2>4. place[t] \in {"born", "stored"}
      BY <1>2 DEF StoreId, Notify
    <2>5. Retreat'
      BY <1>1, <2>1, <2>2, <2>4 DEF Retreat, Present
    <2> QED BY <2>3, <2>5 DEF LastOneLooks
  <1>3. CASE TakeTask(t) \/ Requeue(t) \/ TaskStep(t)
    <2>1. /\ UNCHANGED idleVars
          /\ \E p \in {"ready", "working", "requeue"} :
               place' = [place EXCEPT ![t] = p]
          /\ \/ place[t] = "ready" /\ tasks > 0
             \/ t \in Working \cup Yielding
      BY <1>3 DEF TakeTask, Requeue, TaskStep, FinishTask, YieldReady,
                  MoveTo, workVars, Working, Yielding
    <2>2. t \in Present /\ Present' = Present /\ Awake' = Awake
      BY <1>1, <2>1 DEF Present, Awake, Working, Yielding, idleVars
    <2>3. Retreat'
      BY <1>1, <2>1, <2>2 DEF Retreat, idleVars
    <2>4. LastOneLooks'
      BY <1>1, <2>1, <2>2 DEF LastOneLooks, idleVars
    <2> QED BY <2>3, <2>4
  <1>4. CASE Leave(t)
    <2>1. /\ UNCHANGED <<idle, hasty, tasks>> /\ tasks = 0
          /\ place' = [place EXCEPT ![t] = "ended"]
          /\ idle[t] = "over" /\ place[t] = "ready"
      BY <1>4 DEF Leave, MoveTo, workVars, idleVars
    <2>2. /\ Present' = Present \ {t} /\ Awake' = Awake /\ Asking' = Asking
      BY <1>1, <2>1 DEF Present, Awake, Asking
    <2>3. Working' = Working /\ Yielding' = Yielding
      BY <1>1, <2>1 DEF Working, Yielding
    <2>4. Retreat'
      BY <1>1, <2>1, <2>2 DEF Retreat
    <2> QED BY <1>1, <2>1, <2>2, <2>3, <2>4 DEF LastOneLooks
  <1>5. CASE Idle(t)
    <2>1. place[t] = "ready" /\ idle[t] = "on" /\ t \in Present
      BY <1>5 DEF Idle, Present
    <2>2. UNCHANGED <<objectVars, tasks>>
      BY <1>5 DEF Idle, TurnIdle
    <2>3. CASE Stopping
      <3>1. /\ idle' = [idle EXCEPT ![t] = "asked"]
            /\ ~hasty' => Yielding = {}
            /\ tasks = 0 /\ Working = {} /\ stopping
        BY <1>5, <2>3 DEF Idle, TurnIdle, Stopping
      <3>2. call = "join"
        BY <2>1, <3>1, PresentUnderStop
      <3>3. t \in Asking'
        BY <1>1, <2>1, <2>2, <3>1 DEF Asking, Present, objectVars
      <3>4. Working' = Working /\ Yielding' = Yielding
        BY <2>2 DEF Working, Yielding, objectVars
      <3>5. LastOneLooks'
        BY <2>2, <3>1, <3>3, <3>4 DEF LastOneLooks
      <3>6. Retreat'
        BY <1>1, <2>1, <2>2, <3>1, <3>2 DEF Retreat, objectVars
      <3> QED BY <3>5, <3>6
    <2>4. CASE ~Stopping
      <3>1. UNCHANGED <<idle, hasty>>
        BY <1>1, <1>5, <2>1, <2>4 DEF Idle, TurnIdle, StartInv, TypeStart
      <3>2. t \in Awake'
        BY <2>1, <2>2, <3>1 DEF Awake, Present, objectVars
      <3>3. Retreat'
        BY <1>1, <2>2, <3>1 DEF Retreat, Present, objectVars
      <3> QED BY <3>2, <3>3 DEF LastOneLooks
    <2> QED BY <2>3, <2>4
  <1>6. CASE AskPending(t)
    <2>1. /\ idle[t] = "asked" /\ UNCHANGED <<objectVars, tasks, hasty>>
          /\ idle' = [idle EXCEPT ![t] = IF events = {} THEN "over" ELSE "on"]
      BY <1>6 DEF AskPending, Answer, TurnIdle
    <2>2. Present' = Present /\ Working' = Working /\ Yielding' = Yielding
      BY <2>1 DEF Present, Working, Yielding, objectVars
    <2>3. Retreat'
      BY <1>1, <2>1, <2>2 DEF Retreat, objectVars
    <2>4. Awake' = {} => Awake = {}
      BY <1>1, <2>1, <2>2 DEF Awake
    <2>5. CASE events = {}
      BY <1>1, <2>1, <2>2, <2>3, <2>4, <2>5 DEF LastOneLooks
    <2>6. CASE events # {}
      <3>1. t \in Present => t \in Awake'
        BY <1>1, <2>1, <2>2, <2>6 DEF Awake
      <3>2. t \notin Present => Asking' = Asking
        BY <1>1, <2>1, <2>2 DEF Asking
      <3> QED BY <1>1, <2>1, <2>2, <2>3, <2>4, <3>1, <3>2 DEF LastOneLooks
    <2> QED BY <2>5, <2>6
  <1> QED BY <1>2, <1>3, <1>4, <1>5, <1>6 DEF RunStep

\* A call, or epoll's answer, needs a thread that has not asked.
LEMMA EventsNeedAThread ==
  ASSUME CleanInv, UNCHANGED <<ownerVars, flagVars, objectVars, idleVars>>,
         Working # {} \/ Awake # {}
  PROVE  Retreat' /\ LastOneLooks'
  <1>1. /\ Present' = Present /\ Awake' = Awake /\ Working' = Working
        /\ hasty' = hasty
    BY DEF Present, Awake, Working, objectVars, idleVars
  <1>2. Retreat'
    BY <1>1 DEF CleanInv, Retreat, ownerVars, flagVars, objectVars, idleVars
  <1>3. LastOneLooks'
    BY <1>1 DEF CleanInv, LastOneLooks
  <1> QED BY <1>2, <1>3

LEMMA CleanStep == CleanInv /\ [Next]_vars => CleanInv'
  <1> SUFFICES ASSUME CleanInv, [Next]_vars PROVE Retreat' /\ LastOneLooks'
    BY NextStartup DEF CleanInv
  <1>1. CASE (Construct /\ UNCHANGED startVars) \/ UNCHANGED vars
    <2>1. UNCHANGED <<call, stopping, place, idle, hasty, tasks, events>>
      BY <1>1 DEF Construct, vars, startVars, tableVars, ownerVars, flagVars,
                  objectVars, workVars, idleVars, eventVars
    <2> QED BY <2>1 DEF CleanInv, Retreat, LastOneLooks, Present, Awake,
                        Asking, Working, Yielding
  <1>2. CASE Managing
    BY <1>2, OwnerRetreats, ThreadRetreats DEF Managing
  <1>3. ASSUME NEW t \in Objects, AskPending(t)
        PROVE  Retreat' /\ LastOneLooks'
    BY <1>3, ThreadRetreats DEF AskPending
  <1>4. ASSUME NEW t \in Objects, Tasking(t)
        PROVE  Retreat' /\ LastOneLooks'
    <2>1. Working # {}
      BY <1>4 DEF Tasking, Working
    <2>2. CASE TaskStep(t) /\ UNCHANGED tableVars
      BY <2>2, ThreadRetreats
    <2>3. CASE UNCHANGED startVars \/ \E n \in {Cardinality(Removed(t))} :
                 Schedule(n)
      <3>1. UNCHANGED <<ownerVars, flagVars, objectVars, idleVars>>
        BY <2>3 DEF Schedule, startVars, workVars
      <3> QED BY <2>1, <3>1, EventsNeedAThread
    <2> QED BY <1>4, <2>2, <2>3 DEF Tasking, Removing
  <1>5. ASSUME NEW fd \in Fds, NEW evs \in SUBSET Events, Polling(fd, evs)
        PROVE  Retreat' /\ LastOneLooks'
    <2>1. Awake # {} /\ UNCHANGED <<ownerVars, flagVars, objectVars, idleVars>>
      BY <1>5 DEF Polling, Schedule, Awake, Present
    <2> QED BY <2>1, EventsNeedAThread
  <1> QED BY <1>1, <1>2, <1>3, <1>4, <1>5 DEF Next

\* For any number of threads, starts, descriptors and crossed resizes: if no
\* task yields READY while stop() is under way, stop() returns only when no
\* event is registered, those of dropped contexts included.
THEOREM NoEventLeft == Spec => []StopsClean
  <1>1. Init => CleanInv
    <2>1. Init => Retreat
      BY DEF Init, InitStart, Retreat, Present
    <2>2. Init => LastOneLooks
      BY DEF Init, InitStart, InitEmpty, LastOneLooks, Present, Working,
             Yielding
    <2> QED BY <2>1, <2>2, InitStartup DEF CleanInv
  <1>2. CleanInv => StopsClean
    <2> SUFFICES ASSUME CleanInv, call = "join", joined = Len(thrs), ~hasty
                 PROVE  events = {}
      BY DEF StopsClean
    <2>1. Present = {}
      <3> SUFFICES ASSUME NEW t \in Present PROVE FALSE
        OBVIOUS
      <3>1. joined < Len(thrs)
        BY PresentUnderStop DEF CleanInv, StartupInv, Retreat
      <3>2. Len(thrs) \in Nat
        BY DEF CleanInv, StartupInv, StartInv, TypeStart
      <3> QED BY <3>1, <3>2
    <2> QED BY <2>1 DEF CleanInv, LastOneLooks, Awake, Asking
  <1> QED BY <1>1, <1>2, CleanStep, PTL DEF Spec
=============================================================================
