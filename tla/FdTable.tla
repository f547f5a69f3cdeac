------------------------------ MODULE FdTable ------------------------------
(***************************************************************************)
(* The table of descriptor contexts of the IOManager (iomanager.cc) and    *)
(* the lock around it: m_fdContexts is looked up under the read lock and   *)
(* resized under the write lock, and between the two another thread may    *)
(* resize it.  A context dropped from the table is leaked; the kernel      *)
(* still holds its address.                                                *)
(*                                                                         *)
(* IOManager models what is done with one context; here a context is only  *)
(* its set of events.  The lookup, the resize and what follows under the   *)
(* context's own mutex are steps of their own.                             *)
(***************************************************************************)
EXTENDS Naturals, FiniteSets

CONSTANTS
    Threads,      \* the threads that add and remove events
    Fds,          \* the descriptors used
    Events,       \* READ and WRITE
    InitSize,     \* the size the constructor asks for: 32
    MaxResizes    \* bound: calls that resize

ASSUME TableAssumption ==
    /\ Fds \subseteq Nat
    /\ IsFiniteSet(Events)
    /\ InitSize \in Nat /\ InitSize >= 2
    /\ MaxResizes \in Nat

\* The contexts of a descriptor are numbered as they are made; 0 is null.
VARIABLES
    size,         \* m_fdContexts.size()
    ctxOf,        \* m_fdContexts, for the descriptors used
    made,         \* contexts made for each of them
    events,       \* the events of the contexts: <<fd, number, event>>
    kernel,       \* the context epoll holds for each descriptor
    step,         \* where each thread is in its call
    args,         \* the arguments of the call
    fdCtx,        \* its local fd_ctx
    measured,     \* the size it compared the descriptor with
    raced,        \* history: a table was resized by a thread that had
                  \* measured another size
    failed,       \* history: a call failed without a reason of the caller's
    resizes       \* counter of the bound

slotVars == <<size, ctxOf, made>>
eventVars == <<events, kernel>>
callVars == <<step, args, fdCtx, measured>>
noteVars == <<raced, failed, resizes>>
tableVars == <<slotVars, eventVars, callVars, noteVars>>

Args == [op : {"add", "remove"}, fd : Fds, evs : SUBSET Events]
NoArgs == [op |-> "none", fd |-> 0, evs |-> {}]

\* Before the constructor has called contextResize(InitSize).
InitEmpty ==
    /\ size = 0
    /\ ctxOf = [fd \in Fds |-> 0] /\ made = [fd \in Fds |-> 0]
    /\ events = {} /\ kernel = [fd \in Fds |-> 0]
    /\ step = [t \in Threads |-> "free"]
    /\ args = [t \in Threads |-> NoArgs]
    /\ fdCtx = [t \in Threads |-> 0]
    /\ measured = [t \in Threads |-> 0]
    /\ raced = FALSE /\ failed = FALSE /\ resizes = 0

\* contextResize(n): a null slot inside the table gets a new context.
ContextResize(n) ==
    /\ size' = n
    /\ ctxOf' = [fd \in Fds |->
                   IF fd >= n THEN 0
                   ELSE IF ctxOf[fd] = 0 THEN made[fd] + 1 ELSE ctxOf[fd]]
    /\ made' = [fd \in Fds |->
                  IF fd < n /\ ctxOf[fd] = 0 THEN made[fd] + 1 ELSE made[fd]]

\* The constructor, before start().
Construct ==
    /\ size = 0
    /\ ContextResize(InitSize)
    /\ UNCHANGED <<eventVars, callVars, noteVars>>

-----------------------------------------------------------------------------
(* Which calls a client makes.                                             *)

Armed(fd, c) == {e \in Events : <<fd, c, e>> \in events}
Registered(fd) == {x[3] : x \in {y \in events : y[1] = fd}}

\* A client adds an event that is not registered, nor being added (addEvent
\* asserts it); delEvent and cancelEvent name one event, cancelAll all.
Callable(a) ==
    \/ /\ a.op = "add" /\ Cardinality(a.evs) = 1
       /\ a.evs \cap Registered(a.fd) = {}
       /\ \A t \in Threads :
            args[t].op = "add" /\ args[t].fd = a.fd => args[t].evs # a.evs
    \/ a.op = "remove" /\ (Cardinality(a.evs) = 1 \/ a.evs = Events)

-----------------------------------------------------------------------------
(* The calls.                                                              *)

Look(t, a, next, c, n) ==
    /\ step' = [step EXCEPT ![t] = next]
    /\ args' = [args EXCEPT ![t] = a]
    /\ fdCtx' = [fdCtx EXCEPT ![t] = c]
    /\ measured' = [measured EXCEPT ![t] = n]
Return(t) == Look(t, NoArgs, "free", 0, 0)

\* The lookup, under the read lock.  Outside the table, addEvent goes on to
\* resize it and the others return false.
LookUp(t) ==
    /\ step[t] = "free"
    /\ \E a \in Args :
         /\ Callable(a)
         /\ \/ /\ size > a.fd
               /\ Look(t, a, "found", ctxOf[a.fd], size)
               /\ UNCHANGED <<failed, resizes>>
            \/ /\ size <= a.fd /\ a.op = "add"
               /\ resizes < MaxResizes /\ resizes' = resizes + 1
               /\ Look(t, a, "grow", 0, size)
               /\ UNCHANGED failed
            \/ /\ size <= a.fd /\ a.op = "remove"
               /\ failed' = (failed \/ a.evs \cap Registered(a.fd) # {})
               /\ UNCHANGED <<callVars, resizes>>
    /\ UNCHANGED <<slotVars, eventVars, raced>>

\* Mutant: a quarter more instead of half.
GrowLess(t) ==
    LET fd == args[t].fd IN
    /\ step[t] = "grow"
    /\ ContextResize(fd + fd \div 4)
    /\ step' = [step EXCEPT ![t] = "found"]
    /\ fdCtx' = [fdCtx EXCEPT ![t] = ctxOf'[fd]]
    /\ raced' = (raced \/ measured[t] # size)
    /\ UNCHANGED <<eventVars, args, measured, failed, resizes>>

\* contextResize(fd * 1.5) under the write lock; the size is not compared
\* again.
Grow(t) ==
    LET fd == args[t].fd IN
    /\ step[t] = "grow"
    /\ ContextResize(fd + fd \div 2)
    /\ step' = [step EXCEPT ![t] = "found"]
    /\ fdCtx' = [fdCtx EXCEPT ![t] = ctxOf'[fd]]
    /\ raced' = (raced \/ measured[t] # size)
    /\ UNCHANGED <<eventVars, args, measured, failed, resizes>>

Found(t, kind) == step[t] = "found" /\ args[t].op = kind

\* epoll_ctl ADD on a descriptor it knows is refused; MOD is not.
Accepts(fd, c) == Armed(fd, c) # {} \/ kernel[fd] = 0

\* Mutant: epoll_ctl MOD where ADD is due.
AddEventOver(t) ==
    LET fd == args[t].fd  c == fdCtx[t] IN
    /\ Found(t, "add")
    /\ events' = events \cup {<<fd, c, e>> : e \in args[t].evs}
    /\ kernel' = [kernel EXCEPT ![fd] = c]
    /\ Return(t)
    /\ UNCHANGED <<slotVars, raced, failed, resizes>>

\* addEvent under the context's mutex.
AddEvent(t) ==
    LET fd == args[t].fd  c == fdCtx[t] IN
    /\ Found(t, "add")
    /\ IF Accepts(fd, c)
         THEN /\ events' = events \cup {<<fd, c, e>> : e \in args[t].evs}
              /\ kernel' = [kernel EXCEPT ![fd] = c]
              /\ UNCHANGED failed
         ELSE failed' = TRUE /\ UNCHANGED eventVars
    /\ Return(t)
    /\ UNCHANGED <<slotVars, raced, resizes>>

\* Mutant: MOD where DEL is due: the kernel keeps the context.
DisarmKeep(fd, c, evs) ==
    /\ events' = events \ {<<fd, c, e>> : e \in evs}
    /\ UNCHANGED kernel

\* Events evs leave context c of fd; with the last one the kernel forgets it.
Disarm(fd, c, evs) ==
    /\ events' = events \ {<<fd, c, e>> : e \in evs}
    /\ kernel' = IF Armed(fd, c) \subseteq evs
                   THEN [kernel EXCEPT ![fd] = 0] ELSE kernel

\* What the call takes from the context it has found.
Removed(t) == Armed(args[t].fd, fdCtx[t]) \cap args[t].evs

\* delEvent, cancelEvent and cancelAll under the context's mutex.
RemoveEvent(t) ==
    LET fd == args[t].fd  c == fdCtx[t]  evs == args[t].evs IN
    /\ Found(t, "remove")
    /\ IF Removed(t) # {}
         THEN Disarm(fd, c, evs) /\ UNCHANGED failed
         ELSE /\ failed' = (failed \/ evs \cap Registered(fd) # {})
              /\ UNCHANGED eventVars
    /\ Return(t)
    /\ UNCHANGED <<slotVars, raced, resizes>>

\* idle() of some thread: epoll hands it the address the kernel holds, with
\* the events evs.
Trigger(fd, evs) ==
    LET c == kernel[fd] IN
    /\ c # 0
    /\ evs # {} /\ evs \subseteq Armed(fd, c) /\ Disarm(fd, c, evs)
    /\ UNCHANGED <<slotVars, callVars, noteVars>>

-----------------------------------------------------------------------------
CallStep(t) == LookUp(t) \/ Grow(t) \/ AddEvent(t) \/ RemoveEvent(t)

NextTable ==
    \/ Construct
    \/ size # 0 /\ \E t \in Threads : CallStep(t)
    \/ size # 0 /\ \E fd \in Fds, evs \in SUBSET Events : Trigger(fd, evs)

\* The table by itself: no call before it has been constructed.
SpecTable == InitEmpty /\ [][NextTable]_tableVars

-----------------------------------------------------------------------------
(* Properties.                                                             *)

TypeTable ==
    /\ size \in Nat /\ resizes \in Nat
    /\ ctxOf \in [Fds -> Nat] /\ made \in [Fds -> Nat]
    /\ events \subseteq Fds \X Nat \X Events
    /\ kernel \in [Fds -> Nat]
    /\ step \in [Threads -> {"free", "grow", "found"}]
    /\ args \in [Threads -> Args \cup {NoArgs}]
    /\ fdCtx \in [Threads -> Nat] /\ measured \in [Threads -> Nat]
    /\ raced \in BOOLEAN /\ failed \in BOOLEAN

\* The index is inside the table also after a resize that another thread's
\* resize has made pointless: no call goes on with a context that is not one.
InBounds == \A t \in Threads : step[t] = "found" => fdCtx[t] # 0

\* A context with events is the one the kernel holds, also one that is no
\* longer in the table: no event is waited for that will not be reported.
NoneForgotten == \A x \in events : kernel[x[1]] = x[2]

\* Only a resize that crosses another one does harm: before that, every
\* registered event is found through the table and no call fails.
HarmedByRaceOnly ==
    ~raced => ~failed /\ \A x \in events : ctxOf[x[1]] = x[2]
=============================================================================
