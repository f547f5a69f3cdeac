------------------------------ MODULE EventHub ------------------------------
(***************************************************************************)
(* What a user of the IO manager is promised, without epoll, threads, fd   *)
(* contexts or counters: an armed event is handed over as exactly one task *)
(* or withdrawn, and the manager closes only when no task is left and no   *)
(* event is armed - unless it was once wrong about the tasks that were     *)
(* left.  Once it is closed nothing happens any more.  IOManager is shown  *)
(* to implement it.                                                        *)
(***************************************************************************)
EXTENDS Naturals

CONSTANT Slots        \* the (fd, event) pairs

VARIABLES armed,      \* the slots somebody waits on
          tasks,      \* tasks handed in or handed over and not yet ended
          excused,    \* it has overlooked a task
          closed      \* stop() has returned

hub == <<armed, tasks, excused, closed>>

HubInit == armed = {} /\ tasks = 0 /\ excused = FALSE /\ closed = FALSE

HandIn == tasks' = tasks + 1 /\ UNCHANGED <<armed, excused, closed>>

\* Only a task that has not ended arms, withdraws or ends.
Arm(s) ==
    /\ tasks > 0 /\ s \notin armed
    /\ armed' = armed \cup {s}
    /\ UNCHANGED <<tasks, excused, closed>>
Withdraw(s) ==
    /\ tasks > 0 /\ s \in armed
    /\ armed' = armed \ {s}
    /\ UNCHANGED <<tasks, excused, closed>>
HandOver(s) ==
    /\ s \in armed
    /\ armed' = armed \ {s}
    /\ tasks' = tasks + 1
    /\ UNCHANGED <<excused, closed>>
EndTask ==
    /\ tasks > 0 /\ tasks' = tasks - 1
    /\ UNCHANGED <<armed, excused, closed>>

\* A task that goes back on the list is overlooked.
Overlook ==
    /\ tasks > 0
    /\ excused' = TRUE
    /\ UNCHANGED <<armed, tasks, closed>>

Close ==
    /\ (tasks = 0 /\ armed = {}) \/ excused
    /\ closed' = TRUE
    /\ UNCHANGED <<armed, tasks, excused>>

HubNext ==
    /\ ~closed
    /\ \/ HandIn \/ EndTask \/ Overlook \/ Close
       \/ \E s \in Slots : Arm(s) \/ Withdraw(s) \/ HandOver(s)

HubSpec == HubInit /\ [][HubNext]_hub
=============================================================================
