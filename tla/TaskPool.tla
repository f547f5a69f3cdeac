------------------------------ MODULE TaskPool ------------------------------
(***************************************************************************)
(* What a user of the scheduler is promised, without queues, threads,      *)
(* fibers or counters: every function handed in is run once, by one        *)
(* worker at a time, may be suspended and resumed in between, and the pool *)
(* stops only when nothing is left that could run.  Scheduler is shown to  *)
(* implement it.                                                           *)
(***************************************************************************)
EXTENDS Naturals, FiniteSets

CONSTANTS Jobs,       \* the functions
          Capacity    \* how many can run at the same time

VARIABLES status,     \* where each function stands
          halted      \* stop() has returned

poolState == <<status, halted>>

Status == {"new", "ready", "running", "parked", "done"}

In(s) == {j \in Jobs : status[j] = s}

PoolInit ==
    /\ status = [j \in Jobs |-> "new"]
    /\ halted = FALSE

Move(S, from, to) ==
    /\ S \subseteq In(from)
    /\ status' = [j \in Jobs |-> IF j \in S THEN to ELSE status[j]]
    /\ ~halted
    /\ UNCHANGED halted

\* A batch of functions is handed in at once.
Submit == \E S \in SUBSET In("new") : Move(S, "new", "ready")

Run(j) ==
    /\ Cardinality(In("running")) < Capacity
    /\ Move({j}, "ready", "running")

\* A running function gives its worker up: it is to be resumed, or waits.
Yield(j) == Move({j}, "running", "ready")
Park(j) == Move({j}, "running", "parked")
Resume(j) == Move({j}, "parked", "ready")
Finish(j) == Move({j}, "running", "done")

\* Functions that wait for a wake-up nobody sent do not hold the stop up.
Halt ==
    /\ ~halted
    /\ In("ready") = {} /\ In("running") = {}
    /\ halted' = TRUE
    /\ UNCHANGED status

PoolNext ==
    \/ Submit \/ Halt
    \/ \E j \in Jobs : Run(j) \/ Yield(j) \/ Park(j) \/ Resume(j) \/ Finish(j)

PoolSpec == PoolInit /\ [][PoolNext]_poolState
=============================================================================
