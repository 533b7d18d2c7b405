------------------------------ MODULE Interval ------------------------------
(***************************************************************************)
(* Interval jobs: a heap of jobs by the second of their next execution.    *)
(* The task reads the time once, sends every job whose second has come and *)
(* pushes it back with the next second of its schedule, then sleeps until  *)
(* the top of the heap is due.                                             *)
(*                                                                         *)
(* Time is kept relative to the present: a job is due in due[j] seconds    *)
(* (negative: it was), so that the clock needs no bound.  The task runs    *)
(* late, by at most MaxLate seconds at a time.                             *)
(***************************************************************************)
EXTENDS SourceQueue, FiniteSetsExt

CONSTANTS
    Jobs,
    Period,   \* [Jobs -> Nat], seconds between two executions
    Once,     \* the jobs whose schedule has one execution
    Cycle,    \* a multiple of all periods
    MaxLate,  \* bound: how late the task wakes, and how long it runs
    Never     \* the job is not in the heap

ASSUME IntervalAssumption ==
    /\ Period \in [Jobs -> Nat \ {0}]
    /\ Cycle \in Nat \ {0}
    /\ \A j \in Jobs : Cycle % Period[j] = 0
    /\ Once \subseteq Jobs
    /\ MaxLate \in Nat
    /\ Never \notin Int

VARIABLES
    itask,  \* where the task is: "off", "asleep", "running", "ended"
    due,    \* [Jobs -> Int \cup {Never}], job_heap
    lag,    \* seconds since current_time was read
    sleep,  \* what is left of the sleep
    clock,  \* the time of day
    age     \* history: seconds since each job was last taken from the heap

intervalVars == <<itask, due, lag, sleep, clock, age>>

LongestAge(j) == Period[j] + 3 * MaxLate

IntervalTypeOK ==
    /\ itask \in {"off", "asleep", "running", "ended"}
    /\ \A j \in Jobs : due[j] \in (-3 * MaxLate - 1)..Cycle \cup {Never}
    /\ lag \in 0..MaxLate
    /\ sleep \in -MaxLate..Cycle + MaxLate
    /\ clock \in 0..Cycle - 1
    /\ \A j \in Jobs : age[j] \in 0..LongestAge(j) + 1

(* schedule.upcoming(Utc): the next second of the schedule, after this one *)
Upcoming(j) == CHOOSE k \in 1..Period[j] : (clock + k) % Period[j] = 0

(* Interval::new: a job whose schedule is over is left out. *)
NewHeap ==
    {h \in [Jobs -> 1..Cycle \cup {Never}] : \A j \in Jobs :
        h[j] \in {Upcoming(j)} \cup (IF j \in Once THEN {Never} ELSE {})}

IntervalInit(on) ==
    /\ itask = IF on THEN "asleep" ELSE "off"
    /\ clock = 0
    /\ due \in IF on THEN NewHeap ELSE {[j \in Jobs |-> Never]}
    /\ lag = 0
    /\ sleep = 0
    /\ age = [j \in Jobs |-> 0]

Heap == {j \in Jobs : due[j] # Never}

(* The jobs that are due at current_time. *)
DueNow == {j \in Heap : due[j] + lag <= 0}

(* The top of the heap: the jobs with the earliest execution_time. *)
Top == {j \in Heap : \A k \in Heap : due[j] <= due[k]}

(* The sleep is over: current_time is read. *)
IntervalWake ==
    /\ itask = "asleep" /\ sleep <= 0 /\ ~cancelled
    /\ itask' = "running"
    /\ lag' = 0
    /\ UNCHANGED <<due, sleep, clock, age, queueVars>>

(* mutant: a job that could not be sent is not scheduled again *)
Reschedule_NotWhenFull(j) == IF j \in Once \/ ~HasRoom THEN Never ELSE Upcoming(j)

(* The next execution; with none left the job is not pushed back. *)
Reschedule(j) == IF j \in Once THEN Never ELSE Upcoming(j)

(* One turn of the loop of fetch_interval_jobs: the job is sent, or dropped *)
(* when the channel is full or closed, and scheduled again all the same.    *)
IntervalRun(j) ==
    /\ itask = "running"
    /\ j \in DueNow \cap Top
    /\ TrySend
    /\ due' = [due EXCEPT ![j] = Reschedule(j)]
    /\ age' = [age EXCEPT ![j] = 0]
    /\ UNCHANGED <<itask, lag, sleep, clock, cancelled, closed, crashes>>

(* fetch_interval_jobs returns the seconds from current_time to the top of  *)
(* the heap, 0 when the heap is empty.                                      *)
IntervalDone ==
    /\ itask = "running"
    /\ DueNow = {}
    /\ itask' = "asleep"
    /\ sleep' = IF Heap = {} THEN 0 ELSE Min({due[j] : j \in Heap}) + lag
    /\ lag' = 0
    /\ UNCHANGED <<due, clock, age, queueVars>>

(* The task of Data::start sees the token before a fetch and in its sleep. *)
IntervalStop ==
    /\ itask = "asleep" /\ cancelled
    /\ itask' = "ended"
    /\ UNCHANGED <<due, lag, sleep, clock, age, queueVars>>

IntervalTask ==
    \/ IntervalWake \/ IntervalDone \/ IntervalStop
    \/ \E j \in Jobs : IntervalRun(j)

(* A second passes; MaxLate bounds how late the task may be. *)
IntervalTick ==
    /\ itask = "running" => lag < MaxLate
    /\ itask = "asleep" => sleep > -MaxLate
    /\ IF itask \in {"off", "ended"} THEN UNCHANGED intervalVars
       ELSE /\ clock' = (clock + 1) % Cycle
            /\ due' = [j \in Jobs |-> IF j \in Heap THEN due[j] - 1 ELSE Never]
            /\ lag' = IF itask = "running" THEN lag + 1 ELSE lag
            /\ sleep' = IF itask = "asleep" THEN sleep - 1 ELSE sleep
            /\ age' = [j \in Jobs |-> Min({age[j] + 1, LongestAge(j) + 1})]
            /\ UNCHANGED itask

IntervalRestart ==
    /\ UNCHANGED clock
    /\ itask' = IF itask = "off" THEN "off" ELSE "asleep"
    /\ IF itask = "off" THEN UNCHANGED due ELSE due' \in NewHeap
    /\ lag' = 0
    /\ sleep' = 0
    /\ age' = [j \in Jobs |-> 0]

=============================================================================
