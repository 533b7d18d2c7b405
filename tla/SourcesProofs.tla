---------------------------- MODULE SourcesProofs ----------------------------
(***************************************************************************)
(* Proofs about Sources, for every set of jobs, messages and URIs, every    *)
(* schedule and every delay: type correctness, no interval job runs later   *)
(* than its task is late, and the SQS generator deletes only what it sent   *)
(* and sends a message again, between two starts, only when as many others  *)
(* as the cache has places came in between.                                 *)
(***************************************************************************)
EXTENDS Sources, WellFoundedInduction, FiniteSetTheorems, TLAPS

(* The heap of the interval jobs.  The delays add up: the sleep is measured *)
(* from the time the task read, at most MaxLate before it falls asleep; it  *)
(* wakes at most MaxLate after the sleep is over, and runs for at most      *)
(* MaxLate.                                                                 *)
Lateness ==
    \A j \in Heap :
        /\ due[j] \in -3 * MaxLate .. Cycle
        /\ itask = "asleep" => sleep <= due[j] + MaxLate
        /\ itask = "running" => due[j] + lag >= -2 * MaxLate

(* A job that runs again and again is in the heap, and the time since it    *)
(* ran and the time to its next execution add up to at most a period.       *)
Recurring ==
    itask # "off" => \A j \in Jobs \ Once : j \in Heap /\ age[j] + due[j] <= Period[j]

IntervalInv ==
    /\ IntervalTypeOK
    /\ due \in [Jobs -> Int \cup {Never}]
    /\ age \in [Jobs -> Nat]
    /\ Lateness /\ Recurring

(* The cache.  An id is put in it once; while it is there, what was put     *)
(* after it is counted in others, and once it is gone others has as many    *)
(* messages as the cache has places.                                        *)
CacheInv ==
    /\ seen \in Seq(Messages)
    /\ \A i, j \in DOMAIN seen : i # j => seen[i] # seen[j]
    /\ \A m \in Messages : IsFiniteSet(others[m])
    /\ \A i, j \in DOMAIN seen : i < j /\ seen[i] \in sent => seen[j] \in others[seen[i]]
    /\ \A m \in sent \ ToSet(seen) : Cardinality(others[m]) >= SeenSize
    /\ stask = "send" => \A m \in hand :
         /\ \A i \in DOMAIN seen : seen[i] = m => i = Len(seen)
         /\ m \in sent => Cardinality(others[m]) >= SeenSize

(* The SQS generator.  The message in hand is in the cache; what is in the  *)
(* cache was sent, or is about to be.                                       *)
SqsInv ==
    /\ SqsTypeOK
    /\ hand = {} \/ \E m \in Messages : hand = {m}
    /\ stask \in {"send", "delete"} => hand \subseteq ToSet(seen)
    /\ \A m \in ToSet(seen) \ Bodyless : m \in ever \/ (stask = "send" /\ m \in hand)
    /\ CacheInv
    /\ DeletedWasSent

(* The websocket client has the entry it uses out of the heap. *)
WebsocketInv ==
    /\ WebsocketTypeOK
    /\ heap \in Seq(UriEntry)
    /\ entry \in Seq(UriEntry)
    /\ wtask \in {"connect", "open", "send"} => Len(entry) = 1

(* The receivers outlive the generators. *)
ClosedLast == closed => Ended

IInv == QueueTypeOK /\ ClosedLast /\ IntervalInv /\ SqsInv /\ WebsocketInv

-----------------------------------------------------------------------------
(* Numbers *)

(* A set of integers with a lower bound has a smallest element. *)
LEMMA SmallestElement ==
    ASSUME NEW S \in SUBSET Int, S # {}, NEW b \in Int, \A x \in S : x >= b
    PROVE  Min(S) \in S /\ \A y \in S : Min(S) <= y
  <1>1. PICK R : R = {ss \in Nat \X Nat : ss[1] < ss[2]}
    OBVIOUS
  <1>2. IsWellFoundedOn(R, Nat)
    BY <1>1, NatLessThanWellFounded DEF OpToRel
  <1>3. PICK T : T = {n \in Nat : n + b \in S}
    OBVIOUS
  <1>4. \A x \in S : x - b \in T
    BY <1>3
  <1>5. T \subseteq Nat /\ T # {}
    BY <1>3, <1>4
  <1>6. PICK t \in T : \A y \in T : ~(<<y, t>> \in R)
    BY <1>2, <1>5, WFMin
  <1>7. \A y \in T : ~(y < t)
    BY <1>1, <1>5, <1>6
  <1>8. t \in Nat /\ t + b \in S
    BY <1>3
  <1>9. \A y \in S : t + b <= y
    <2> SUFFICES ASSUME NEW y \in S PROVE t + b <= y
      OBVIOUS
    <2>1. y - b \in T /\ y - b \in Nat
      BY <1>4, <1>5
    <2>2. ~(y - b < t)
      BY <1>7, <2>1
    <2> QED
      BY <1>8, <2>1, <2>2
  <1> QED
    BY <1>8, <1>9 DEF Min

LEMMA SmallerOfTwo ==
    ASSUME NEW x \in Nat, NEW y \in Nat
    PROVE  Min({x, y}) \in {x, y} /\ Min({x, y}) <= x /\ Min({x, y}) <= y
  <1>1. {x, y} \in SUBSET Int /\ {x, y} # {} /\ \A z \in {x, y} : z >= 0
    OBVIOUS
  <1>2. Min({x, y}) \in {x, y} /\ \A z \in {x, y} : Min({x, y}) <= z
    BY <1>1, SmallestElement
  <1> QED
    BY <1>2

(* Within every period there is a second of the schedule. *)
LEMMA NextMultiple ==
    ASSUME NEW P \in Nat \ {0}, NEW c \in Nat
    PROVE  \E k \in 1..P : (c + k) % P = 0
  <1>1. c % P \in 0..P - 1 /\ c = P * (c \div P) + (c % P)
    OBVIOUS
  <1>2. c \div P \in Int
    OBVIOUS
  <1>3. P - (c % P) \in 1..P /\ c + (P - (c % P)) = P * ((c \div P) + 1)
    BY <1>1, <1>2
  <1>4. (P * ((c \div P) + 1)) % P = 0
    BY <1>2
  <1> QED
    BY <1>3, <1>4

LEMMA DivisorIsSmaller ==
    ASSUME NEW P \in Nat \ {0}, NEW C \in Nat \ {0}, C % P = 0
    PROVE  P <= C
  OBVIOUS

LEMMA ClockType ==
    ASSUME NEW C \in Nat \ {0}, NEW c \in 0..C - 1
    PROVE  (c + 1) % C \in 0..C - 1
  OBVIOUS

-----------------------------------------------------------------------------
(* Interval jobs *)

LEMMA UpcomingType ==
    ASSUME clock \in Nat, NEW j \in Jobs
    PROVE  /\ Upcoming(j) \in 1..Period[j]
           /\ Period[j] \in 1..Cycle
  <1>1. Period[j] \in Nat \ {0} /\ Cycle \in Nat \ {0} /\ Cycle % Period[j] = 0
    BY IntervalAssumption
  <1>2. \E k \in 1..Period[j] : (clock + k) % Period[j] = 0
    BY <1>1, NextMultiple
  <1>3. Upcoming(j) \in 1..Period[j]
    BY <1>2 DEF Upcoming
  <1>4. Period[j] <= Cycle
    BY <1>1, DivisorIsSmaller
  <1> QED
    BY <1>1, <1>3, <1>4

(* A new heap has every recurring job, within its first period. *)
LEMMA NewHeapJobs ==
    ASSUME clock \in 0..Cycle - 1, NEW h \in NewHeap
    PROVE  /\ h \in [Jobs -> Int \cup {Never}]
           /\ \A j \in Jobs : h[j] # Never => h[j] \in 1..Period[j] /\ h[j] \in 1..Cycle
           /\ \A j \in Jobs \ Once : h[j] # Never
  <1> USE IntervalAssumption
  <1>1. clock \in Nat /\ Cycle \in Nat
    OBVIOUS
  <1>2. /\ h \in [Jobs -> Int \cup {Never}]
        /\ \A j \in Jobs : h[j] = Upcoming(j) \/ (j \in Once /\ h[j] = Never)
    BY <1>1 DEF NewHeap
  <1>3. \A j \in Jobs : Upcoming(j) \in 1..Period[j] /\ Period[j] \in 1..Cycle
    BY <1>1, UpcomingType
  <1>4. \A j \in Jobs : h[j] # Never => h[j] \in 1..Period[j] /\ h[j] \in 1..Cycle
    BY <1>2, <1>3
  <1>5. \A j \in Jobs \ Once : h[j] # Never
    BY <1>2, <1>3
  <1> QED
    BY <1>2, <1>4, <1>5

LEMMA IntervalStart ==
    ASSUME NEW on \in BOOLEAN, IntervalInit(on)
    PROVE  IntervalInv
  <1> USE IntervalAssumption
  <1>1. /\ clock \in 0..Cycle - 1 /\ lag = 0 /\ sleep = 0
        /\ age = [j \in Jobs |-> 0]
        /\ itask \in {"asleep", "off"} /\ MaxLate \in Nat /\ Cycle \in Nat
        /\ \A j \in Jobs : Period[j] \in Nat
    BY DEF IntervalInit
  <1>2. /\ due \in [Jobs -> Int \cup {Never}]
        /\ \A j \in Jobs : due[j] # Never => due[j] \in 1..Period[j] /\ due[j] \in 1..Cycle
        /\ itask # "off" => \A j \in Jobs \ Once : due[j] # Never
    <2>1. CASE on
      BY <1>1, <2>1, NewHeapJobs DEF IntervalInit
    <2>2. CASE ~on
      BY <2>2 DEF IntervalInit
    <2> QED
      BY <2>1, <2>2
  <1>3. /\ age \in [Jobs -> Nat] /\ \A j \in Jobs : age[j] = 0
    BY <1>1
  <1>4. IntervalTypeOK
    <2>1. \A j \in Jobs : due[j] \in (-3 * MaxLate - 1)..Cycle \cup {Never}
      BY <1>1, <1>2
    <2>2. \A j \in Jobs : age[j] \in 0..LongestAge(j) + 1
      BY <1>1, <1>3 DEF LongestAge
    <2> QED
      BY <1>1, <2>1, <2>2 DEF IntervalTypeOK
  <1>5. Lateness
    BY <1>1, <1>2 DEF Lateness, Heap
  <1>6. Recurring
    BY <1>1, <1>2, <1>3 DEF Recurring, Heap
  <1> QED
    BY <1>2, <1>3, <1>4, <1>5, <1>6 DEF IntervalInv

LEMMA IntervalAgain ==
    ASSUME IntervalInv, IntervalRestart
    PROVE  IntervalInv'
  <1> USE IntervalAssumption
  <1>1. /\ clock' = clock /\ clock' \in 0..Cycle - 1 /\ lag' = 0 /\ sleep' = 0
        /\ age' = [j \in Jobs |-> 0]
        /\ itask' \in {"asleep", "off"} /\ MaxLate \in Nat /\ Cycle \in Nat
        /\ \A j \in Jobs : Period[j] \in Nat
    BY DEF IntervalRestart, IntervalInv, IntervalTypeOK
  <1>2. /\ age' \in [Jobs -> Nat] /\ \A j \in Jobs : age'[j] = 0
    BY <1>1
  <1>3. /\ due' \in [Jobs -> Int \cup {Never}]
        /\ \A j \in Jobs : due'[j] # Never => due'[j] \in -3 * MaxLate .. Cycle
        /\ itask' = "asleep" =>
             /\ \A j \in Jobs : due'[j] # Never => due'[j] \in 1..Period[j]
             /\ \A j \in Jobs \ Once : due'[j] # Never
    <2>1. CASE itask = "off"
      BY <2>1 DEF IntervalRestart, IntervalInv, Lateness, Heap
    <2>2. CASE itask # "off"
      <3>1. due' \in NewHeap
        BY <2>2 DEF IntervalRestart
      <3>2. /\ due' \in [Jobs -> Int \cup {Never}]
            /\ \A j \in Jobs : due'[j] # Never => due'[j] \in 1..Period[j] /\ due'[j] \in 1..Cycle
            /\ \A j \in Jobs \ Once : due'[j] # Never
        BY <1>1, <3>1, NewHeapJobs
      <3> QED
        BY <1>1, <3>2
    <2> QED
      BY <2>1, <2>2
  <1>4. IntervalTypeOK'
    <2>1. \A j \in Jobs : due'[j] \in (-3 * MaxLate - 1)..Cycle \cup {Never}
      BY <1>1, <1>3
    <2>2. \A j \in Jobs : age'[j] \in 0..LongestAge(j) + 1
      BY <1>1, <1>2 DEF LongestAge
    <2> QED
      BY <1>1, <2>1, <2>2 DEF IntervalTypeOK, LongestAge
  <1>5. Lateness'
    BY <1>1, <1>3 DEF Lateness, Heap
  <1>6. Recurring'
    BY <1>1, <1>2, <1>3 DEF Recurring, Heap
  <1> QED
    BY <1>2, <1>3, <1>4, <1>5, <1>6 DEF IntervalInv

(* What a step of the task has to show: it does not pass time. *)
LEMMA IntervalTaskInv ==
    ASSUME IntervalInv, IntervalTask
    PROVE  IntervalInv'
  <1> USE IntervalAssumption
  <1>a. /\ MaxLate \in Nat /\ Cycle \in Nat /\ lag \in 0..MaxLate
        /\ sleep \in -MaxLate..Cycle + MaxLate /\ clock \in 0..Cycle - 1
        /\ \A j \in Jobs : Period[j] \in Nat
        /\ due \in [Jobs -> Int \cup {Never}] /\ age \in [Jobs -> Nat]
        /\ \A j \in Heap : due[j] \in Int /\ due[j] \in -3 * MaxLate .. Cycle
    BY DEF IntervalInv, IntervalTypeOK, Lateness, Heap
  <1>1. CASE IntervalWake
    <2>1. /\ itask = "asleep" /\ sleep <= 0 /\ itask' = "running" /\ lag' = 0
          /\ UNCHANGED <<due, sleep, clock, age>>
      BY <1>1 DEF IntervalWake
    <2>2. Lateness'
      BY <1>a, <2>1 DEF IntervalInv, Lateness, Heap
    <2>3. Recurring'
      BY <2>1 DEF IntervalInv, Recurring, Heap
    <2>4. IntervalTypeOK'
      BY <1>a, <2>1 DEF IntervalInv, IntervalTypeOK, LongestAge
    <2> QED
      BY <2>1, <2>2, <2>3, <2>4 DEF IntervalInv
  <1>2. CASE IntervalStop
    <2>1. /\ itask = "asleep" /\ itask' = "ended"
          /\ UNCHANGED <<due, lag, sleep, clock, age>>
      BY <1>2 DEF IntervalStop
    <2>2. Lateness' /\ Recurring'
      BY <2>1 DEF IntervalInv, Lateness, Recurring, Heap
    <2>3. IntervalTypeOK'
      BY <2>1 DEF IntervalInv, IntervalTypeOK, LongestAge
    <2> QED
      BY <2>1, <2>2, <2>3 DEF IntervalInv
  <1>3. ASSUME NEW j \in Jobs, IntervalRun(j) PROVE IntervalInv'
    <2>1. /\ itask = "running" /\ UNCHANGED <<itask, lag, sleep, clock>>
          /\ due' = [due EXCEPT ![j] = Reschedule(j)]
          /\ age' = [age EXCEPT ![j] = 0]
      BY <1>3 DEF IntervalRun
    <2>2. Upcoming(j) \in 1..Period[j] /\ Period[j] \in 1..Cycle
      BY <1>a, UpcomingType
    <2>3. /\ Reschedule(j) = Never \/ Reschedule(j) \in 1..Period[j]
          /\ j \notin Once => Reschedule(j) # Never
      BY <1>a, <2>2 DEF Reschedule
    <2>4. /\ due'[j] = Reschedule(j) /\ age'[j] = 0
          /\ \A k \in Jobs : k # j => due'[k] = due[k] /\ age'[k] = age[k]
          /\ due' \in [Jobs -> Int \cup {Never}] /\ age' \in [Jobs -> Nat]
      BY <1>a, <2>1, <2>3
    <2>5. due'[j] # Never => due'[j] \in 1..Cycle /\ due'[j] \in 1..Period[j]
      BY <1>a, <2>2, <2>3, <2>4
    <2>6. Lateness'
      BY <1>a, <2>1, <2>4, <2>5 DEF IntervalInv, Lateness, Heap
    <2>7. Recurring'
      BY <1>a, <2>1, <2>3, <2>4, <2>5 DEF IntervalInv, Recurring, Heap
    <2>8. \A k \in Jobs : due'[k] \in (-3 * MaxLate - 1)..Cycle \cup {Never}
      BY <1>a, <2>4, <2>5 DEF IntervalInv, IntervalTypeOK
    <2>9. \A k \in Jobs : age'[k] \in 0..LongestAge(k) + 1
      BY <1>a, <2>4 DEF IntervalInv, IntervalTypeOK, LongestAge
    <2>10. IntervalTypeOK'
      BY <2>1, <2>8, <2>9 DEF IntervalInv, IntervalTypeOK, LongestAge
    <2> QED
      BY <2>4, <2>6, <2>7, <2>10 DEF IntervalInv
  <1>4. CASE IntervalDone
    <2>1. /\ itask = "running" /\ DueNow = {} /\ itask' = "asleep" /\ lag' = 0
          /\ sleep' = IF Heap = {} THEN 0 ELSE Min({due[j] : j \in Heap}) + lag
          /\ UNCHANGED <<due, clock, age>>
      BY <1>4 DEF IntervalDone
    <2>2. \A j \in Heap : due[j] + lag > 0
      BY <1>a, <2>1 DEF DueNow
    <2>3. /\ sleep' \in -MaxLate..Cycle + MaxLate
          /\ \A j \in Heap : sleep' <= due[j] + MaxLate
      <3>1. CASE Heap = {}
        BY <1>a, <2>1, <3>1
      <3>2. CASE Heap # {}
        <4>1. PICK S : S = {due[j] : j \in Heap}
          OBVIOUS
        <4>2. S \in SUBSET Int /\ S # {} /\ \A x \in S : x >= -3 * MaxLate
          BY <1>a, <3>2, <4>1
        <4>3. Min(S) \in S /\ \A y \in S : Min(S) <= y
          <5>1. PICK b \in Int : b = -3 * MaxLate
            BY <1>a
          <5> QED
            BY <4>2, <5>1, SmallestElement
        <4>4. sleep' = Min(S) + lag
          BY <2>1, <3>2, <4>1
        <4>5. PICK j \in Heap : Min(S) = due[j]
          BY <4>1, <4>3
        <4>6. sleep' \in -MaxLate..Cycle + MaxLate
          BY <1>a, <2>2, <4>4, <4>5
        <4>7. \A k \in Heap : due[j] <= due[k]
          BY <4>1, <4>3, <4>5
        <4> QED
          BY <1>a, <4>4, <4>5, <4>6, <4>7
      <3> QED
        BY <3>1, <3>2
    <2>4. Lateness'
      BY <1>a, <2>1, <2>3 DEF IntervalInv, Lateness, Heap
    <2>5. Recurring'
      BY <2>1 DEF IntervalInv, Recurring, Heap
    <2>6. IntervalTypeOK'
      BY <1>a, <2>1, <2>3 DEF IntervalInv, IntervalTypeOK, LongestAge
    <2> QED
      BY <2>1, <2>4, <2>5, <2>6 DEF IntervalInv
  <1> QED
    BY <1>1, <1>2, <1>3, <1>4 DEF IntervalTask

(* A second passes: what is late gets later, by as much as the task is. *)
LEMMA IntervalTickInv ==
    ASSUME IntervalInv, IntervalTick
    PROVE  IntervalInv'
  <1> USE IntervalAssumption
  <1>a. /\ MaxLate \in Nat /\ Cycle \in Nat \ {0} /\ lag \in 0..MaxLate
        /\ sleep \in -MaxLate..Cycle + MaxLate /\ clock \in 0..Cycle - 1
        /\ \A j \in Jobs : Period[j] \in Nat /\ LongestAge(j) \in Nat
        /\ due \in [Jobs -> Int \cup {Never}] /\ age \in [Jobs -> Nat]
        /\ \A j \in Heap : due[j] \in Int /\ due[j] \in -3 * MaxLate .. Cycle
    BY DEF IntervalInv, IntervalTypeOK, Lateness, Heap, LongestAge
  <1>1. CASE itask \in {"off", "ended"}
    <2>1. UNCHANGED <<itask, due, lag, sleep, clock, age>>
      BY <1>1 DEF IntervalTick, intervalVars
    <2> QED
      BY <2>1 DEF IntervalInv, IntervalTypeOK, Lateness, Recurring, Heap, LongestAge
  <1>2. CASE itask \in {"asleep", "running"}
    <2>1. /\ itask = "running" => lag < MaxLate
          /\ itask = "asleep" => sleep > -MaxLate
          /\ clock' = (clock + 1) % Cycle
          /\ due' = [j \in Jobs |-> IF j \in Heap THEN due[j] - 1 ELSE Never]
          /\ lag' = IF itask = "running" THEN lag + 1 ELSE lag
          /\ sleep' = IF itask = "asleep" THEN sleep - 1 ELSE sleep
          /\ age' = [j \in Jobs |-> Min({age[j] + 1, LongestAge(j) + 1})]
          /\ itask' = itask
      BY <1>2 DEF IntervalTick
    <2>2. clock' \in 0..Cycle - 1
      BY <1>a, <2>1, ClockType
    <2>3. /\ lag' \in 0..MaxLate /\ sleep' \in -MaxLate..Cycle + MaxLate
      BY <1>a, <2>1
    <2>4. /\ \A j \in Jobs : j \in Heap => due'[j] = due[j] - 1
          /\ \A j \in Jobs : j \notin Heap => due'[j] = Never
          /\ due' \in [Jobs -> Int \cup {Never}]
      BY <1>a, <2>1
    <2>5. \A j \in Jobs : /\ age'[j] \in 0..LongestAge(j) + 1
                          /\ age'[j] <= age[j] + 1
      <3> SUFFICES ASSUME NEW j \in Jobs
                   PROVE  /\ age'[j] \in 0..LongestAge(j) + 1
                          /\ age'[j] <= age[j] + 1
        OBVIOUS
      <3>1. age[j] + 1 \in Nat /\ LongestAge(j) + 1 \in Nat
        BY <1>a
      <3>2. age'[j] = Min({age[j] + 1, LongestAge(j) + 1})
        BY <2>1
      <3> QED
        BY <3>1, <3>2, SmallerOfTwo
    <2>6. age' \in [Jobs -> Nat]
      BY <1>a, <2>1, <2>5
    <2>7. Heap' = Heap /\ \A j \in Heap : due'[j] = due[j] - 1
      BY <1>a, <2>4 DEF Heap
    <2>8. /\ itask = "asleep" => \A j \in Heap : sleep <= due[j] + MaxLate
          /\ itask = "running" => \A j \in Heap : due[j] + lag >= -2 * MaxLate
      BY DEF IntervalInv, Lateness
    <2>9. \A j \in Heap : due'[j] \in -3 * MaxLate .. Cycle
      <3> SUFFICES ASSUME NEW j \in Heap PROVE due'[j] \in -3 * MaxLate .. Cycle
        OBVIOUS
      <3>1. due[j] \in Int /\ due[j] <= Cycle /\ due'[j] = due[j] - 1
        BY <1>a, <2>7
      <3>2. CASE itask = "asleep"
        <4>1. sleep <= due[j] + MaxLate /\ sleep >= -MaxLate + 1
          BY <1>a, <2>1, <2>8, <3>2
        <4> QED
          BY <1>a, <3>1, <4>1
      <3>3. CASE itask = "running"
        <4>1. due[j] + lag >= -2 * MaxLate /\ lag + 1 <= MaxLate
          BY <1>a, <2>1, <2>8, <3>3
        <4> QED
          BY <1>a, <3>1, <4>1
      <3> QED
        BY <1>2, <3>2, <3>3
    <2>10. Lateness'
      <3>1. itask' = "asleep" => \A j \in Heap : sleep' <= due'[j] + MaxLate
        BY <1>a, <2>1, <2>7, <2>8
      <3>2. itask' = "running" => \A j \in Heap : due'[j] + lag' >= -2 * MaxLate
        BY <1>a, <2>1, <2>7, <2>8
      <3> QED
        BY <2>7, <2>9, <3>1, <3>2 DEF Lateness
    <2>11. Recurring'
      <3>1. \A j \in Jobs \ Once : j \in Heap /\ age[j] + due[j] <= Period[j]
        BY <1>2 DEF IntervalInv, Recurring
      <3>2. ASSUME NEW j \in Jobs \ Once PROVE age'[j] + due'[j] <= Period[j]
        <4>1. /\ age[j] \in Nat /\ due[j] \in Int /\ Period[j] \in Nat
              /\ age'[j] \in Nat /\ due'[j] = due[j] - 1
          BY <1>a, <2>6, <2>7, <3>1
        <4> QED
          BY <2>5, <3>1, <4>1
      <3> QED
        BY <2>7, <3>1, <3>2 DEF Recurring
    <2>12. IntervalTypeOK'
      <3>1. \A j \in Jobs : due'[j] \in (-3 * MaxLate - 1)..Cycle \cup {Never}
        BY <1>a, <2>4, <2>9
      <3> QED
        BY <1>2, <2>1, <2>2, <2>3, <2>5, <3>1 DEF IntervalTypeOK, LongestAge
    <2> QED
      BY <2>4, <2>6, <2>10, <2>11, <2>12 DEF IntervalInv
  <1> QED
    BY <1>1, <1>2 DEF IntervalInv, IntervalTypeOK

-----------------------------------------------------------------------------
(* The SQS generator *)

LEMMA HandType ==
    ASSUME NEW H, H = {} \/ \E m \in Messages : H = {m}
    PROVE  H \subseteq Messages /\ Cardinality(H) <= 1
  <1>1. CASE H = {}
    BY <1>1, FS_EmptySet
  <1>2. ASSUME NEW m \in Messages, H = {m} PROVE H \subseteq Messages /\ Cardinality(H) <= 1
    BY <1>2, FS_Singleton
  <1> QED
    BY <1>1, <1>2

LEMMA SqsStart ==
    ASSUME NEW on \in BOOLEAN, SqsInit(on)
    PROVE  SqsInv
  <1>1. /\ stask \in {"off", "asleep"} /\ batch = {} /\ hand = {} /\ seen = <<>> /\ ever = {}
        /\ remote = [m \in Messages |-> "absent"] /\ faults = 0
        /\ sent = {} /\ others = [m \in Messages |-> {}]
    BY DEF SqsInit
  <1>2. hand \subseteq Messages /\ Cardinality(hand) <= 1
    BY <1>1, HandType
  <1>3. seen \in Seq(Messages) /\ Len(seen) = 0 /\ DOMAIN seen = {} /\ ToSet(seen) = {}
    BY <1>1 DEF ToSet
  <1>4. SqsTypeOK
    BY <1>1, <1>2, <1>3, SqsAssumption DEF SqsTypeOK
  <1>5. CacheInv
    BY <1>1, <1>3, FS_EmptySet DEF CacheInv
  <1> QED
    BY <1>1, <1>3, <1>4, <1>5 DEF SqsInv, DeletedWasSent

LEMMA SqsAgain ==
    ASSUME SqsInv, SqsRestart
    PROVE  SqsInv'
  <1>1. /\ stask' \in {"off", "asleep"} /\ batch' = {} /\ hand' = {} /\ seen' = <<>>
        /\ sent' = {} /\ others' = [m \in Messages |-> {}]
        /\ UNCHANGED <<remote, faults, ever>>
    BY DEF SqsRestart
  <1>2. hand' \subseteq Messages /\ Cardinality(hand') <= 1
    BY <1>1, HandType
  <1>3. seen' \in Seq(Messages) /\ Len(seen') = 0 /\ DOMAIN seen' = {} /\ ToSet(seen') = {}
    BY <1>1 DEF ToSet
  <1>4. SqsTypeOK'
    BY <1>1, <1>2, <1>3, SqsAssumption DEF SqsInv, SqsTypeOK
  <1>5. CacheInv'
    BY <1>1, <1>3, FS_EmptySet DEF CacheInv
  <1>6. DeletedWasSent'
    BY <1>1 DEF SqsInv, DeletedWasSent
  <1> QED
    BY <1>1, <1>3, <1>4, <1>5, <1>6 DEF SqsInv

(* The queue service only shows messages. *)
LEMMA SqsServiceInv ==
    ASSUME SqsInv, NEW m \in Messages, Arrive(m) \/ VisibilityTimeout(m) \/ Redeliver(m)
    PROVE  SqsInv'
  <1>1. /\ remote' = [remote EXCEPT ![m] = "visible"]
        /\ UNCHANGED <<stask, batch, hand, seen, sent, others, ever>>
        /\ faults' = faults \/ (faults < MaxFaults /\ faults' = faults + 1)
    BY DEF Arrive, VisibilityTimeout, Redeliver, history
  <1>2. /\ remote' \in [Messages -> {"absent", "visible", "inflight", "deleted"}]
        /\ \A n \in Messages : remote'[n] = "deleted" => remote[n] = "deleted"
    BY <1>1 DEF SqsInv, SqsTypeOK
  <1>3. faults' \in 0..MaxFaults
    BY <1>1, SqsAssumption DEF SqsInv, SqsTypeOK
  <1>4. SqsTypeOK'
    BY <1>1, <1>2, <1>3 DEF SqsInv, SqsTypeOK
  <1>5. DeletedWasSent'
    BY <1>1, <1>2 DEF SqsInv, DeletedWasSent
  <1>6. CacheInv'
    BY <1>1 DEF SqsInv, CacheInv
  <1> QED
    BY <1>1, <1>4, <1>5, <1>6 DEF SqsInv

(* A new id is put: the ones that stay, n of them, move by the d places     *)
(* that are freed.                                                          *)
LEMMA PutPlaces ==
    ASSUME SqsInv, NEW m \in Messages, m \notin ToSet(seen)
    PROVE  \E d \in 0..1, n \in Nat :
             /\ d = 1 => Len(seen) = SeenSize
             /\ n + d = Len(seen) /\ n < SeenSize
             /\ Put(m) \in Seq(Messages) /\ Len(Put(m)) = n + 1
             /\ Put(m)[n + 1] = m
             /\ \A i \in 1..n : Put(m)[i] = seen[i + d]
  <1>1. /\ seen \in Seq(Messages) /\ Len(seen) <= SeenSize /\ Len(seen) \in Nat
        /\ SeenSize \in Nat \ {0}
    BY SqsAssumption DEF SqsInv, SqsTypeOK, CacheInv
  <1>2. CASE Len(seen) = SeenSize
    <2>1. seen # <<>>
      BY <1>1, <1>2
    <2>2. PICK t : t = Tail(seen)
      OBVIOUS
    <2>3. PICK n \in Nat : n + 1 = Len(seen)
      BY <1>1, <1>2
    <2>4. /\ t \in Seq(Messages) /\ Len(t) = n
          /\ \A i \in 1..n : t[i] = seen[i + 1]
      BY <1>1, <2>1, <2>2, <2>3
    <2>5. Put(m) = Append(t, m)
      BY <1>2, <2>2 DEF Put
    <2>6. /\ Put(m) \in Seq(Messages) /\ Len(Put(m)) = n + 1
          /\ Put(m)[n + 1] = m
          /\ \A i \in 1..n : Put(m)[i] = seen[i + 1]
      BY <2>4, <2>5
    <2>7. 1 \in 0..1 /\ n < SeenSize
      BY <1>1, <1>2, <2>3
    <2> QED
      BY <1>2, <2>3, <2>6, <2>7
  <1>3. CASE Len(seen) # SeenSize
    <2>1. Put(m) = Append(seen, m)
      BY <1>3 DEF Put
    <2>2. PICK n \in Nat : n = Len(seen)
      BY <1>1
    <2>3. /\ Put(m) \in Seq(Messages) /\ Len(Put(m)) = n + 1
          /\ Put(m)[n + 1] = m
          /\ \A i \in 1..n : Put(m)[i] = seen[i]
      BY <1>1, <2>1, <2>2
    <2>4. 0 \in 0..1 /\ n < SeenSize /\ n + 0 = Len(seen) /\ 0 # 1
      BY <1>1, <1>3, <2>2
    <2>5. \A i \in 1..n : Put(m)[i] = seen[i + 0]
      BY <2>3
    <2> QED
      BY <2>3, <2>4, <2>5
  <1> QED
    BY <1>2, <1>3

(* The id that a full cache drops has had SeenSize others put after it: the *)
(* ones in the cache, which differ, and the new one.                        *)
LEMMA Forgotten ==
    ASSUME SqsInv, NEW m \in Messages, m \notin ToSet(seen), Len(seen) = SeenSize,
           NEW S, IsFiniteSet(S), m \in S, \A i \in 2..Len(seen) : seen[i] \in S
    PROVE  Cardinality(S) >= SeenSize
  <1>1. /\ seen \in Seq(Messages) /\ SeenSize \in Nat \ {0} /\ DOMAIN seen = 1..SeenSize
        /\ \A i, j \in 1..SeenSize : i # j => seen[i] # seen[j]
        /\ \A i \in 1..SeenSize : seen[i] # m
    BY SqsAssumption DEF SqsInv, CacheInv, ToSet
  <1>2. PICK f : f = [i \in 1..SeenSize |-> IF i = 1 THEN m ELSE seen[i]]
    OBVIOUS
  <1>3. f \in [1..SeenSize -> S]
    BY <1>1, <1>2
  <1>4. \A i, j \in 1..SeenSize : f[i] = f[j] => i = j
    BY <1>1, <1>2
  <1>5. f \in Injection(1..SeenSize, S)
    BY <1>3, <1>4 DEF Injection, IsInjective
  <1>6. Cardinality(1..SeenSize) <= Cardinality(S)
    BY <1>5, FS_Injection
  <1>7. Cardinality(1..SeenSize) = SeenSize
    BY <1>1, FS_Interval
  <1>8. Cardinality(S) \in Nat
    BY FS_CardinalityType
  <1> QED
    BY <1>1, <1>6, <1>7, <1>8

(* The cache after an id is put. *)
LEMMA PutInv ==
    ASSUME SqsInv, NEW m \in Messages, m \notin ToSet(seen),
           seen' = Put(m), sent' = sent, hand' \in {{}, {m}},
           others' = [n \in Messages |-> others[n] \cup ({m} \ {n})]
    PROVE  /\ CacheInv'
           /\ Len(seen') <= SeenSize
           /\ ToSet(seen') \subseteq ToSet(seen) \cup {m} /\ m \in ToSet(seen')
  <1>a. PICK d \in 0..1, l \in Nat :
          /\ d = 1 => Len(seen) = SeenSize
          /\ l + d = Len(seen) /\ l < SeenSize
          /\ Put(m) \in Seq(Messages) /\ Len(Put(m)) = l + 1
          /\ Put(m)[l + 1] = m
          /\ \A i \in 1..l : Put(m)[i] = seen[i + d]
    BY PutPlaces
  <1>1. /\ seen' \in Seq(Messages) /\ Len(seen') = l + 1 /\ DOMAIN seen' = 1..l + 1
        /\ seen'[l + 1] = m
        /\ \A i \in 1..l : seen'[i] = seen[i + d]
    BY <1>a
  <1>2. /\ seen \in Seq(Messages) /\ DOMAIN seen = 1..l + d
        /\ sent \subseteq Messages /\ SeenSize \in Nat
        /\ others \in [Messages -> SUBSET Messages]
        /\ \A i \in 1..l + d : seen[i] # m /\ seen[i] \in Messages
    <2>1. /\ sent \subseteq Messages /\ SeenSize \in Nat /\ seen \in Seq(Messages)
          /\ others \in [Messages -> SUBSET Messages]
      BY SqsAssumption DEF SqsInv, CacheInv, SqsTypeOK
    <2>2. DOMAIN seen = 1..l + d
      BY <1>a, <2>1
    <2>3. \A i \in DOMAIN seen : seen[i] # m /\ seen[i] \in Messages
      BY <2>1 DEF ToSet
    <2> QED
      BY <2>1, <2>2, <2>3
  <1>b. \A i \in 1..l : i + d \in 1..l + d
    OBVIOUS
  <1>3. \A i, j \in DOMAIN seen' : i # j => seen'[i] # seen'[j]
    <2> SUFFICES ASSUME NEW i \in 1..l + 1, NEW j \in 1..l + 1, i < j
                 PROVE  seen'[i] # seen'[j]
      BY <1>1
    <2>1. i \in 1..l /\ (j = l + 1 \/ j \in 1..l)
      OBVIOUS
    <2>2. seen'[i] = seen[i + d] /\ i + d \in 1..l + d
      BY <1>1, <1>b, <2>1
    <2>3. CASE j = l + 1
      BY <1>1, <1>2, <2>2, <2>3
    <2>4. CASE j \in 1..l
      <3>1. seen'[j] = seen[j + d] /\ j + d \in 1..l + d /\ i + d # j + d
        BY <1>1, <1>b, <2>4
      <3> QED
        BY <1>2, <2>2, <3>1 DEF SqsInv, CacheInv
    <2> QED
      BY <2>1, <2>3, <2>4
  <1>4. \A n \in Messages : /\ others'[n] = others[n] \cup ({m} \ {n})
                            /\ IsFiniteSet(others'[n])
    <2> SUFFICES ASSUME NEW n \in Messages
                 PROVE  others'[n] = others[n] \cup ({m} \ {n}) /\ IsFiniteSet(others'[n])
      OBVIOUS
    <2>1. others'[n] = others[n] \/ others'[n] = others[n] \cup {m}
      BY <1>2
    <2>2. IsFiniteSet(others[n]) /\ IsFiniteSet(others[n] \cup {m})
      BY FS_AddElement DEF SqsInv, CacheInv
    <2>3. others'[n] = others[n] \cup ({m} \ {n})
      OBVIOUS
    <2> QED
      BY <2>1, <2>2, <2>3
  <1>5. \A i, j \in DOMAIN seen' : i < j /\ seen'[i] \in sent => seen'[j] \in others'[seen'[i]]
    <2> SUFFICES ASSUME NEW i \in DOMAIN seen', NEW j \in DOMAIN seen', i < j, seen'[i] \in sent
                 PROVE  seen'[j] \in others'[seen'[i]]
      OBVIOUS
    <2>0. i \in 1..l /\ (j = l + 1 \/ j \in 1..l)
      BY <1>1
    <2>1. /\ seen'[i] = seen[i + d] /\ i + d \in DOMAIN seen
          /\ seen[i + d] # m /\ seen[i + d] \in Messages
      BY <1>1, <1>2, <1>b, <2>0
    <2>2. others'[seen'[i]] = others[seen[i + d]] \cup {m}
      BY <1>4, <2>1
    <2>3. CASE j = l + 1
      BY <1>1, <2>2, <2>3
    <2>4. CASE j \in 1..l
      <3>1. seen'[j] = seen[j + d] /\ j + d \in DOMAIN seen /\ i + d < j + d
        <4>1. i + d < j + d
          BY <1>1, <2>4
        <4> QED
          BY <1>1, <1>2, <1>b, <2>4, <4>1
      <3>2. seen[j + d] \in others[seen[i + d]]
        BY <2>1, <3>1 DEF SqsInv, CacheInv
      <3> QED
        BY <2>2, <3>1, <3>2
    <2> QED
      BY <2>0, <2>3, <2>4
  <1>6. \A n \in Messages : Cardinality(others[n]) >= SeenSize => Cardinality(others'[n]) >= SeenSize
    <2> SUFFICES ASSUME NEW n \in Messages, Cardinality(others[n]) >= SeenSize
                 PROVE  Cardinality(others'[n]) >= SeenSize
      OBVIOUS
    <2>1. IsFiniteSet(others'[n]) /\ others[n] \in SUBSET others'[n]
      BY <1>4
    <2>2. /\ Cardinality(others[n]) <= Cardinality(others'[n])
          /\ Cardinality(others[n]) \in Nat /\ Cardinality(others'[n]) \in Nat
      BY <2>1, FS_Subset, FS_CardinalityType
    <2> QED
      BY <1>2, <2>2
  <1>7. \A n \in sent \ ToSet(seen') : Cardinality(others'[n]) >= SeenSize
    <2> SUFFICES ASSUME NEW n \in sent \ ToSet(seen') PROVE Cardinality(others'[n]) >= SeenSize
      OBVIOUS
    <2>1. n \in Messages /\ n # m
      <3>1. l + 1 \in DOMAIN seen'
        BY <1>1
      <3> QED
        BY <1>1, <1>2, <3>1 DEF ToSet
    <2>2. CASE n \notin ToSet(seen)
      BY <1>6, <2>1, <2>2 DEF SqsInv, CacheInv
    <2>3. CASE n \in ToSet(seen)
      <3>1. PICK k \in DOMAIN seen : seen[k] = n
        BY <2>3 DEF ToSet
      <3>2. k <= d
        <4> SUFFICES ASSUME k > d PROVE FALSE
          BY <1>2
        <4>1. k - d \in 1..l /\ (k - d) + d = k
          BY <1>2
        <4>2. seen'[k - d] = n /\ k - d \in DOMAIN seen'
          BY <1>1, <3>1, <4>1
        <4> QED
          BY <4>2 DEF ToSet
      <3>3. k = 1 /\ Len(seen) = SeenSize
        BY <1>a, <1>2, <3>2
      <3>4. \A i \in 2..Len(seen) : seen[i] \in others[n]
        BY <1>a, <1>2, <3>1, <3>3 DEF SqsInv, CacheInv
      <3>5. m \in others'[n] /\ \A i \in 2..Len(seen) : seen[i] \in others'[n]
        BY <1>4, <2>1, <3>4
      <3>6. IsFiniteSet(others'[n])
        BY <1>4, <2>1
      <3> QED
        BY <3>3, <3>5, <3>6, Forgotten
    <2> QED
      BY <2>2, <2>3
  <1>8. /\ \A i \in DOMAIN seen' : seen'[i] = m => i = Len(seen')
        /\ m \in sent => Cardinality(others'[m]) >= SeenSize
    <2>1. m \in sent => Cardinality(others[m]) >= SeenSize
      BY DEF SqsInv, CacheInv
    <2>2. \A i \in DOMAIN seen' : seen'[i] = m => i = Len(seen')
      <3> SUFFICES ASSUME NEW i \in 1..l + 1, i # l + 1 PROVE seen'[i] # m
        BY <1>1
      <3>1. i \in 1..l
        OBVIOUS
      <3> QED
        BY <1>1, <1>2, <1>b, <3>1
    <2> QED
      BY <1>6, <2>1, <2>2
  <1>9. CacheInv'
    <2>1. \A n \in hand' : n = m
      OBVIOUS
    <2> QED
      BY <1>1, <1>3, <1>4, <1>5, <1>7, <1>8, <2>1 DEF CacheInv
  <1>10. ToSet(seen') \subseteq ToSet(seen) \cup {m}
    <2> SUFFICES ASSUME NEW i \in 1..l + 1 PROVE seen'[i] \in ToSet(seen) \cup {m}
      BY <1>1 DEF ToSet
    <2>1. CASE i = l + 1
      BY <1>1, <2>1
    <2>2. CASE i \in 1..l
      BY <1>1, <1>2, <1>b, <2>2 DEF ToSet
    <2> QED
      BY <2>1, <2>2
  <1>11. m \in ToSet(seen')
    <2>1. l + 1 \in DOMAIN seen'
      BY <1>1
    <2> QED
      BY <1>1, <2>1 DEF ToSet
  <1>12. Len(seen') <= SeenSize
    BY <1>a, <1>1, <1>2
  <1> QED
    BY <1>9, <1>10, <1>11, <1>12

LEMMA SqsHandleInv ==
    ASSUME SqsInv, NEW m \in Messages, SqsHandle(m)
    PROVE  SqsInv'
  <1>1. /\ stask = "handle" /\ batch' = batch \ {m}
        /\ UNCHANGED <<remote, faults, sent, ever>>
    BY DEF SqsHandle
  <1>2. \A n \in ToSet(seen) \ Bodyless : n \in ever
    BY <1>1 DEF SqsInv
  <1>3. CASE m \in ToSet(seen)
    <2>1. stask' = "delete" /\ hand' = {m} /\ UNCHANGED <<seen, others>>
      BY <1>3 DEF SqsHandle, AfterSeen
    <2>2. hand' \subseteq Messages /\ Cardinality(hand') <= 1
      BY <2>1, HandType
    <2>3. SqsTypeOK'
      BY <1>1, <2>1, <2>2 DEF SqsInv, SqsTypeOK
    <2>4. CacheInv'
      BY <1>1, <2>1 DEF SqsInv, CacheInv
    <2>5. DeletedWasSent'
      BY <1>1 DEF SqsInv, DeletedWasSent
    <2> QED
      BY <1>1, <1>2, <1>3, <2>1, <2>3, <2>4, <2>5 DEF SqsInv
  <1>4. CASE m \notin ToSet(seen)
    <2>1. /\ seen' = Put(m)
          /\ others' = [n \in Messages |-> others[n] \cup ({m} \ {n})]
          /\ \/ m \in Bodyless /\ stask' = "handle" /\ hand' = {}
             \/ m \notin Bodyless /\ stask' = "send" /\ hand' = {m}
      BY <1>4 DEF SqsHandle, AfterSeen
    <2>2. /\ CacheInv' /\ Len(seen') <= SeenSize
          /\ ToSet(seen') \subseteq ToSet(seen) \cup {m} /\ m \in ToSet(seen')
      <3>1. hand' \in {{}, {m}}
        BY <2>1
      <3> QED
        BY <1>1, <1>4, <2>1, <3>1, PutInv
    <2>3. hand' \subseteq Messages /\ Cardinality(hand') <= 1
      BY <2>1, HandType
    <2>4. others' \in [Messages -> SUBSET Messages]
      BY <2>1 DEF SqsInv, SqsTypeOK
    <2>5. SqsTypeOK'
      BY <1>1, <2>1, <2>2, <2>3, <2>4 DEF SqsInv, SqsTypeOK, CacheInv
    <2>6. DeletedWasSent'
      BY <1>1 DEF SqsInv, DeletedWasSent
    <2>7. \A n \in ToSet(seen') \ Bodyless : n \in ever' \/ (stask' = "send" /\ n \in hand')
      BY <1>1, <1>2, <2>1, <2>2
    <2> QED
      BY <2>1, <2>2, <2>5, <2>6, <2>7 DEF SqsInv
  <1> QED
    BY <1>3, <1>4

(* The message in hand is the last one put, so that nothing was put since.  *)
LEMMA SqsSendInv ==
    ASSUME SqsInv, SqsSend, ~closed
    PROVE  SqsInv'
  <1>1. /\ stask = "send" /\ stask' = "delete"
        /\ sent' = sent \cup hand /\ ever' = ever \cup hand
        /\ others' = [m \in Messages |-> IF m \in hand THEN {} ELSE others[m]]
        /\ UNCHANGED <<batch, hand, seen, remote, faults>>
    BY DEF SqsSend
  <1>2. hand \subseteq Messages /\ others' \in [Messages -> SUBSET Messages]
    BY <1>1 DEF SqsInv, SqsTypeOK
  <1>3. SqsTypeOK'
    BY <1>1, <1>2 DEF SqsInv, SqsTypeOK
  <1>4. \A m \in Messages : IsFiniteSet(others'[m])
    BY <1>1, FS_EmptySet DEF SqsInv, CacheInv
  <1>5. seen \in Seq(Messages) /\ DOMAIN seen = 1..Len(seen) /\ Len(seen) \in Nat
    BY DEF SqsInv, CacheInv
  <1>6. \A i, j \in DOMAIN seen : i < j /\ seen[i] \in sent' => seen[j] \in others'[seen[i]]
    <2> SUFFICES ASSUME NEW i \in DOMAIN seen, NEW j \in DOMAIN seen, i < j, seen[i] \in sent'
                 PROVE  seen[j] \in others'[seen[i]]
      OBVIOUS
    <2>1. seen[i] \notin hand
      BY <1>1, <1>5 DEF SqsInv, CacheInv
    <2>2. seen[i] \in Messages
      BY <1>5
    <2> QED
      BY <1>1, <2>1, <2>2 DEF SqsInv, CacheInv
  <1>7. \A m \in sent' \ ToSet(seen) : Cardinality(others'[m]) >= SeenSize
    <2>1. hand \subseteq ToSet(seen) /\ sent \subseteq Messages
      BY <1>1 DEF SqsInv, SqsTypeOK
    <2> QED
      BY <1>1, <2>1 DEF SqsInv, CacheInv
  <1>8. CacheInv'
    BY <1>1, <1>4, <1>5, <1>6, <1>7 DEF SqsInv, CacheInv
  <1>9. DeletedWasSent'
    BY <1>1 DEF SqsInv, DeletedWasSent
  <1> QED
    BY <1>1, <1>3, <1>8, <1>9 DEF SqsInv

LEMMA SqsTaskInv ==
    ASSUME SqsInv, SqsTask, closed => Ended
    PROVE  SqsInv'
  <1>1. CASE SqsWake \/ SqsReceivesNone \/ SqsBatchDone \/ SqsStop
    <2>1. /\ stask' \in {"receive", "asleep", "ended"} /\ stask \notin {"send", "delete"}
          /\ UNCHANGED <<batch, hand, seen, remote, faults, sent, others, ever>>
      BY <1>1 DEF SqsWake, SqsReceivesNone, SqsBatchDone, SqsStop, history
    <2>2. SqsTypeOK'
      BY <2>1 DEF SqsInv, SqsTypeOK
    <2>3. CacheInv'
      BY <2>1 DEF SqsInv, CacheInv
    <2> QED
      BY <2>1, <2>2, <2>3 DEF SqsInv, DeletedWasSent
  <1>2. ASSUME NEW got \in SUBSET Visible, SqsReceive(got) PROVE SqsInv'
    <2>1. /\ stask = "receive" /\ stask' = "handle" /\ batch' = got
          /\ remote' = [m \in Messages |-> IF m \in got THEN "inflight" ELSE remote[m]]
          /\ UNCHANGED <<hand, seen, faults, sent, others, ever>>
      BY <1>2 DEF SqsReceive, history
    <2>2. got \subseteq Messages
      BY DEF Visible
    <2>3. SqsTypeOK'
      BY <2>1, <2>2 DEF SqsInv, SqsTypeOK
    <2>4. DeletedWasSent'
      BY <2>1 DEF SqsInv, DeletedWasSent
    <2>5. CacheInv'
      BY <2>1 DEF SqsInv, CacheInv
    <2> QED
      BY <2>1, <2>3, <2>4, <2>5 DEF SqsInv
  <1>3. ASSUME NEW m \in Messages, SqsHandle(m) PROVE SqsInv'
    BY <1>3, SqsHandleInv
  <1>4. CASE SqsSend
    <2>1. ~closed
      BY <1>4, Zenon DEF SqsSend, Ended
    <2> QED
      BY <1>4, <2>1, SqsSendInv
  <1>5. CASE SqsDelete
    <2>1. /\ stask = "delete" /\ stask' = "handle" /\ hand' = {}
          /\ \A m \in Messages : remote'[m] = "deleted" => remote[m] = "deleted" \/ m \in hand
          /\ remote' \in [Messages -> {"absent", "visible", "inflight", "deleted"}]
          /\ faults' \in 0..MaxFaults
          /\ UNCHANGED <<batch, seen, sent, others, ever>>
      BY <1>5, SqsAssumption DEF SqsDelete, SqsInv, SqsTypeOK, history
    <2>2. \A m \in hand \ Bodyless : m \in ever
      BY <2>1 DEF SqsInv
    <2>3. DeletedWasSent'
      BY <2>1, <2>2 DEF SqsInv, DeletedWasSent
    <2>4. hand' \subseteq Messages /\ Cardinality(hand') <= 1
      BY <2>1, HandType
    <2>5. SqsTypeOK'
      BY <2>1, <2>4 DEF SqsInv, SqsTypeOK
    <2>6. CacheInv'
      BY <2>1 DEF SqsInv, CacheInv
    <2> QED
      BY <2>1, <2>3, <2>5, <2>6 DEF SqsInv
  <1> QED
    BY <1>1, <1>2, <1>3, <1>4, <1>5 DEF SqsTask

-----------------------------------------------------------------------------
(* The websocket client *)

LEMMA SelectorType ==
    ASSUME NEW h \in NewSelector
    PROVE  h \in Seq(UriEntry)
  <1>1. PICK order \in SetToSeqs(Uris) :
          h = [k \in DOMAIN order |->
                 [uri |-> order[k], backoff |-> InitialRetryAfter, wait |-> 0]]
    BY DEF NewSelector
  <1>2. PICK n \in Nat : order \in [1..n -> Uris]
    BY FS_CardinalityType, WebsocketAssumption DEF SetToSeqs
  <1>3. h \in [1..n -> UriEntry]
    BY <1>1, <1>2, WebsocketAssumption DEF UriEntry
  <1> QED
    BY <1>2, <1>3

LEMMA WebsocketStart ==
    ASSUME NEW on \in BOOLEAN, WebsocketInit(on)
    PROVE  WebsocketInv
  <1>1. /\ wtask \in {"select", "off"} /\ entry = <<>>
        /\ heap \in NewSelector \/ heap = <<>>
    BY DEF WebsocketInit
  <1>2. heap \in Seq(UriEntry) /\ entry \in Seq(UriEntry)
    <2>1. \A h \in NewSelector : h \in Seq(UriEntry)
      BY SelectorType
    <2>2. <<>> \in Seq(UriEntry)
      OBVIOUS
    <2> QED
      BY <1>1, <2>1, <2>2, Zenon
  <1>3. Len(entry) = 0
    BY <1>1
  <1>4. WebsocketTypeOK
    BY <1>1, <1>2, <1>3 DEF WebsocketTypeOK
  <1> QED
    BY <1>1, <1>2, <1>4 DEF WebsocketInv

LEMMA WebsocketAgain ==
    ASSUME WebsocketInv, WebsocketRestart
    PROVE  WebsocketInv'
  <1>1. /\ wtask' \in {"select", "off"} /\ entry' = <<>>
        /\ heap' \in NewSelector \/ heap' = heap
    BY DEF WebsocketRestart
  <1>2. heap' \in Seq(UriEntry) /\ entry' \in Seq(UriEntry)
    BY <1>1, SelectorType DEF WebsocketInv
  <1>3. Len(entry') = 0
    BY <1>1
  <1>4. WebsocketTypeOK'
    BY <1>1, <1>2, <1>3 DEF WebsocketTypeOK
  <1> QED
    BY <1>1, <1>2, <1>4 DEF WebsocketInv

(* Time passes for the entries in the heap. *)
LEMMA WebsocketTickInv ==
    ASSUME WebsocketInv, WebsocketTick
    PROVE  WebsocketInv'
  <1>1. /\ heap \in Seq(UriEntry) /\ UNCHANGED <<wtask, entry>>
        /\ heap' = [k \in DOMAIN heap |->
                      IF heap[k].wait = 0 THEN heap[k]
                      ELSE [heap[k] EXCEPT !.wait = heap[k].wait - 1]]
    BY DEF WebsocketInv, WebsocketTick
  <1>2. \A e \in UriEntry : e.wait # 0 => [e EXCEPT !.wait = e.wait - 1] \in UriEntry
    BY WebsocketAssumption DEF UriEntry
  <1>3. PICK n \in Nat : heap \in [1..n -> UriEntry]
    BY <1>1
  <1>4. \A k \in 1..n : heap'[k] \in UriEntry
    BY <1>1, <1>2, <1>3
  <1>5. heap' \in [1..n -> UriEntry]
    BY <1>1, <1>3, <1>4
  <1>6. heap' \in Seq(UriEntry)
    BY <1>3, <1>5
  <1>7. \A k \in DOMAIN heap' : heap'[k] \in UriEntry
    BY <1>5
  <1>8. WebsocketTypeOK'
    BY <1>1, <1>7 DEF WebsocketInv, WebsocketTypeOK
  <1> QED
    BY <1>1, <1>6, <1>8 DEF WebsocketInv

(* The entry that failed goes back to the heap. *)
LEMMA FailedType ==
    ASSUME heap \in Seq(UriEntry), NEW e \in UriEntry, mark_failed(e)
    PROVE  heap' \in Seq(UriEntry)
  <1>1. PICK b \in 0..MaxRetryAfter :
          heap' \in Pushed([e EXCEPT !.backoff = b, !.wait = b])
    <2>1. e.backoff \in Nat /\ MaxRetryAfter \in Nat
      BY WebsocketAssumption DEF UriEntry
    <2>2. (IF 2 * e.backoff < MaxRetryAfter THEN 2 * e.backoff ELSE MaxRetryAfter)
            \in 0..MaxRetryAfter
      BY <2>1
    <2> QED
      BY <2>2 DEF mark_failed
  <1>2. PICK f \in UriEntry : f = [e EXCEPT !.backoff = b, !.wait = b]
    BY DEF UriEntry
  <1>3. PICK k \in 1..Len(heap) + 1 : heap' = InsertAt(heap, k, f)
    BY <1>1, <1>2 DEF Pushed
  <1> QED
    BY <1>3 DEF InsertAt

LEMMA WebsocketTaskInv ==
    ASSUME WebsocketInv, WsTask \/ WsPeer
    PROVE  WebsocketInv'
  <1>a. /\ heap \in Seq(UriEntry) /\ entry \in Seq(UriEntry)
        /\ wtask \in {"connect", "open", "send"} => Len(entry) = 1 /\ entry[1] \in UriEntry
    BY DEF WebsocketInv
  <1>1. CASE WsNextUri
    <2>1. /\ heap # <<>> /\ entry' = <<Head(heap)>> /\ heap' = Tail(heap)
          /\ wtask' = "connect"
      BY <1>1 DEF WsNextUri
    <2>2. Head(heap) \in UriEntry /\ heap' \in Seq(UriEntry)
      BY <1>a, <2>1
    <2>3. entry' \in Seq(UriEntry) /\ Len(entry') = 1
      BY <2>1, <2>2
    <2> QED
      BY <2>1, <2>2, <2>3 DEF WebsocketInv, WebsocketTypeOK
  <1>2. CASE WsConnectFails \/ WsDropped
    <2>1. /\ wtask \in {"connect", "open"} /\ wtask' = "select" /\ entry' = <<>>
          /\ mark_failed(entry[1]) \/ mark_failed(reset_failure(entry[1]))
      BY <1>2 DEF WsConnectFails, WsDropped
    <2>2. entry[1] \in UriEntry
      BY <1>a, <2>1
    <2>3. reset_failure(entry[1]) \in UriEntry
      <3>1. PICK e \in UriEntry : e = entry[1]
        BY <2>2
      <3>2. 0 \in 0..MaxRetryAfter
        BY WebsocketAssumption
      <3>3. [e EXCEPT !.backoff = InitialRetryAfter, !.wait = 0] \in UriEntry
        BY <3>2 DEF UriEntry
      <3> QED
        BY <3>1, <3>3 DEF reset_failure
    <2>4. heap' \in Seq(UriEntry)
      BY <1>a, <2>1, <2>2, <2>3, FailedType
    <2>5. entry' \in Seq(UriEntry) /\ Len(entry') = 0
      BY <2>1
    <2> QED
      BY <2>1, <2>4, <2>5 DEF WebsocketInv, WebsocketTypeOK
  <1>3. CASE WsOpen \/ WsRead \/ WsSend \/ WsAbort
    <2>1. /\ wtask' \in {"open", "send"} => wtask \in {"connect", "open", "send"}
          /\ wtask' \in {"open", "send", "ended"} /\ UNCHANGED <<heap, entry>>
      BY <1>3 DEF WsOpen, WsRead, WsSend, WsAbort
    <2> QED
      BY <2>1 DEF WebsocketInv, WebsocketTypeOK
  <1> QED
    BY <1>1, <1>2, <1>3 DEF WsTask, WsPeer

-----------------------------------------------------------------------------
(* Theorems *)

(* The channel, and the parts a step leaves alone. *)
LEMMA QueueStep ==
    ASSUME QueueTypeOK,
           \/ UNCHANGED queueVars
           \/ (Send \/ TrySend \/ ExecutorTakes) /\ UNCHANGED <<cancelled, closed, crashes>>
           \/ Cancel /\ UNCHANGED <<waiting, closed, crashes>>
           \/ DropReceivers /\ UNCHANGED <<waiting, cancelled, crashes>>
           \/ QueueRestart
    PROVE  QueueTypeOK'
  <1> USE SourceQueueAssumption
  <1>1. CASE UNCHANGED queueVars
    BY <1>1 DEF QueueTypeOK, queueVars
  <1>2. CASE (Send \/ TrySend \/ ExecutorTakes) /\ UNCHANGED <<cancelled, closed, crashes>>
    BY <1>2 DEF QueueTypeOK, Send, TrySend, HasRoom, ExecutorTakes
  <1>3. CASE \/ Cancel /\ UNCHANGED <<waiting, closed, crashes>>
             \/ DropReceivers /\ UNCHANGED <<waiting, cancelled, crashes>>
    <2>1. waiting' \in 0..QueueSize /\ crashes' \in 0..MaxCrashes
      BY <1>3 DEF QueueTypeOK
    <2>2. cancelled' \in BOOLEAN /\ closed' \in BOOLEAN
      BY <1>3, Zenon DEF QueueTypeOK, Cancel, DropReceivers
    <2> QED
      BY <2>1, <2>2, Zenon DEF QueueTypeOK
  <1>4. CASE QueueRestart
    <2>1. waiting' \in 0..QueueSize /\ crashes' \in 0..MaxCrashes
      BY <1>4 DEF QueueTypeOK, QueueRestart
    <2>2. cancelled' \in BOOLEAN /\ closed' \in BOOLEAN
      BY <1>4, Zenon DEF QueueRestart
    <2> QED
      BY <2>1, <2>2, Zenon DEF QueueTypeOK
  <1> QED
    BY <1>1, <1>2, <1>3, <1>4

LEMMA PartsFrame ==
    /\ IntervalInv /\ UNCHANGED intervalVars => IntervalInv'
    /\ SqsInv /\ UNCHANGED sqsVars => SqsInv'
    /\ WebsocketInv /\ UNCHANGED websocketVars => WebsocketInv'
  <1>1. IntervalInv /\ UNCHANGED intervalVars => IntervalInv'
    BY DEF IntervalInv, IntervalTypeOK, Lateness, Recurring, Heap, LongestAge, intervalVars
  <1>2. SqsInv /\ UNCHANGED sqsVars => SqsInv'
    BY DEF SqsInv, SqsTypeOK, CacheInv, DeletedWasSent, sqsVars, history
  <1>3. WebsocketInv /\ UNCHANGED websocketVars => WebsocketInv'
    BY DEF WebsocketInv, WebsocketTypeOK, websocketVars
  <1> QED
    BY <1>1, <1>2, <1>3

LEMMA InitIInv == Init => IInv
  <1> SUFFICES ASSUME Init PROVE IInv
    OBVIOUS
  <1>1. PICK on \in Configurations : /\ IntervalInit("interval" \in on)
                                     /\ SqsInit("sqs" \in on)
                                     /\ WebsocketInit("websocket" \in on)
    BY DEF Init
  <1>2. /\ ("interval" \in on) \in BOOLEAN
        /\ ("sqs" \in on) \in BOOLEAN
        /\ ("websocket" \in on) \in BOOLEAN
    OBVIOUS
  <1>a. IntervalInv
    BY <1>1, <1>2, IntervalStart
  <1>b. SqsInv
    BY <1>1, <1>2, SqsStart
  <1>c. WebsocketInv
    BY <1>1, <1>2, WebsocketStart
  <1>3. QueueTypeOK
    <2>1. waiting \in 0..QueueSize /\ crashes \in 0..MaxCrashes
      BY SourceQueueAssumption DEF Init, QueueInit
    <2>2. cancelled \in BOOLEAN /\ closed \in BOOLEAN
      BY Zenon DEF Init, QueueInit
    <2> QED
      BY <2>1, <2>2, Zenon DEF QueueTypeOK
  <1> QED
    BY <1>a, <1>b, <1>c, <1>3 DEF IInv, ClosedLast, Init, QueueInit

(* Nobody steps after the receivers are gone. *)
LEMMA ClosedLastInv ==
    ASSUME ClosedLast, QueueTypeOK, [Next]_vars
    PROVE  ClosedLast'
  <1>1. CASE IntervalStep \/ SqsStep \/ WsStep \/ PeerStep
    <2>1. closed' = closed /\ ~Ended
      <3>1. CASE IntervalStep
        BY <3>1 DEF IntervalStep, IntervalTask, IntervalWake, IntervalDone,
                    IntervalStop, IntervalRun, Ended, queueVars
      <3>2. CASE SqsStep
        BY <3>2 DEF SqsStep, SqsTask, SqsWake, SqsReceivesNone, SqsSend, SqsDelete,
                    SqsBatchDone, SqsStop, SqsReceive, SqsHandle, Ended, queueVars
      <3>3. CASE WsStep \/ PeerStep
        BY <3>3 DEF WsStep, PeerStep, WsTask, WsPeer, WsNextUri, WsOpen, WsConnectFails,
                    WsSend, WsAbort, WsRead, WsDropped, Ended, queueVars
      <3> QED
        BY <1>1, <3>1, <3>2, <3>3
    <2> QED
      BY <2>1, Zenon DEF ClosedLast
  <1>2. CASE ServiceStep \/ Tick \/ Queue \/ Shutdown \/ Drain \/ UNCHANGED vars
    <2>1. /\ UNCHANGED <<itask, stask, wtask>>
          /\ closed' = closed \/ Ended
      <3>1. CASE ServiceStep
        BY <3>1 DEF ServiceStep, Arrive, VisibilityTimeout, Redeliver, intervalVars,
                    websocketVars, queueVars
      <3>2. CASE Tick
        BY <3>2 DEF Tick, IntervalTick, WebsocketTick, intervalVars, sqsVars, queueVars
      <3>3. CASE Queue \/ Shutdown \/ Drain \/ UNCHANGED vars
        BY <3>3 DEF Queue, Shutdown, Drain, vars, intervalVars, sqsVars, websocketVars,
                    queueVars
      <3> QED
        BY <1>2, <3>1, <3>2, <3>3
    <2> QED
      BY <2>1, Zenon DEF ClosedLast, Ended
  <1>3. CASE Crash
    BY <1>3 DEF Crash, QueueRestart, ClosedLast
  <1> QED
    BY <1>1, <1>2, <1>3 DEF Next

(* The inductive invariant holds in every reachable state: a step of one    *)
(* generator leaves the others alone, but for time, which passes for all,   *)
(* and a crash.                                                             *)
THEOREM Invariance == Spec => []IInv
  <1>1. IInv /\ [Next]_vars => IInv'
    <2> SUFFICES ASSUME IInv, [Next]_vars PROVE IInv'
      OBVIOUS
    <2> USE DEF IInv
    <2>c. ClosedLast'
      BY ClosedLastInv
    <2>1. CASE IntervalStep
      <3>1. QueueTypeOK'
        <4>1. \/ UNCHANGED queueVars
              \/ TrySend /\ UNCHANGED <<cancelled, closed, crashes>>
          BY <2>1 DEF IntervalStep, IntervalTask, IntervalWake, IntervalDone,
                      IntervalStop, IntervalRun
        <4> QED
          BY <4>1, QueueStep
      <3> QED
        BY <2>1, <2>c, <3>1, IntervalTaskInv, PartsFrame
           DEF IntervalStep, sqsVars, websocketVars
    <2>2. CASE SqsStep
      <3>1. QueueTypeOK'
        <4>1. \/ UNCHANGED queueVars
              \/ Send /\ UNCHANGED <<cancelled, closed, crashes>>
          BY <2>2 DEF SqsStep, SqsTask, SqsWake, SqsReceivesNone, SqsSend,
                      SqsDelete, SqsBatchDone, SqsStop, SqsReceive, SqsHandle
        <4> QED
          BY <4>1, QueueStep
      <3> QED
        BY <2>2, <2>c, <3>1, SqsTaskInv, PartsFrame
           DEF SqsStep, ClosedLast, intervalVars, websocketVars
    <2>3. CASE WsStep \/ PeerStep
      <3>1. QueueTypeOK'
        <4>1. \/ UNCHANGED queueVars
              \/ Send /\ UNCHANGED <<cancelled, closed, crashes>>
          BY <2>3 DEF WsStep, PeerStep, WsTask, WsPeer, WsNextUri, WsOpen,
                      WsConnectFails, WsSend, WsAbort, WsRead, WsDropped
        <4> QED
          BY <4>1, QueueStep
      <3> QED
        BY <2>3, <2>c, <3>1, WebsocketTaskInv, PartsFrame
           DEF WsStep, PeerStep, intervalVars, sqsVars
    <2>4. CASE ServiceStep
      <3>1. PICK m \in Messages : Arrive(m) \/ VisibilityTimeout(m) \/ Redeliver(m)
        BY <2>4 DEF ServiceStep
      <3>2. UNCHANGED queueVars
        BY <3>1 DEF Arrive, VisibilityTimeout, Redeliver
      <3> QED
        BY <2>4, <2>c, <3>1, <3>2, QueueStep, SqsServiceInv, PartsFrame
           DEF ServiceStep, intervalVars, websocketVars
    <2>5. CASE Tick
      BY <2>5, <2>c, QueueStep, IntervalTickInv, WebsocketTickInv, PartsFrame
         DEF Tick, queueVars, sqsVars
    <2>6. CASE Queue \/ Shutdown \/ Drain
      BY <2>6, <2>c, QueueStep, PartsFrame
         DEF Queue, Shutdown, Drain, OtherSends, intervalVars, sqsVars, websocketVars
    <2>7. CASE Crash
      BY <2>7, <2>c, QueueStep, IntervalAgain, SqsAgain, WebsocketAgain DEF Crash
    <2>8. CASE UNCHANGED vars
      BY <2>8, <2>c, QueueStep, PartsFrame
         DEF vars, queueVars, intervalVars, sqsVars, websocketVars
    <2> QED
      BY <2>1, <2>2, <2>3, <2>4, <2>5, <2>6, <2>7, <2>8 DEF Next
  <1> QED
    BY InitIInv, <1>1, PTL DEF Spec

(* Every variable has its type: the channel never has more than its size,   *)
(* no sleep of the interval jobs is longer than a cycle, and no backoff of  *)
(* a URI exceeds the maximum.                                               *)
THEOREM TypeCorrectness == Spec => []TypeOK
  <1>1. IInv => TypeOK
    BY DEF IInv, TypeOK, IntervalInv, SqsInv, WebsocketInv
  <1> QED
    BY Invariance, <1>1, PTL

(* The SQS generator deletes only what it has sent, however often a message *)
(* is delivered, a delete fails, or the instance crashes.                   *)
THEOREM DeletesWhatItSent == Spec => []DeletedWasSent
  <1>1. IInv => DeletedWasSent
    BY DEF IInv, SqsInv
  <1> QED
    BY Invariance, <1>1, PTL

(* Between two starts the SQS generator sends a message again only after it *)
(* put at least SeenSize others in its cache, however many messages there   *)
(* are and however the queue service delivers them.                         *)
THEOREM SentAgainLate == Spec => []SentAgainOnlyWhenForgotten
  <1>1. IInv => SentAgainOnlyWhenForgotten
    BY DEF IInv, SqsInv, CacheInv, SentAgainOnlyWhenForgotten
  <1> QED
    BY Invariance, <1>1, PTL

(* No interval job waits longer than the task is late, at its three         *)
(* chances, after the second it is due.                                     *)
THEOREM JobsOnTime == Spec => []OnTime
  <1>1. IInv => OnTime
    <2> SUFFICES ASSUME IInv, itask \in {"asleep", "running"}, NEW j \in Jobs
                 PROVE  /\ j \in Heap => due[j] >= -3 * MaxLate
                        /\ j \in Jobs \ Once => age[j] <= LongestAge(j)
      BY DEF OnTime
    <2>1. /\ MaxLate \in Nat /\ Cycle \in Nat /\ Period[j] \in Nat /\ age[j] \in Nat
      BY IntervalAssumption DEF IInv, IntervalInv
    <2>2. j \in Heap => due[j] \in -3 * MaxLate .. Cycle
      BY DEF IInv, IntervalInv, Lateness
    <2>3. j \in Jobs \ Once => j \in Heap /\ age[j] + due[j] <= Period[j]
      BY DEF IInv, IntervalInv, Recurring
    <2> QED
      BY <2>1, <2>2, <2>3 DEF LongestAge
  <1> QED
    BY Invariance, <1>1, PTL

=============================================================================
