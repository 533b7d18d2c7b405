--------------------------- MODULE DataGenerator ---------------------------
(***************************************************************************)
(* A polling data generator (GitHub, Okta): it asks a remote audit log for *)
(* overlapping windows, drops what it has already seen, sends the rest to  *)
(* the executor, and keeps its position and the identifiers it has seen in *)
(* the database, from which the next start of the instance resumes.        *)
(*                                                                         *)
(* Time is in whole seconds since the first start.  The remote source is   *)
(* external: it shows a log some time after it happened, at most canon_time*)
(* (and the second get_time truncates) later, answers in ascending order   *)
(* as the queries ask, and may treat either bound of a window as inside or *)
(* outside.                                                                *)
(***************************************************************************)
EXTENDS Integers, FiniteSets, SequencesExt

CONSTANTS
    Logs,          \* the logs of the remote source
    CanonTime,     \* canon_time
    Window,        \* max_since_until
    MaxCatchup,    \* max_catchup
    LruSizes,      \* lru_cache_size: the configurations
    StorageFails,  \* whether the provider may return errors
    MaxGap,        \* bound: the longest time the source is silent
    Horizon,       \* bound: the last second in which a log happens
    MaxCrashes,    \* bound: crashes in a behaviour
    None

ASSUME GeneratorAssumption ==
    /\ IsFiniteSet(Logs)
    /\ CanonTime \in Nat \ {0}
    /\ Window \in Nat
    /\ MaxCatchup \in Nat
    /\ LruSizes \subseteq Nat \ {0}
    /\ StorageFails \in BOOLEAN
    /\ MaxGap \in Nat
    /\ Horizon \in Nat
    /\ MaxCrashes \in Nat
    /\ None \notin Int \cup Seq(Logs)

VARIABLES
    lruSize,     \* lru_cache_size, chosen at the start
    now,         \* the clock
    ts,          \* [Logs -> ...], when each log happened, or None
    visible,     \* the logs the source's API returns
    pc,          \* where get_and_process_dg_logs is; "down": no process
    lastSeen,    \* last_seen
    seen,        \* seen_logs_uuid, most recently used first
    until,       \* the end of the window being fetched, else None
    batch,       \* fetched logs not looked at yet
    sentSome,    \* whether sent_for_processing is positive
    storedLast,  \* LAST_SEEN_KEY in the database, or None
    storedSeen,  \* ALREADY_SEEN_UUIDS_KEY in the database, or None
    crashes      \* how often the instance crashed

(* History variables *)
VARIABLES
    from,   \* the generator owes every log from this second on
    sends,  \* [Logs -> Nat], how often each was sent
    forgot  \* [Logs -> Nat], restarts that left it Exposed

source == <<lruSize, now, ts, visible>>
stored == <<storedLast, storedSeen>>
hist == <<from, sends, forgot>>
vars == <<source, pc, lastSeen, seen, until, batch, sentSome, stored, crashes, hist>>

LastSecond == Horizon + CanonTime + 2

TypeOK ==
    /\ lruSize \in LruSizes
    /\ now \in 0..LastSecond
    /\ ts \in [Logs -> 0..Horizon \cup {None}]
    /\ visible \subseteq Logs
    /\ pc \in {"idle", "fetch", "work", "saveLast", "saveSeen", "down"}
    /\ lastSeen \in 0..LastSecond
    /\ seen \in Seq(Logs) /\ Len(seen) <= lruSize /\ IsInjective(seen)
    /\ until \in 0..LastSecond \cup {None}
    /\ batch \subseteq visible
    /\ sentSome \in BOOLEAN
    /\ storedLast \in 0..LastSecond \cup {None}
    /\ storedSeen = None \/ storedSeen \in Seq(Logs)
    /\ crashes \in 0..MaxCrashes
    /\ from \in 0..LastSecond
    /\ sends \in [Logs -> Nat]
    /\ forgot \in [Logs -> 0..MaxCrashes]

(* The first start: nothing is stored, last_seen is the current time. *)
Init ==
    /\ lruSize \in LruSizes
    /\ now = 0
    /\ ts = [l \in Logs |-> None]
    /\ visible = {}
    /\ pc = "idle"
    /\ lastSeen = now
    /\ seen = <<>>
    /\ until = None
    /\ batch = {}
    /\ sentSome = FALSE
    /\ storedLast = None
    /\ storedSeen = None
    /\ crashes = 0
    /\ from = now
    /\ sends = [l \in Logs |-> 0]
    /\ forgot = [l \in Logs |-> 0]

-----------------------------------------------------------------------------
(* The remote source and the clock. *)

Happened == {l \in Logs : ts[l] # None}

(* The cache has room for what happens in three consecutive seconds. *)
Room == Cardinality({k \in Happened : ts[k] >= now - 2}) < lruSize

Emit(l) ==
    /\ ts[l] = None
    /\ now <= Horizon
    /\ Room
    /\ ts' = [ts EXCEPT ![l] = now]
    /\ UNCHANGED <<lruSize, now, visible, pc, lastSeen, seen, until, batch, sentSome,
                   stored, crashes, hist>>

Appear(l) ==
    /\ l \in Happened \ visible
    /\ visible' = visible \cup {l}
    /\ UNCHANGED <<lruSize, now, ts, pc, lastSeen, seen, until, batch, sentSome,
                   stored, crashes, hist>>

(* The source is silent for at most MaxGap seconds while it has logs to    *)
(* give, and what happened is visible once it is canonical.                *)
Tick ==
    /\ now < LastSecond
    /\ \A l \in Happened \ visible : now < ts[l] + CanonTime
    /\ \/ Happened = Logs \/ now > Horizon
       \/ ~Room \/ now < MaxGap
       \/ \E l \in Happened : now < ts[l] + MaxGap
    /\ now' = now + 1
    /\ UNCHANGED <<lruSize, ts, visible, pc, lastSeen, seen, until, batch, sentSome,
                   stored, crashes, hist>>

-----------------------------------------------------------------------------
(* The seen_logs_uuid cache. *)

(* mutant: contains never finds anything *)
NeverSeen(l) == FALSE

WasAlreadySeen(l) == l \in ToSet(seen)

(* mutant: the cache grows without limit *)
PutUnbounded(s, l) == <<l>> \o s

(* LruCache::put *)
Put(s, l) ==
    LET moved == <<l>> \o RemoveFirst(s, l)
    IN SubSeq(moved, 1, IF Len(moved) < lruSize THEN Len(moved) ELSE lruSize)

-----------------------------------------------------------------------------
(* One iteration of get_and_process_dg_logs. *)

Since == lastSeen - 1

(* mutant: the window ends where the last one did *)
UntilLastSeen == IF now - CanonTime < lastSeen THEN now - CanonTime ELSE lastSeen

Until == IF now - CanonTime < Since + Window THEN now - CanonTime ELSE Since + Window

(* The window is computed; before last_seen is canonical there is none. *)
Query ==
    /\ pc = "idle"
    /\ IF Until < lastSeen
         THEN UNCHANGED <<pc, until>>
         ELSE pc' = "fetch" /\ until' = Until
    /\ UNCHANGED <<source, lastSeen, seen, batch, sentSome, stored, crashes, hist>>

(* What the source may answer for Since..until *)
Answers ==
    LET inside == {l \in visible : Since < ts[l] /\ ts[l] < until}
        edge == {l \in visible : ts[l] \in {Since, until}}
    IN {inside \cup e : e \in SUBSET edge}

(* fetch_logs; without logs the iteration ends *)
Fetch ==
    /\ pc = "fetch"
    /\ batch' \in Answers
    /\ pc' = IF batch' = {} THEN "idle" ELSE "work"
    /\ until' = None
    /\ UNCHANGED <<source, lastSeen, seen, sentSome, stored, crashes, hist>>

FetchError ==
    /\ pc = "fetch"
    /\ pc' = "idle"
    /\ until' = None
    /\ UNCHANGED <<source, lastSeen, seen, batch, sentSome, stored, crashes, hist>>

Advanced(l) == IF ts[l] > lastSeen THEN ts[l] ELSE lastSeen

(* The next log: dropped when already seen, else sent and marked. *)
Process(l) ==
    /\ pc = "work"
    /\ l \in batch
    /\ \A k \in batch : ts[l] <= ts[k]
    /\ batch' = batch \ {l}
    /\ IF WasAlreadySeen(l)
         THEN UNCHANGED <<sends, sentSome, seen, lastSeen>>
         ELSE /\ sends' = [sends EXCEPT ![l] = @ + 1]
              /\ sentSome' = TRUE
              /\ seen' = Put(seen, l)
              /\ lastSeen' = Advanced(l)
    /\ UNCHANGED <<source, pc, until, stored, crashes, from, forgot>>

(* Without a new log the state is not stored. *)
BatchEnd ==
    /\ pc = "work"
    /\ batch = {}
    /\ pc' = IF sentSome THEN "saveLast" ELSE "idle"
    /\ sentSome' = FALSE
    /\ UNCHANGED <<source, lastSeen, seen, until, batch, stored, crashes, hist>>

(* mutant: the position stored is the time of the poll *)
PositionNow == now

Position == lastSeen

(* A failed insert of either key is only logged. *)
SaveLast ==
    /\ pc = "saveLast"
    /\ pc' = "saveSeen"
    /\ \/ storedLast' = Position
       \/ StorageFails /\ UNCHANGED storedLast
    /\ UNCHANGED <<source, lastSeen, seen, until, batch, sentSome, storedSeen,
                   crashes, hist>>

SaveSeen ==
    /\ pc = "saveSeen"
    /\ pc' = "idle"
    /\ \/ storedSeen' = seen
       \/ StorageFails /\ UNCHANGED storedSeen
    /\ UNCHANGED <<source, lastSeen, seen, until, batch, sentSome, storedLast,
                   crashes, hist>>

-----------------------------------------------------------------------------
(* Restarts *)

(* The stored list, which was written most recently used first, is put     *)
(* back in the order it has.                                               *)
PutBack(list) ==
    LET put[i \in 0..Len(list)] == IF i = 0 THEN <<>> ELSE Put(put[i - 1], list[i])
    IN put[Len(list)]

(* The log that is i-th on the list cannot be pushed out of the cache      *)
(* before the windows of a life that starts at `last` are past it: what is *)
(* listed after it, and will be in front of it, happened within a second   *)
(* of it, and nothing will be fetched that happened more than one earlier. *)
HeldBack(list, i, last) ==
    /\ \A j \in i + 1..Len(list) : ts[list[j]] \in ts[list[i]] - 1..ts[list[i]] + 1
    /\ \A k \in Happened : ts[k] < last - 1 \/ ts[k] >= ts[list[i]] - 1

(* The sent logs that a life which starts at `last` with this list will    *)
(* fetch again without being sure to recognise them.                       *)
Exposed(list, last) ==
    {l \in Happened :
        /\ sends[l] > 0
        /\ ts[l] >= last - 1
        /\ \A i \in DOMAIN list : list[i] = l => ~HeldBack(list, i, last)}

(* The process ends wherever it is; only the database survives. *)
Crash ==
    /\ pc # "down"
    /\ crashes < MaxCrashes
    /\ crashes' = crashes + 1
    /\ pc' = "down"
    /\ batch' = {}
    /\ seen' = <<>>
    /\ until' = None
    /\ sentSome' = FALSE
    /\ lastSeen' = now
    /\ UNCHANGED <<source, stored, hist>>

Forget(list, last) ==
    forgot' = [l \in Logs |-> IF l \in Exposed(list, last) THEN forgot[l] + 1 ELSE forgot[l]]

(* Both keys were read; the look-back is capped. *)
Resume ==
    /\ pc = "down"
    /\ storedLast # None /\ storedSeen # None
    /\ lastSeen' = IF now - storedLast > MaxCatchup THEN now - MaxCatchup ELSE storedLast
    /\ seen' = PutBack(storedSeen)
    /\ from' = IF now - storedLast > MaxCatchup /\ from < lastSeen' THEN lastSeen' ELSE from
    /\ Forget(storedSeen, lastSeen')
    /\ pc' = "idle"
    /\ UNCHANGED <<source, until, batch, sentSome, stored, crashes, sends>>

(* A key is missing, or could not be read: as on the first start. *)
StartAfresh ==
    /\ pc = "down"
    /\ storedLast = None \/ storedSeen = None \/ StorageFails
    /\ lastSeen' = now
    /\ from' = now
    /\ Forget(<<>>, now)
    /\ pc' = "idle"
    /\ UNCHANGED <<source, seen, until, batch, sentSome, stored, crashes, sends>>

-----------------------------------------------------------------------------
Next ==
    \/ \E l \in Logs : Emit(l) \/ Appear(l) \/ Process(l)
    \/ Tick
    \/ Query \/ Fetch \/ FetchError \/ BatchEnd
    \/ SaveLast \/ SaveSeen
    \/ Crash \/ Resume \/ StartAfresh

Proceed ==
    \/ Query \/ BatchEnd \/ SaveLast \/ SaveSeen \/ Resume \/ StartAfresh
    \/ \E l \in Logs : Process(l)

(* The task is polled, a send finds room because the executor keeps taking *)
(* messages, an instance that is down is started again, the clock goes on, *)
(* logs happen and become visible; a fetch that is tried again and again   *)
(* succeeds again and again.                                               *)
Fairness ==
    /\ WF_vars(Tick)
    /\ WF_vars(\E l \in Logs : Emit(l))
    /\ WF_vars(\E l \in Logs : Appear(l))
    /\ WF_vars(Proceed)
    /\ SF_vars(Fetch)

Spec == Init /\ [][Next]_vars

FairSpec == Spec /\ Fairness

-----------------------------------------------------------------------------
(* Properties *)

(* The position never passes a log that was not sent: once last_seen is a  *)
(* second beyond a log the generator owes, no later window includes that   *)
(* log, so it must have been sent, whatever was shown late, crashed or     *)
(* failed in between.                                                      *)
NoLogSkipped ==
    pc # "down" =>
    \A l \in Happened : from <= ts[l] /\ ts[l] < lastSeen => sends[l] > 0

(* The overlapping windows do not send a log twice, in spite of the limit  *)
(* of the cache: it is sent again only after a restart that left it        *)
(* exposed, once for each.                                                 *)
SentOnce == \A l \in Logs : sends[l] <= 1 + forgot[l]

Owed == {l \in Happened : from <= ts[l] /\ sends[l] = 0}

(* A restart found a list ahead of the position: what is on it will not    *)
(* move the position.                                                      *)
ListAhead == \E l \in ToSet(seen) : ts[l] > lastSeen

(* Every log from the starting point on is eventually sent, unless a       *)
(* restart moves the starting point behind it (max_catchup, lost state) or *)
(* the position stays behind the list.                                     *)
CatchesUp == <>[](Owed = {} \/ ListAhead)

(* get_max_catchup_time: the logs an instance with stored state owes while *)
(* it is down are caught up after the outage, unless it was longer than    *)
(* max_catchup.                                                            *)
CatchesUpAfterOutage ==
    \A l \in Logs :
        (pc = "down" /\ storedSeen # None /\ l \in Owed) ~> l \notin Owed
=============================================================================
