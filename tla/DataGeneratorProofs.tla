------------------------ MODULE DataGeneratorProofs ------------------------
(***************************************************************************)
(* Proofs about DataGenerator, for any number of logs and crashes, every   *)
(* size of the cache and all the times of a configuration: type            *)
(* correctness, no log is skipped, and a log is sent again only after a    *)
(* restart that left it exposed.                                           *)
(***************************************************************************)
EXTENDS DataGenerator, SequenceTheorems, FiniteSetTheorems, WellFoundedInduction, TLAPS

(* No position is ahead of the clock, and what is not visible yet happened *)
(* at most canon_time ago.                                                 *)
Times ==
    /\ lastSeen <= now
    /\ from <= now
    /\ storedLast # None => storedLast <= now
    /\ \A l \in Happened : ts[l] <= now
    /\ \A l \in Happened \ visible : now <= ts[l] + CanonTime

(* A window that is fetched is canonical; logs wait only in the work loop; *)
(* what is stored fits the cache; a restart forgets a log at most once.    *)
Control ==
    /\ visible \subseteq Happened
    /\ pc # "work" => batch = {}
    /\ pc = "fetch" => until \in lastSeen..LastSecond /\ until + CanonTime <= now
    /\ storedSeen # None => Len(storedSeen) <= lruSize /\ IsInjective(storedSeen)
    /\ \A l \in Logs : forgot[l] <= crashes /\ (pc = "down" => forgot[l] < crashes)

(* Only logs that happened are sent, only sent logs are marked or stored. *)
MarkedWasSent ==
    /\ \A l \in Logs : sends[l] > 0 => l \in Happened
    /\ \A i \in DOMAIN seen : sends[seen[i]] > 0
    /\ storedSeen # None => \A i \in DOMAIN storedSeen : sends[storedSeen[i]] > 0

(* Neither the stored position nor the one a fetched log would move        *)
(* last_seen to is past a log that is not sent.                            *)
NothingBehind ==
    /\ storedLast # None =>
         \A l \in Happened : from <= ts[l] /\ ts[l] < storedLast => sends[l] > 0
    /\ \A b \in batch, k \in Happened :
         from <= ts[k] /\ ts[k] < ts[b] /\ sends[k] = 0 => k \in batch

(* The cache holds what happens in three consecutive seconds. *)
Capacity ==
    \A t \in 0..Horizon :
        Cardinality({k \in Happened : ts[k] \in t - 1..t + 1}) <= lruSize

(* What is fetched is not older than the windows to come. *)
BatchIsRecent == \A b \in batch : ts[b] >= lastSeen - 1

(* A log that must not be sent again and is within the windows to come is  *)
(* in the cache; whatever is in front of it happened within a second of    *)
(* it, and so will what is put in front of it.                             *)
Recognised ==
    pc # "down" =>
    \A l \in Happened : sends[l] > forgot[l] /\ ts[l] >= lastSeen - 1 =>
        /\ \E p \in DOMAIN seen :
             /\ seen[p] = l
             /\ \A q \in 1..p - 1 : ts[seen[q]] \in ts[l] - 1..ts[l] + 1
        /\ \A k \in Happened : ts[k] < lastSeen - 1 \/ ts[k] >= ts[l] - 1

IInv ==
    /\ TypeOK /\ Times /\ Control /\ MarkedWasSent /\ NothingBehind /\ NoLogSkipped
    /\ Capacity /\ BatchIsRecent /\ Recognised /\ SentOnce

-----------------------------------------------------------------------------
(* The cache *)

(* Putting a log that is not in the cache: it is in front, what was there  *)
(* moves back by one, and the last is dropped when there are too many.     *)
LEMMA PutNew ==
    ASSUME lruSize \in Nat \ {0}, NEW s \in Seq(Logs), Len(s) <= lruSize,
           NEW l \in Logs, l \notin ToSet(s)
    PROVE  /\ Put(s, l) \in Seq(Logs)
           /\ Len(Put(s, l)) = IF Len(s) < lruSize THEN Len(s) + 1 ELSE lruSize
           /\ \A i \in 1..Len(Put(s, l)) : Put(s, l)[i] = IF i = 1 THEN l ELSE s[i - 1]
  <1>1. RemoveFirst(s, l) = s
    BY DEF RemoveFirst, ToSet
  <1>2. PICK moved : moved = <<l>> \o s
    OBVIOUS
  <1>3. <<l>> \in Seq(Logs) /\ Len(<<l>>) = 1 /\ <<l>>[1] = l /\ Len(s) \in Nat
    BY LenProperties
  <1>4. /\ moved \in Seq(Logs)
        /\ Len(moved) = Len(s) + 1
        /\ \A i \in 1..Len(moved) : moved[i] = IF i = 1 THEN l ELSE s[i - 1]
    BY <1>2, <1>3, ConcatProperties
  <1>5. PICK n \in 1..Len(moved) : n = IF Len(moved) < lruSize THEN Len(moved) ELSE lruSize
    BY <1>3, <1>4
  <1>6. Put(s, l) = SubSeq(moved, 1, n)
    BY <1>1, <1>2, <1>5 DEF Put
  <1>7. /\ SubSeq(moved, 1, n) \in Seq(Logs)
        /\ Len(SubSeq(moved, 1, n)) = n
        /\ \A i \in 1..n : SubSeq(moved, 1, n)[i] = moved[i]
    BY <1>4, <1>5, SubSeqProperties
  <1> QED
    BY <1>3, <1>4, <1>5, <1>6, <1>7

(* A set of naturals that is not empty has a least element. *)
LEMMA LeastNat ==
    ASSUME NEW T \in SUBSET Nat, T # {}
    PROVE  \E t \in T : \A y \in T : ~(y < t)
  <1>1. PICK R : R = {ss \in Nat \X Nat : ss[1] < ss[2]}
    OBVIOUS
  <1>2. IsWellFoundedOn(R, Nat)
    BY <1>1, NatLessThanWellFounded DEF OpToRel
  <1>3. PICK t \in T : \A y \in T : ~(<<y, t>> \in R)
    BY <1>2, WFMin
  <1> QED
    BY <1>1, <1>3

(* The list is put back in reverse. *)
LEMMA PutBackReverses ==
    ASSUME lruSize \in Nat \ {0}, NEW list \in Seq(Logs), Len(list) <= lruSize, IsInjective(list)
    PROVE  PutBack(list) = Reverse(list)
  <1>1. PICK n \in Nat : n = Len(list)
    BY LenProperties
  <1>2. DOMAIN list = 1..n /\ \A i \in 1..n : list[i] \in Logs
    BY <1>1, LenProperties, ElementOfSeq
  <1> DEFINE prefix(i) == [j \in 1..i |-> list[(i - j) + 1]]
  <1>3. ASSUME NEW i \in 1..n
        PROVE  Put(prefix(i - 1), list[i]) = prefix(i)
    <2>1. PICK s : s = prefix(i - 1)
      OBVIOUS
    <2>2. s \in Seq(Logs) /\ Len(s) = i - 1 /\ DOMAIN s = 1..i - 1
      <3>1. s \in [1..i - 1 -> Logs]
        BY <1>2, <2>1
      <3> QED
        BY <3>1
    <2>3. \A j \in 1..i - 1 : s[j] = list[i - j]
      BY <2>1
    <2>4. list[i] \notin ToSet(s)
      <3> SUFFICES ASSUME NEW j \in 1..i - 1, list[i] = s[j] PROVE FALSE
        BY <2>2 DEF ToSet
      <3>1. list[i] = list[i - j] /\ i - j \in DOMAIN list /\ i \in DOMAIN list
        BY <1>2, <2>3
      <3> QED
        BY <3>1 DEF IsInjective
    <2>5. PICK p : p = Put(s, list[i])
      OBVIOUS
    <2>6. /\ p \in Seq(Logs)
          /\ Len(p) = i
          /\ \A j \in 1..i : p[j] = IF j = 1 THEN list[i] ELSE s[j - 1]
      BY <1>1, <1>2, <2>2, <2>4, <2>5, PutNew
    <2>7. ASSUME NEW j \in 1..i
          PROVE  p[j] = list[(i - j) + 1]
      <3>1. CASE j = 1
        <4>1. (i - j) + 1 = i
          BY <3>1
        <4> QED
          BY <2>6, <3>1, <4>1
      <3>2. CASE j # 1
        <4>1. j - 1 \in 1..i - 1 /\ i - (j - 1) = (i - j) + 1
          BY <3>2
        <4>2. s[j - 1] = list[(i - j) + 1]
          BY <2>3, <4>1
        <4> QED
          BY <2>6, <3>2, <4>2
      <3> QED
        BY <3>1, <3>2
    <2>8. p = [j \in 1..i |-> p[j]]
      BY <2>6
    <2> QED
      BY <2>1, <2>5, <2>7, <2>8
  <1> DEFINE body(f) == [i \in 0..n |-> IF i = 0 THEN <<>> ELSE Put(f[i - 1], list[i])]
             full == [i \in 0..n |-> prefix(i)]
             put == CHOOSE f : f = body(f)
  <1>4. full = body(full)
    <2>1. prefix(0) = <<>>
      OBVIOUS
    <2> HIDE DEF prefix
    <2>2. \A i \in 0..n : full[i] = prefix(i)
      OBVIOUS
    <2> SUFFICES ASSUME NEW i \in 0..n
                 PROVE  prefix(i) = IF i = 0 THEN <<>> ELSE Put(full[i - 1], list[i])
      OBVIOUS
    <2>3. CASE i = 0
      BY <2>1, <2>3
    <2>4. CASE i # 0
      <3>1. i \in 1..n /\ i - 1 \in 0..n
        BY <2>4
      <3> QED
        BY <1>3, <2>2, <2>4, <3>1
    <2> QED
      BY <2>3, <2>4
  <1>5. put = body(put)
    BY <1>4
  <1> HIDE DEF put, prefix
  <1>6. ASSUME NEW i \in 0..n
        PROVE  put[i] = prefix(i)
    <2> SUFFICES ASSUME put[i] # prefix(i) PROVE FALSE
      OBVIOUS
    <2>1. PICK T : T = {k \in 0..n : put[k] # prefix(k)}
      OBVIOUS
    <2>2. PICK t \in T : \A y \in T : ~(y < t)
      <3>1. T \in SUBSET Nat /\ T # {}
        BY <2>1
      <3> QED
        BY <3>1, LeastNat
    <2>3. CASE t = 0
      BY <1>5, <2>1, <2>2, <2>3 DEF prefix
    <2>4. CASE t # 0
      <3>1. t - 1 \in 0..n /\ t \in 1..n /\ t - 1 \notin T
        BY <2>1, <2>2, <2>4
      <3>2. put[t - 1] = prefix(t - 1)
        BY <2>1, <3>1
      <3>3. put[t] = Put(put[t - 1], list[t])
        BY <1>5, <3>1
      <3> QED
        BY <1>3, <2>1, <2>2, <3>1, <3>2, <3>3
    <2> QED
      BY <2>3, <2>4
  <1>7. PutBack(list) = put[n]
    BY <1>1 DEF PutBack, put
  <1> QED
    BY <1>1, <1>6, <1>7 DEF Reverse, prefix

-----------------------------------------------------------------------------
(* Facts about every state and every step *)

LEMMA TimesAreNumbers ==
    ASSUME TypeOK
    PROVE  /\ None \notin Int
           /\ \A l \in Happened : l \in Logs /\ ts[l] \in 0..Horizon /\ ts[l] # None
           /\ \A l \in Logs : ts[l] # None => l \in Happened
           /\ Horizon \in Nat /\ CanonTime \in Nat \ {0} /\ MaxCatchup \in Nat /\ Window \in Nat
           /\ LastSecond = Horizon + CanonTime + 2 /\ LastSecond \in Nat
           /\ now \in Nat /\ lastSeen \in Nat /\ from \in Nat
           /\ storedLast # None => storedLast \in Nat
           /\ lruSize \in Nat \ {0}
           /\ \A l \in Logs : sends[l] \in Nat /\ forgot[l] \in Nat
  BY GeneratorAssumption DEF TypeOK, Happened, LastSecond

LEMMA SeenType ==
    ASSUME TypeOK
    PROVE  /\ DOMAIN seen = 1..Len(seen) /\ Len(seen) \in Nat
           /\ \A i \in DOMAIN seen : seen[i] \in Logs
           /\ ToSet(seen) = {seen[i] : i \in DOMAIN seen}
  BY LenProperties, ElementOfSeq DEF TypeOK, ToSet

LEMMA StoredSeenType ==
    ASSUME TypeOK, storedSeen # None
    PROVE  /\ storedSeen \in Seq(Logs)
           /\ DOMAIN storedSeen = 1..Len(storedSeen) /\ Len(storedSeen) \in Nat
           /\ \A i \in DOMAIN storedSeen : storedSeen[i] \in Logs
  BY LenProperties, ElementOfSeq DEF TypeOK

(* What Put does to the cache when a log is processed. *)
LEMMA SeenAfterPut ==
    ASSUME TypeOK, NEW l \in Logs, l \notin ToSet(seen), seen' = Put(seen, l)
    PROVE  /\ seen' \in Seq(Logs) /\ IsInjective(seen')
           /\ Len(seen') \in Nat /\ Len(seen') <= lruSize /\ DOMAIN seen' = 1..Len(seen')
           /\ Len(seen') = IF Len(seen) < lruSize THEN Len(seen) + 1 ELSE lruSize
           /\ \A i \in DOMAIN seen' : seen'[i] = IF i = 1 THEN l ELSE seen[i - 1]
  <1>1. seen \in Seq(Logs) /\ Len(seen) <= lruSize /\ lruSize \in Nat \ {0} /\ Len(seen) \in Nat
    BY TimesAreNumbers, SeenType DEF TypeOK
  <1>2. /\ seen' \in Seq(Logs)
        /\ Len(seen') = IF Len(seen) < lruSize THEN Len(seen) + 1 ELSE lruSize
        /\ \A i \in 1..Len(seen') : seen'[i] = IF i = 1 THEN l ELSE seen[i - 1]
    BY <1>1, PutNew
  <1>3. DOMAIN seen' = 1..Len(seen') /\ Len(seen') \in Nat /\ Len(seen') <= lruSize
    BY <1>1, <1>2, LenProperties
  <1>4. ASSUME NEW i \in 1..Len(seen'), NEW j \in 1..Len(seen'), seen'[i] = seen'[j]
        PROVE  i = j
    <2>1. \A k \in 1..Len(seen') : k # 1 => k - 1 \in DOMAIN seen /\ seen[k - 1] # l
      BY <1>1, <1>2, SeenType
    <2>2. CASE i = 1 \/ j = 1
      BY <1>2, <1>4, <2>1, <2>2
    <2>3. CASE i # 1 /\ j # 1
      <3>1. i - 1 \in DOMAIN seen /\ j - 1 \in DOMAIN seen /\ seen[i - 1] = seen[j - 1]
        BY <1>2, <1>4, <2>1, <2>3
      <3>2. i - 1 = j - 1
        BY <3>1 DEF TypeOK, IsInjective
      <3> QED
        BY <3>2
    <2> QED
      BY <2>2, <2>3
  <1> QED
    BY <1>2, <1>3, <1>4 DEF IsInjective

(* The cache after a restart that read the state is the list in reverse. *)
LEMMA SeenAfterResume ==
    ASSUME TypeOK, Control, Resume
    PROVE  /\ seen' \in Seq(Logs) /\ IsInjective(seen')
           /\ Len(seen') = Len(storedSeen) /\ Len(seen') <= lruSize /\ Len(seen') \in Nat
           /\ DOMAIN seen' = 1..Len(seen')
           /\ \A i \in DOMAIN seen' :
                seen'[i] = storedSeen[(Len(storedSeen) - i) + 1]
                /\ (Len(storedSeen) - i) + 1 \in DOMAIN storedSeen
  <1>1. storedSeen # None /\ seen' = PutBack(storedSeen)
    BY DEF Resume
  <1>2. PICK n \in Nat : n = Len(storedSeen)
    BY <1>1, StoredSeenType
  <1>3. /\ storedSeen \in Seq(Logs) /\ DOMAIN storedSeen = 1..n
        /\ n <= lruSize /\ IsInjective(storedSeen) /\ lruSize \in Nat \ {0}
        /\ \A i \in 1..n : storedSeen[i] \in Logs
    BY <1>1, <1>2, StoredSeenType, TimesAreNumbers DEF Control
  <1>4. seen' = [i \in 1..n |-> storedSeen[(n - i) + 1]]
    BY <1>1, <1>2, <1>3, PutBackReverses DEF Reverse
  <1>5. \A i \in 1..n : (n - i) + 1 \in 1..n
    OBVIOUS
  <1>6. seen' \in [1..n -> Logs]
    BY <1>3, <1>4, <1>5
  <1>7. seen' \in Seq(Logs) /\ Len(seen') = n /\ DOMAIN seen' = 1..n
    BY <1>6
  <1>8. ASSUME NEW i \in 1..n, NEW j \in 1..n, seen'[i] = seen'[j]
        PROVE  i = j
    <2>1. storedSeen[(n - i) + 1] = storedSeen[(n - j) + 1]
      BY <1>4, <1>8
    <2>2. (n - i) + 1 = (n - j) + 1
      BY <1>3, <1>5, <2>1 DEF IsInjective
    <2> QED
      BY <2>2
  <1> QED
    BY <1>2, <1>3, <1>4, <1>5, <1>7, <1>8 DEF IsInjective

-----------------------------------------------------------------------------
(* Type correctness *)

LEMMA InitImpliesIInv == Init => IInv
  <1> SUFFICES ASSUME Init PROVE IInv
    OBVIOUS
  <1>1. GeneratorAssumption /\ LruSizes \subseteq Nat
    BY GeneratorAssumption
  <1>2. Happened = {} /\ <<>> \in Seq(Logs) /\ Len(<<>>) = 0 /\ DOMAIN (<<>>) = {}
    BY DEF Init, Happened
  <1>3. TypeOK
    <2>1. Horizon \in Nat /\ CanonTime \in Nat /\ MaxCrashes \in Nat /\ lruSize \in Nat
      BY <1>1, GeneratorAssumption DEF Init
    <2>2. 0 \in 0..LastSecond /\ 0 \in 0..MaxCrashes
      BY <2>1 DEF LastSecond
    <2>3. seen \in Seq(Logs) /\ Len(seen) <= lruSize /\ IsInjective(seen)
      BY <1>2, <2>1 DEF Init, IsInjective
    <2>4. /\ ts \in [Logs -> 0..Horizon \cup {None}]
          /\ sends \in [Logs -> Nat] /\ forgot \in [Logs -> 0..MaxCrashes]
      BY <2>2 DEF Init
    <2> QED
      BY <2>2, <2>3, <2>4 DEF Init, TypeOK
  <1>4. Times /\ Control /\ NothingBehind /\ NoLogSkipped /\ BatchIsRecent /\ Recognised
    BY <1>2, GeneratorAssumption DEF Init, Times, Control, NothingBehind, NoLogSkipped,
       BatchIsRecent, Recognised
  <1>5. MarkedWasSent /\ SentOnce
    BY <1>2, <1>3 DEF Init, MarkedWasSent, SentOnce
  <1>6. Capacity
    <2>1. Cardinality({}) = 0 /\ lruSize \in Nat
      BY <1>1, FS_EmptySet DEF Init
    <2> SUFFICES ASSUME NEW t \in 0..Horizon
                 PROVE  Cardinality({k \in Happened : ts[k] \in t - 1..t + 1}) <= lruSize
      BY DEF Capacity
    <2>2. {k \in Happened : ts[k] \in t - 1..t + 1} = {}
      BY <1>2
    <2>3. Cardinality({k \in Happened : ts[k] \in t - 1..t + 1}) = 0
      BY <2>1, <2>2, Zenon
    <2> QED
      BY <2>1, <2>3
  <1> QED
    BY <1>3, <1>4, <1>5, <1>6 DEF IInv

LEMMA TypeInductive ==
    ASSUME TypeOK, Times, Control, Next
    PROVE  TypeOK'
  <1>0. /\ \A l \in Happened : ts[l] \in 0..Horizon
        /\ Horizon \in Nat /\ CanonTime \in Nat /\ MaxCatchup \in Nat /\ Window \in Nat
        /\ LastSecond = Horizon + CanonTime + 2
        /\ now \in Nat /\ lastSeen \in Nat /\ from \in Nat /\ now <= LastSecond
        /\ storedLast # None => storedLast \in Nat
    BY TimesAreNumbers DEF TypeOK
  <1> USE <1>0
  <1>1. ASSUME NEW l \in Logs, Emit(l)
        PROVE  TypeOK'
    <2>1. now \in 0..Horizon
      BY <1>1 DEF Emit
    <2> QED
      BY <1>1, <2>1 DEF Emit, TypeOK, stored, hist
  <1>2. ASSUME NEW l \in Logs, Appear(l)
        PROVE  TypeOK'
    BY <1>2 DEF Appear, TypeOK, stored, hist
  <1>3. ASSUME NEW l \in Logs, Process(l)
        PROVE  TypeOK'
    <2>1. batch' \subseteq visible /\ l \in Happened
      BY <1>3 DEF Process, TypeOK, Control
    <2>2. CASE WasAlreadySeen(l)
      BY <1>3, <2>1, <2>2 DEF Process, TypeOK, source, stored
    <2>3. CASE ~WasAlreadySeen(l)
      <3>1. seen' \in Seq(Logs) /\ Len(seen') <= lruSize /\ IsInjective(seen')
        BY <1>3, <2>3, SeenAfterPut DEF Process, WasAlreadySeen
      <3>2. lastSeen' \in 0..LastSecond
        <4>1. lastSeen \in 0..LastSecond /\ ts[l] \in 0..LastSecond
          BY <2>1 DEF TypeOK
        <4>2. lastSeen' \in {lastSeen, ts[l]}
          BY <1>3, <2>3 DEF Process, Advanced
        <4> QED
          BY <4>1, <4>2
      <3>3. sends' \in [Logs -> Nat]
        <4>1. sends' = [sends EXCEPT ![l] = @ + 1] /\ sends \in [Logs -> Nat]
          BY <1>3, <2>3 DEF Process, TypeOK
        <4> QED
          BY <4>1
      <3>4. /\ UNCHANGED <<lruSize, now, ts, visible, pc, until, storedLast, storedSeen, crashes, from, forgot>>
            /\ sentSome' = TRUE
        BY <1>3, <2>3 DEF Process, source, stored
      <3> QED
        BY <2>1, <3>1, <3>2, <3>3, <3>4 DEF TypeOK
    <2> QED
      BY <2>2, <2>3
  <1>4. CASE Tick
    <2>1. now' \in 0..LastSecond
      BY <1>4 DEF Tick
    <2> QED
      BY <1>4, <2>1 DEF Tick, TypeOK, stored, hist
  <1>5. CASE Query
    <2>1. CASE Until < lastSeen
      BY <1>5, <2>1 DEF Query, TypeOK, source, stored, hist
    <2>2. CASE ~(Until < lastSeen)
      <3>1. Until \in Int /\ Until <= now - CanonTime
        BY DEF Until, Since
      <3>2. Until \in 0..LastSecond
        BY <2>2, <3>1 DEF TypeOK
      <3> QED
        BY <1>5, <2>2, <3>2 DEF Query, TypeOK, source, stored, hist
    <2> QED
      BY <2>1, <2>2
  <1>6. CASE Fetch
    <2>1. batch' \subseteq visible
      BY <1>6 DEF Fetch, Answers
    <2> QED
      BY <1>6, <2>1 DEF Fetch, TypeOK, source, stored, hist
  <1>7. CASE FetchError
    BY <1>7 DEF FetchError, TypeOK, source, stored, hist
  <1>8. CASE BatchEnd
    BY <1>8 DEF BatchEnd, TypeOK, source, stored, hist
  <1>9. CASE SaveLast
    BY <1>9 DEF SaveLast, Position, TypeOK, source, hist
  <1>10. CASE SaveSeen
    BY <1>10 DEF SaveSeen, TypeOK, source, hist
  <1>11. CASE Crash
    <2>1. <<>> \in Seq(Logs) /\ Len(<<>>) = 0 /\ IsInjective(<<>>)
      BY DEF IsInjective
    <2>2. crashes' \in 0..MaxCrashes
      BY <1>11, GeneratorAssumption DEF Crash, TypeOK
    <2>3. seen' \in Seq(Logs) /\ Len(seen') <= lruSize /\ IsInjective(seen')
      BY <1>11, <2>1, TimesAreNumbers DEF Crash
    <2>4. lastSeen' \in 0..LastSecond
      BY <1>11 DEF Crash, TypeOK
    <2> QED
      BY <1>11, <2>2, <2>3, <2>4 DEF Crash, TypeOK, source, stored, hist
  <1>12. ASSUME NEW list, NEW last, Forget(list, last), pc = "down"
         PROVE  forgot' \in [Logs -> 0..MaxCrashes]
    <2>1. \A l \in Logs : forgot[l] + 1 \in 0..MaxCrashes
      BY <1>12, GeneratorAssumption DEF Control, TypeOK
    <2> QED
      BY <1>12, <2>1 DEF Forget, TypeOK
  <1>13. CASE Resume
    <2>1. seen' \in Seq(Logs) /\ Len(seen') <= lruSize /\ IsInjective(seen')
      BY <1>13, SeenAfterResume
    <2>2. storedLast \in 0..now
      BY <1>13 DEF Resume, TypeOK, Times
    <2>3. lastSeen' \in 0..LastSecond
      BY <1>13, <2>2 DEF Resume
    <2>4. from' \in 0..LastSecond
      BY <1>13, <2>3 DEF Resume, TypeOK
    <2>5. forgot' \in [Logs -> 0..MaxCrashes]
      BY <1>12, <1>13 DEF Resume
    <2> QED
      BY <1>13, <2>1, <2>3, <2>4, <2>5 DEF Resume, TypeOK, source, stored
  <1>14. CASE StartAfresh
    <2>1. forgot' \in [Logs -> 0..MaxCrashes]
      BY <1>12, <1>14 DEF StartAfresh
    <2> QED
      BY <1>14, <2>1 DEF StartAfresh, TypeOK, source, stored
  <1> QED
    BY <1>1, <1>2, <1>3, <1>4, <1>5, <1>6, <1>7, <1>8, <1>9, <1>10, <1>11, <1>13, <1>14 DEF Next

-----------------------------------------------------------------------------
(* What the actions do to the logs *)

(* Polling the task without looking at a log. *)
Poll == Query \/ FetchError \/ BatchEnd \/ SaveLast \/ SaveSeen

LEMMA PollKeeps ==
    ASSUME TypeOK, Poll
    PROVE  /\ UNCHANGED <<lruSize, now, ts, visible, lastSeen, seen, batch, crashes, from, sends, forgot>>
           /\ Happened' = Happened
           /\ pc # "down" /\ pc' # "down" /\ pc' # "work"
           /\ pc # "work" \/ batch = {}
           /\ storedLast' \in {storedLast, lastSeen}
           /\ storedSeen' \in {storedSeen, seen}
           /\ pc' = "fetch" => pc = "fetch" \/ (until' = Until /\ Until >= lastSeen)
  BY TimesAreNumbers DEF Poll, Query, FetchError, BatchEnd, SaveLast, SaveSeen, Position, source, stored, hist,
     Happened, Until, Since

LEMMA EmitAdds ==
    ASSUME TypeOK, NEW l \in Logs, Emit(l)
    PROVE  /\ UNCHANGED <<lruSize, now, visible, pc, lastSeen, seen, until, batch, sentSome, storedLast,
                          storedSeen, crashes, from, sends, forgot>>
           /\ l \notin Happened /\ Happened' = Happened \cup {l}
           /\ ts'[l] = now /\ \A k \in Logs : k # l => ts'[k] = ts[k]
           /\ now \in 0..Horizon
           /\ Room
  <1>1. /\ UNCHANGED <<lruSize, now, visible, pc, lastSeen, seen, until, batch, sentSome, storedLast,
                       storedSeen, crashes, from, sends, forgot>>
        /\ ts[l] = None /\ ts' = [ts EXCEPT ![l] = now] /\ Room
    BY DEF Emit, stored, hist
  <1>2. now \in 0..Horizon /\ now # None
    BY TimesAreNumbers DEF Emit
  <1>3. ts'[l] = now /\ \A k \in Logs : k # l => ts'[k] = ts[k]
    BY <1>1 DEF TypeOK
  <1>4. l \notin Happened /\ Happened' = Happened \cup {l}
    BY <1>1, <1>2, <1>3 DEF Happened
  <1> QED
    BY <1>1, <1>2, <1>3, <1>4

LEMMA ProcessMoves ==
    ASSUME TypeOK, Control, NEW l \in Logs, Process(l)
    PROVE  /\ UNCHANGED <<lruSize, now, ts, visible, pc, until, storedLast, storedSeen, crashes, from, forgot>>
           /\ Happened' = Happened
           /\ pc = "work"
           /\ l \in batch /\ l \in Happened /\ batch' = batch \ {l}
           /\ \A k \in batch : k \in Happened /\ ts[l] <= ts[k]
  BY DEF Process, TypeOK, Control, source, stored, Happened

LEMMA ProcessSends ==
    ASSUME TypeOK, Control, NEW l \in Logs, Process(l), l \notin ToSet(seen)
    PROVE  /\ sends' = [sends EXCEPT ![l] = @ + 1]
           /\ sends'[l] = sends[l] + 1 /\ \A k \in Logs : k # l => sends'[k] = sends[k]
           /\ seen' = Put(seen, l)
           /\ lastSeen' = IF ts[l] > lastSeen THEN ts[l] ELSE lastSeen
  BY DEF Process, WasAlreadySeen, Advanced, TypeOK

LEMMA ProcessDrops ==
    ASSUME NEW l \in Logs, Process(l), l \in ToSet(seen)
    PROVE  UNCHANGED <<sends, seen, lastSeen>>
  BY DEF Process, WasAlreadySeen

LEMMA FetchBrings ==
    ASSUME TypeOK, Control, Fetch
    PROVE  /\ UNCHANGED <<lruSize, now, ts, visible, lastSeen, seen, storedLast, storedSeen, crashes, from,
                          sends, forgot>>
           /\ Happened' = Happened
           /\ pc = "fetch" /\ pc' # "down" /\ pc' # "fetch" /\ (pc' # "work" => batch' = {})
           /\ until \in lastSeen..LastSecond
           /\ \A b \in batch' : b \in Happened /\ lastSeen - 1 <= ts[b] /\ ts[b] <= until
           /\ \A k \in visible : lastSeen - 1 < ts[k] /\ ts[k] < until => k \in batch'
  <1>1. /\ UNCHANGED <<lruSize, now, ts, visible, lastSeen, seen, storedLast, storedSeen, crashes, from,
                       sends, forgot>>
        /\ Happened' = Happened
        /\ pc = "fetch" /\ pc' # "down" /\ pc' # "fetch" /\ (pc' # "work" => batch' = {})
        /\ until \in lastSeen..LastSecond
    BY DEF Fetch, Control, source, stored, hist, Happened
  <1>2. PICK e \in SUBSET {l \in visible : ts[l] \in {lastSeen - 1, until}} :
            batch' = {l \in visible : lastSeen - 1 < ts[l] /\ ts[l] < until} \cup e
    BY DEF Fetch, Answers, Since
  <1>3. \A k \in visible : k \in Happened /\ ts[k] \in Int
    BY TimesAreNumbers DEF Control
  <1>4. lastSeen \in Int /\ until \in Int /\ lastSeen <= until
    BY <1>1, TimesAreNumbers
  <1>5. \A b \in batch' : b \in Happened /\ lastSeen - 1 <= ts[b] /\ ts[b] <= until
    BY <1>2, <1>3, <1>4
  <1>6. \A k \in visible : lastSeen - 1 < ts[k] /\ ts[k] < until => k \in batch'
    BY <1>2
  <1> QED
    BY <1>1, <1>5, <1>6

-----------------------------------------------------------------------------
(* Times, control and marks *)

LEMMA TimesInductive ==
    ASSUME TypeOK, Times, Control, Next
    PROVE  Times'
  <1>0. /\ \A l \in Happened : l \in Logs /\ ts[l] \in Nat
        /\ CanonTime \in Nat /\ MaxCatchup \in Nat
        /\ now \in Nat /\ lastSeen \in Nat /\ from \in Nat
        /\ storedLast # None => storedLast \in Nat
    BY TimesAreNumbers
  <1>1. ASSUME NEW l \in Logs, Emit(l)
        PROVE  Times'
    BY <1>0, <1>1, EmitAdds DEF Times
  <1>2. ASSUME NEW l \in Logs, Appear(l)
        PROVE  Times'
    BY <1>2 DEF Appear, Times, stored, hist, Happened
  <1>3. ASSUME NEW l \in Logs, Process(l)
        PROVE  Times'
    <2>1. lastSeen' <= now
      <3>1. CASE l \in ToSet(seen)
        BY <1>3, <3>1, ProcessDrops DEF Times
      <3>2. CASE l \notin ToSet(seen)
        BY <1>0, <1>3, <3>2, ProcessMoves, ProcessSends DEF Times
      <3> QED
        BY <3>1, <3>2
    <2> QED
      BY <1>3, <2>1, ProcessMoves DEF Times
  <1>4. CASE Tick
    <2>1. /\ UNCHANGED <<lastSeen, storedLast, from, ts, visible>>
          /\ Happened' = Happened /\ now' = now + 1
          /\ \A l \in Happened \ visible : now < ts[l] + CanonTime
      BY <1>4 DEF Tick, stored, hist, Happened
    <2> QED
      BY <1>0, <2>1 DEF Times
  <1>5. CASE Poll
    BY <1>5, PollKeeps DEF Times
  <1>6. CASE Fetch
    BY <1>6, FetchBrings DEF Times
  <1>7. CASE Crash
    BY <1>0, <1>7 DEF Crash, Times, source, stored, hist, Happened
  <1>8. CASE Resume
    <2>1. UNCHANGED <<now, ts, visible, storedLast>> /\ Happened' = Happened
      BY <1>8 DEF Resume, source, stored, Happened
    <2>2. lastSeen' <= now /\ lastSeen' \in Int
      BY <1>0, <1>8 DEF Resume, Times
    <2>3. from' <= now
      BY <1>0, <1>8, <2>2 DEF Resume, Times
    <2> QED
      BY <2>1, <2>2, <2>3 DEF Times
  <1>9. CASE StartAfresh
    BY <1>0, <1>9 DEF StartAfresh, Times, source, stored, Happened
  <1> QED
    BY <1>1, <1>2, <1>3, <1>4, <1>5, <1>6, <1>7, <1>8, <1>9 DEF Next, Poll

LEMMA ControlInductive ==
    ASSUME TypeOK, Times, Control, Next
    PROVE  Control'
  <1>0. /\ CanonTime \in Nat /\ now \in Nat /\ lastSeen \in Nat /\ Window \in Nat /\ LastSecond \in Nat
        /\ \A l \in Logs : forgot[l] \in Nat
        /\ crashes \in Nat
    BY TimesAreNumbers, GeneratorAssumption DEF TypeOK
  <1>1. ASSUME NEW l \in Logs, Emit(l)
        PROVE  Control'
    BY <1>1, EmitAdds DEF Control
  <1>2. ASSUME NEW l \in Logs, Appear(l)
        PROVE  Control'
    BY <1>2 DEF Appear, Control, stored, hist, Happened
  <1>3. ASSUME NEW l \in Logs, Process(l)
        PROVE  Control'
    BY <1>3, ProcessMoves DEF Control
  <1>4. CASE Tick
    BY <1>0, <1>4 DEF Tick, Control, stored, hist, Happened, LastSecond
  <1>5. CASE Poll
    <2>1. pc' = "fetch" => until' \in lastSeen..LastSecond /\ until' + CanonTime <= now
      <3> SUFFICES ASSUME pc' = "fetch"
                   PROVE  until' \in lastSeen..LastSecond /\ until' + CanonTime <= now
        OBVIOUS
      <3>1. pc = "idle" /\ until' = Until /\ Until >= lastSeen
        BY <1>0, <1>5 DEF Poll, Query, FetchError, BatchEnd, SaveLast, SaveSeen, Until, Since
      <3>2. Until \in Int /\ Until <= now - CanonTime /\ now <= LastSecond
        BY <1>0 DEF Until, Since, TypeOK
      <3> QED
        BY <1>0, <3>1, <3>2
    <2> QED
      BY <1>5, <2>1, PollKeeps DEF Control, TypeOK
  <1>6. CASE Fetch
    BY <1>6, FetchBrings DEF Control
  <1>7. CASE Crash
    <2>1. \A l \in Logs : forgot[l] < crashes + 1 /\ forgot[l] <= crashes + 1
      BY <1>0 DEF Control
    <2> QED
      BY <1>7, <2>1 DEF Crash, Control, source, stored, hist, Happened
  <1>8. ASSUME NEW list, NEW last, Forget(list, last), pc = "down"
        PROVE  \A l \in Logs : forgot'[l] <= crashes
    BY <1>0, <1>8 DEF Forget, Control
  <1>9. CASE Resume
    BY <1>8, <1>9 DEF Resume, Control, source, stored, Happened
  <1>10. CASE StartAfresh
    BY <1>8, <1>10 DEF StartAfresh, Control, source, stored, Happened
  <1> QED
    BY <1>1, <1>2, <1>3, <1>4, <1>5, <1>6, <1>7, <1>9, <1>10 DEF Next, Poll

LEMMA MarkedInductive ==
    ASSUME TypeOK, Control, MarkedWasSent, Next
    PROVE  MarkedWasSent'
  <1>1. ASSUME NEW l \in Logs, Emit(l)
        PROVE  MarkedWasSent'
    BY <1>1, EmitAdds DEF MarkedWasSent
  <1>2. ASSUME NEW l \in Logs, Appear(l)
        PROVE  MarkedWasSent'
    BY <1>2 DEF Appear, MarkedWasSent, stored, hist, Happened
  <1>3. ASSUME NEW l \in Logs, Process(l)
        PROVE  MarkedWasSent'
    <2>1. CASE l \in ToSet(seen)
      BY <1>3, <2>1, ProcessMoves, ProcessDrops DEF MarkedWasSent
    <2>2. CASE l \notin ToSet(seen)
      <3>1. \A k \in Logs : sends[k] \in Nat
        BY TimesAreNumbers
      <3>2. \A k \in Logs : sends[k] > 0 => sends'[k] > 0
        BY <1>3, <2>2, <3>1, ProcessSends
      <3>3. sends'[l] > 0 /\ \A k \in Logs : sends'[k] > 0 => k \in Happened
        BY <1>3, <2>2, <3>1, ProcessMoves, ProcessSends DEF MarkedWasSent
      <3>4. ASSUME NEW i \in DOMAIN seen'
            PROVE  sends'[seen'[i]] > 0
        <4>1. CASE i = 1
          BY <1>3, <2>2, <3>3, <3>4, <4>1, ProcessSends, SeenAfterPut
        <4>2. CASE i # 1
          <5>1. seen'[i] = seen[i - 1] /\ i - 1 \in DOMAIN seen
            BY <1>3, <2>2, <3>4, <4>2, ProcessSends, SeenAfterPut, SeenType
          <5> QED
            BY <3>2, <5>1, SeenType DEF MarkedWasSent
        <4> QED
          BY <4>1, <4>2
      <3>5. storedSeen # None => \A i \in DOMAIN storedSeen : sends'[storedSeen[i]] > 0
        BY <3>2, StoredSeenType DEF MarkedWasSent
      <3> QED
        BY <1>3, <3>3, <3>4, <3>5, ProcessMoves DEF MarkedWasSent
    <2> QED
      BY <2>1, <2>2
  <1>4. CASE Tick
    BY <1>4 DEF Tick, MarkedWasSent, stored, hist, Happened
  <1>5. CASE Poll
    BY <1>5, PollKeeps DEF MarkedWasSent
  <1>6. CASE Fetch
    BY <1>6, FetchBrings DEF MarkedWasSent
  <1>7. CASE Crash
    <2>1. DOMAIN seen' = {}
      BY <1>7 DEF Crash
    <2> QED
      BY <1>7, <2>1 DEF Crash, MarkedWasSent, source, stored, hist, Happened
  <1>8. CASE Resume
    <2>1. UNCHANGED <<ts, sends, storedSeen>> /\ Happened' = Happened /\ storedSeen # None
      BY <1>8 DEF Resume, source, stored, Happened
    <2>2. \A i \in DOMAIN seen' : sends[seen'[i]] > 0
      BY <1>8, <2>1, SeenAfterResume DEF MarkedWasSent
    <2> QED
      BY <2>1, <2>2 DEF MarkedWasSent
  <1>9. CASE StartAfresh
    BY <1>9 DEF StartAfresh, MarkedWasSent, source, stored, Happened
  <1> QED
    BY <1>1, <1>2, <1>3, <1>4, <1>5, <1>6, <1>7, <1>8, <1>9 DEF Next, Poll

-----------------------------------------------------------------------------
(* No log is skipped *)

(* A fetched window misses no owed log that happened before a log in it.   *)
LEMMA WindowIsComplete ==
    ASSUME TypeOK, Times, Control, NoLogSkipped, Fetch, NEW b \in batch', NEW k \in Happened,
           from <= ts[k], ts[k] < ts[b], sends[k] = 0
    PROVE  k \in batch'
  <1>1. /\ ts[k] \in Nat /\ lastSeen \in Nat /\ CanonTime \in Nat /\ now \in Nat
        /\ until \in Int /\ ts[b] \in Nat /\ ts[b] <= until /\ pc = "fetch"
    BY FetchBrings, TimesAreNumbers
  <1>2. ~(ts[k] < lastSeen)
    BY <1>1, TimesAreNumbers DEF NoLogSkipped
  <1>3. until + CanonTime <= now
    BY <1>1 DEF Control
  <1>4. k \in visible
    BY <1>1, <1>3 DEF Times
  <1> QED
    BY <1>1, <1>2, <1>4, FetchBrings

LEMMA SkipsInductive ==
    ASSUME TypeOK, Times, Control, MarkedWasSent, NothingBehind, NoLogSkipped, Next
    PROVE  NothingBehind' /\ NoLogSkipped'
  <1>0. /\ \A l \in Happened : l \in Logs /\ ts[l] \in Nat
        /\ \A l \in Logs : sends[l] \in Nat
        /\ now \in Nat /\ lastSeen \in Nat /\ from \in Nat /\ MaxCatchup \in Nat
        /\ storedLast # None => storedLast \in Nat
        /\ \A b \in batch : b \in Happened
    <2>1. \A b \in batch : b \in Happened
      BY Zenon DEF TypeOK, Control
    <2>2. \A l \in Happened : l \in Logs /\ ts[l] \in Nat
      BY TimesAreNumbers
    <2> QED
      BY <2>1, <2>2, TimesAreNumbers
  <1>1. ASSUME NEW l \in Logs, Emit(l)
        PROVE  NothingBehind' /\ NoLogSkipped'
    <2>1. \A k \in Happened : ts'[k] = ts[k] /\ ts[k] <= now
      BY <1>0, <1>1, EmitAdds DEF Times
    <2>2. NoLogSkipped'
      BY <1>0, <1>1, <2>1, EmitAdds DEF NoLogSkipped, Times
    <2>3. NothingBehind'
      BY <1>0, <1>1, <2>1, EmitAdds DEF NothingBehind, Times
    <2> QED
      BY <2>2, <2>3
  <1>2. ASSUME NEW l \in Logs, Appear(l)
        PROVE  NothingBehind' /\ NoLogSkipped'
    BY <1>2 DEF Appear, NothingBehind, NoLogSkipped, stored, hist, Happened
  <1>3. ASSUME NEW l \in Logs, Process(l)
        PROVE  NothingBehind' /\ NoLogSkipped'
    <2>1. /\ \A k \in Logs : sends'[k] = 0 => sends[k] = 0 /\ k # l
          /\ \A k \in Logs : sends[k] > 0 => sends'[k] > 0
          /\ \A k \in Logs : sends'[k] \in Nat
      <3>1. CASE l \in ToSet(seen)
        BY <1>0, <1>3, <3>1, ProcessDrops, SeenType DEF MarkedWasSent
      <3>2. CASE l \notin ToSet(seen)
        BY <1>0, <1>3, <3>2, ProcessSends
      <3> QED
        BY <3>1, <3>2
    <2>2. NothingBehind'
      BY <1>0, <1>3, <2>1, ProcessMoves DEF NothingBehind
    <2>3. lastSeen' \in {lastSeen, ts[l]}
      BY <1>3, ProcessDrops, ProcessSends
    <2>4. ASSUME NEW k \in Happened, from <= ts[k], ts[k] < lastSeen'
          PROVE  sends'[k] > 0
      <3>1. CASE lastSeen' = lastSeen
        BY <1>0, <1>3, <2>1, <2>4, <3>1, ProcessMoves DEF NoLogSkipped
      <3>2. CASE lastSeen' = ts[l]
        <4>1. ~(k \in batch) /\ l \in batch
          BY <1>0, <1>3, <2>4, <3>2, ProcessMoves
        <4>2. sends[k] # 0
          BY <2>4, <3>2, <4>1 DEF NothingBehind
        <4> QED
          BY <1>0, <2>1, <4>2
      <3> QED
        BY <2>3, <3>1, <3>2
    <2>5. NoLogSkipped'
      BY <1>3, <2>4, ProcessMoves DEF NoLogSkipped
    <2> QED
      BY <2>2, <2>5
  <1>4. CASE Tick
    BY <1>4 DEF Tick, NothingBehind, NoLogSkipped, stored, hist, Happened
  <1>5. CASE Poll
    BY <1>5, PollKeeps DEF NothingBehind, NoLogSkipped
  <1>6. CASE Fetch
    <2>1. NoLogSkipped'
      BY <1>6, FetchBrings DEF NoLogSkipped
    <2>2. \A b \in batch', k \in Happened :
             from <= ts[k] /\ ts[k] < ts[b] /\ sends[k] = 0 => k \in batch'
      BY <1>6, WindowIsComplete
    <2>3. NothingBehind'
      BY <1>6, <2>2, FetchBrings DEF NothingBehind
    <2> QED
      BY <2>1, <2>3
  <1>7. CASE Crash
    BY <1>7 DEF Crash, NothingBehind, NoLogSkipped, source, stored, hist, Happened
  <1>8. CASE Resume
    <2>1. /\ UNCHANGED <<ts, sends, storedLast>> /\ Happened' = Happened /\ batch' = {}
          /\ storedLast # None
      BY <1>8 DEF Resume, Control, source, stored, Happened
    <2>2. from' \in Nat /\ from <= from'
      BY <1>0, <1>8 DEF Resume
    <2>3. NothingBehind'
      BY <1>0, <2>1, <2>2 DEF NothingBehind
    <2>4. lastSeen' = storedLast \/ (lastSeen' <= from' /\ lastSeen' \in Int)
      <3>1. CASE now - storedLast > MaxCatchup
        <4>1. lastSeen' = now - MaxCatchup /\ from' = IF from < lastSeen' THEN lastSeen' ELSE from
          BY <1>8, <3>1 DEF Resume
        <4> QED
          BY <1>0, <4>1
      <3>2. CASE ~(now - storedLast > MaxCatchup)
        BY <1>8, <3>2 DEF Resume
      <3> QED
        BY <3>1, <3>2
    <2>5. NoLogSkipped'
      BY <1>0, <2>1, <2>2, <2>4 DEF NothingBehind, NoLogSkipped
    <2> QED
      BY <2>3, <2>5
  <1>9. CASE StartAfresh
    <2>1. /\ UNCHANGED <<ts, sends, storedLast>> /\ Happened' = Happened /\ batch' = {}
          /\ from' = now /\ lastSeen' = now
      BY <1>9 DEF StartAfresh, Control, source, stored, Happened
    <2>2. NothingBehind'
      BY <1>0, <2>1 DEF NothingBehind, Times
    <2>3. NoLogSkipped'
      BY <1>0, <2>1 DEF NoLogSkipped
    <2> QED
      BY <2>2, <2>3
  <1> QED
    BY <1>1, <1>2, <1>3, <1>4, <1>5, <1>6, <1>7, <1>8, <1>9 DEF Next, Poll

-----------------------------------------------------------------------------
(* A log is sent once *)

LEMMA CapacityInductive ==
    ASSUME TypeOK, Times, Control, Capacity, Next
    PROVE  Capacity'
  <1>0. lruSize \in Nat /\ now \in Nat /\ \A l \in Happened : l \in Logs /\ ts[l] \in Nat
    BY TimesAreNumbers
  <1>1. ASSUME NEW l \in Logs, Emit(l)
        PROVE  Capacity'
    <2> SUFFICES ASSUME NEW t \in 0..Horizon
                 PROVE  Cardinality({k \in Happened' : ts'[k] \in t - 1..t + 1}) <= lruSize
      BY <1>1, EmitAdds DEF Capacity
    <2>1. PICK Before : Before = {k \in Happened : ts[k] \in t - 1..t + 1}
      OBVIOUS
    <2>2. PICK After : After = {k \in Happened' : ts'[k] \in t - 1..t + 1}
      OBVIOUS
    <2>3. PICK Late : Late = {k \in Happened : ts[k] >= now - 2}
      OBVIOUS
    <2>4. IsFiniteSet(Late) /\ IsFiniteSet(Before)
      <3>1. Late \subseteq Logs /\ Before \subseteq Logs
        BY <1>0, <2>1, <2>3
      <3> QED
        BY <3>1, GeneratorAssumption, FS_Subset
    <2>5. CASE now \in t - 1..t + 1
      <3>1. After \subseteq Late \cup {l}
        <4>1. t - 1 >= now - 2
          BY <1>0, <2>5
        <4> QED
          BY <1>0, <1>1, <2>2, <2>3, <4>1, EmitAdds
      <3>2. Cardinality(Late) < lruSize
        BY <1>1, <2>3, EmitAdds DEF Room
      <3>3. IsFiniteSet(Late \cup {l}) /\ Cardinality(Late \cup {l}) <= Cardinality(Late) + 1
        <4>1. Cardinality(Late) \in Nat
          BY <2>4, FS_CardinalityType
        <4>2. /\ IsFiniteSet(Late \cup {l})
              /\ Cardinality(Late \cup {l}) = IF l \in Late THEN Cardinality(Late) ELSE Cardinality(Late) + 1
          BY <2>4, FS_AddElement
        <4> QED
          BY <4>1, <4>2
      <3>4. Cardinality(After) <= Cardinality(Late \cup {l}) /\ IsFiniteSet(After)
        BY <3>1, <3>3, FS_Subset
      <3>5. Cardinality(Late) \in Nat /\ Cardinality(Late \cup {l}) \in Nat /\ Cardinality(After) \in Nat
        BY <2>4, <3>3, <3>4, FS_CardinalityType
      <3> QED
        BY <1>0, <2>2, <3>2, <3>3, <3>4, <3>5
    <2>6. CASE now \notin t - 1..t + 1
      <3>1. After = Before
        BY <1>0, <1>1, <2>1, <2>2, <2>6, EmitAdds
      <3> QED
        BY <2>1, <2>2, <3>1 DEF Capacity
    <2> QED
      BY <2>5, <2>6
  <1>2. ASSUME UNCHANGED <<lruSize, ts>>
        PROVE  Capacity'
    BY <1>2 DEF Capacity, Happened
  <1>3. CASE \E l \in Logs : Appear(l) \/ Process(l)
    BY <1>2, <1>3 DEF Appear, Process, source
  <1>4. CASE Tick
    BY <1>2, <1>4 DEF Tick
  <1>5. CASE Poll \/ Fetch
    BY <1>2, <1>5, PollKeeps, FetchBrings
  <1>6. CASE Crash \/ Resume \/ StartAfresh
    BY <1>2, <1>6 DEF Crash, Resume, StartAfresh, source
  <1> QED
    BY <1>1, <1>3, <1>4, <1>5, <1>6 DEF Next, Poll

LEMMA BatchInductive ==
    ASSUME TypeOK, Times, Control, BatchIsRecent, Next
    PROVE  BatchIsRecent'
  <1>0. /\ lastSeen \in Nat /\ \A l \in Happened : l \in Logs /\ ts[l] \in Nat
        /\ \A b \in batch : b \in Happened
    BY TimesAreNumbers DEF TypeOK, Control
  <1>1. ASSUME NEW l \in Logs, Emit(l)
        PROVE  BatchIsRecent'
    BY <1>0, <1>1, EmitAdds DEF BatchIsRecent
  <1>2. ASSUME NEW l \in Logs, Appear(l)
        PROVE  BatchIsRecent'
    BY <1>2 DEF Appear, BatchIsRecent
  <1>3. ASSUME NEW l \in Logs, Process(l)
        PROVE  BatchIsRecent'
    <2>1. lastSeen' \in {lastSeen, ts[l]}
      BY <1>3, ProcessDrops, ProcessSends
    <2> QED
      BY <1>0, <1>3, <2>1, ProcessMoves DEF BatchIsRecent
  <1>4. CASE Tick
    BY <1>4 DEF Tick, BatchIsRecent
  <1>5. CASE Poll
    BY <1>5, PollKeeps DEF BatchIsRecent
  <1>6. CASE Fetch
    BY <1>0, <1>6, FetchBrings DEF BatchIsRecent
  <1>7. CASE Crash \/ Resume \/ StartAfresh
    <2>1. batch' = {}
      BY <1>7 DEF Crash, Resume, StartAfresh, Control
    <2> QED
      BY <2>1 DEF BatchIsRecent
  <1> QED
    BY <1>1, <1>2, <1>3, <1>4, <1>5, <1>6, <1>7 DEF Next, Poll

(* A log that must be recognised is not the one the cache drops: otherwise *)
(* more logs than it holds would have happened around it.                  *)
LEMMA NotDropped ==
    ASSUME TypeOK, Capacity, MarkedWasSent,
           NEW l \in Happened, NEW m \in Happened, m \notin ToSet(seen),
           NEW p \in DOMAIN seen, seen[p] = l,
           \A q \in 1..p - 1 : ts[seen[q]] \in ts[l] - 1..ts[l] + 1,
           ts[m] \in ts[l] - 1..ts[l] + 1
    PROVE  p < lruSize
  <1>1. /\ lruSize \in Nat /\ p \in 1..Len(seen) /\ Len(seen) \in Nat /\ Len(seen) <= lruSize
        /\ ts[l] \in 0..Horizon
    BY TimesAreNumbers, SeenType DEF TypeOK
  <1> SUFFICES ASSUME p = lruSize PROVE FALSE
    BY <1>1
  <1>2. PICK Near : Near = {k \in Happened : ts[k] \in ts[l] - 1..ts[l] + 1}
    OBVIOUS
  <1>3. Cardinality(Near) <= lruSize
    BY <1>1, <1>2 DEF Capacity
  <1>4. IsFiniteSet(Near) /\ Cardinality(Near) \in Nat
    <2>1. Near \subseteq Logs
      BY <1>2, TimesAreNumbers
    <2> QED
      BY <2>1, GeneratorAssumption, FS_Subset, FS_CardinalityType
  <1>5. PICK Cached : Cached = {seen[q] : q \in 1..p}
    OBVIOUS
  <1>6. Cached \subseteq Near /\ m \in Near /\ m \notin Cached
    <2>1. \A q \in 1..p : q \in DOMAIN seen /\ seen[q] \in Happened
      BY <1>1, SeenType DEF MarkedWasSent
    <2>2. \A q \in 1..p : ts[seen[q]] \in ts[l] - 1..ts[l] + 1
      BY <1>1
    <2> QED
      BY <1>2, <1>5, <2>1, <2>2, SeenType
  <1>7. Cardinality(Cached) = p
    <2>1. PICK f : f = [q \in 1..p |-> seen[q]]
      OBVIOUS
    <2>2. f \in Bijection(1..p, Cached)
      <3>1. \A a \in 1..p : a \in DOMAIN seen /\ f[a] = seen[a]
        BY <1>1, <2>1, SeenType
      <3>2. \A a, b \in 1..p : f[a] = f[b] => a = b
        BY <3>1 DEF TypeOK, IsInjective
      <3>3. f \in [1..p -> Cached] /\ \A c \in Cached : \E q \in 1..p : f[q] = c
        BY <1>5, <2>1
      <3> QED
        BY <3>2, <3>3 DEF Bijection, Injection, Surjection, IsInjective
    <2>3. p \in Nat
      BY <1>1
    <2> QED
      BY <2>2, <2>3, FS_CountingElements DEF ExistsBijection
  <1>8. Cached # Near /\ Cardinality(Cached) <= Cardinality(Near)
    BY <1>4, <1>6, FS_Subset
  <1>9. Cardinality(Cached) # Cardinality(Near)
    BY <1>4, <1>6, <1>8, FS_Subset
  <1> QED
    BY <1>1, <1>3, <1>4, <1>7, <1>8, <1>9

(* What a restart does not expose is put back where it will be recognised. *)
LEMMA RestartForgets ==
    ASSUME TypeOK, MarkedWasSent, SentOnce, NEW list, NEW last, Forget(list, last), sends' = sends,
           NEW l \in Happened, sends[l] > forgot'[l], ts[l] >= last - 1
    PROVE  \E i \in DOMAIN list : list[i] = l /\ HeldBack(list, i, last)
  <1>1. l \in Logs /\ sends[l] \in Nat /\ forgot[l] \in Nat /\ sends[l] <= 1 + forgot[l]
    BY TimesAreNumbers DEF SentOnce
  <1>2. forgot'[l] = IF l \in Exposed(list, last) THEN forgot[l] + 1 ELSE forgot[l]
    BY <1>1 DEF Forget
  <1>3. l \notin Exposed(list, last) /\ sends[l] > 0
    BY <1>1, <1>2
  <1> QED
    BY <1>3 DEF Exposed

LEMMA RecognisedInductive ==
    ASSUME IInv, Next
    PROVE  Recognised'
  <1>0. /\ \A l \in Happened : l \in Logs /\ ts[l] \in Nat
        /\ \A l \in Logs : sends[l] \in Nat /\ forgot[l] \in Nat
        /\ now \in Nat /\ lastSeen \in Nat
        /\ \A b \in batch : b \in Happened
    BY TimesAreNumbers DEF IInv, TypeOK, Control
  <1>1. ASSUME NEW l \in Logs, Emit(l)
        PROVE  Recognised'
    <2>1. \A k \in Happened : ts'[k] = ts[k] /\ ts[k] <= now
      BY <1>0, <1>1, EmitAdds DEF IInv, Times
    <2>2. sends[l] = 0
      BY <1>0, <1>1, EmitAdds DEF IInv, MarkedWasSent
    <2>3. \A i \in DOMAIN seen : seen[i] \in Happened
      BY SeenType DEF IInv, MarkedWasSent
    <2> SUFFICES ASSUME pc # "down", NEW k \in Happened, sends[k] > forgot[k], ts[k] >= lastSeen - 1
                 PROVE  /\ \E p \in DOMAIN seen :
                             /\ seen[p] = k
                             /\ \A q \in 1..p - 1 : ts'[seen[q]] \in ts[k] - 1..ts[k] + 1
                        /\ \A m \in Happened' : ts'[m] < lastSeen - 1 \/ ts'[m] >= ts[k] - 1
      <3>1. /\ UNCHANGED <<pc, lastSeen, seen, sends, forgot>>
            /\ Happened' = Happened \cup {l}
        BY <1>1, EmitAdds DEF IInv
      <3>2. ~(sends[l] > forgot[l])
        BY <1>0, <2>2
      <3> QED
        BY <2>1, <3>1, <3>2 DEF Recognised
    <2>4. PICK p \in DOMAIN seen :
            seen[p] = k /\ \A q \in 1..p - 1 : ts[seen[q]] \in ts[k] - 1..ts[k] + 1
      BY DEF IInv, Recognised
    <2>5. \A q \in 1..p - 1 : q \in DOMAIN seen
      BY SeenType DEF IInv
    <2>6. \A m \in Happened : ts[m] < lastSeen - 1 \/ ts[m] >= ts[k] - 1
      BY DEF IInv, Recognised
    <2>7. \A m \in Happened' : ts'[m] < lastSeen - 1 \/ ts'[m] >= ts[k] - 1
      <3>1. Happened' = Happened \cup {l} /\ ts'[l] = now
        BY <1>1, EmitAdds DEF IInv
      <3>2. now >= ts[k] - 1
        BY <1>0, <2>1
      <3> QED
        BY <2>1, <2>6, <3>1, <3>2
    <2> QED
      BY <2>1, <2>3, <2>4, <2>5, <2>7
  <1>2. ASSUME UNCHANGED <<ts, lastSeen, seen, sends, forgot>>, pc # "down"
        PROVE  Recognised'
    <2>1. Happened' = Happened
      BY <1>2 DEF Happened
    <2> QED
      BY <1>2, <2>1 DEF IInv, Recognised
  <1>3. ASSUME UNCHANGED <<ts, lastSeen, seen, sends, forgot, pc>>
        PROVE  Recognised'
    <2>1. Happened' = Happened
      BY <1>3 DEF Happened
    <2> QED
      BY <1>3, <2>1 DEF IInv, Recognised
  <1>4. CASE Tick \/ \E l \in Logs : Appear(l)
    BY <1>3, <1>4 DEF Tick, Appear, hist
  <1>5. CASE Poll \/ Fetch
    BY <1>2, <1>5, PollKeeps, FetchBrings DEF IInv
  <1>6. ASSUME NEW l \in Logs, Process(l)
        PROVE  Recognised'
    <2>1. CASE l \in ToSet(seen)
      BY <1>3, <1>6, <2>1, ProcessDrops, ProcessMoves DEF IInv
    <2>2. CASE l \notin ToSet(seen)
      <3>1. /\ UNCHANGED <<lruSize, ts, pc, forgot>> /\ Happened' = Happened /\ pc # "down"
            /\ l \in batch /\ l \in Happened
        BY <1>6, ProcessMoves DEF IInv
      <3>2. /\ \A k \in Logs : k # l => sends'[k] = sends[k]
            /\ lastSeen' = IF ts[l] > lastSeen THEN ts[l] ELSE lastSeen
        BY <1>6, <2>2, ProcessSends DEF IInv
      <3>3. /\ Len(seen') \in Nat /\ Len(seen') <= lruSize /\ DOMAIN seen' = 1..Len(seen')
            /\ Len(seen') = IF Len(seen) < lruSize THEN Len(seen) + 1 ELSE lruSize
            /\ \A i \in DOMAIN seen' : seen'[i] = IF i = 1 THEN l ELSE seen[i - 1]
            /\ Len(seen) \in Nat /\ DOMAIN seen = 1..Len(seen) /\ Len(seen) <= lruSize
            /\ lruSize \in Nat \ {0}
        BY <1>6, <2>2, ProcessSends, SeenAfterPut, SeenType, TimesAreNumbers DEF IInv, TypeOK
      <3> SUFFICES ASSUME NEW k \in Happened, sends'[k] > forgot[k], ts[k] >= lastSeen' - 1
                   PROVE  /\ \E p \in DOMAIN seen' :
                               /\ seen'[p] = k
                               /\ \A q \in 1..p - 1 : ts[seen'[q]] \in ts[k] - 1..ts[k] + 1
                          /\ \A m \in Happened : ts[m] < lastSeen' - 1 \/ ts[m] >= ts[k] - 1
        BY <3>1 DEF Recognised
      <3>4. CASE k = l
        <4>1. 1 \in DOMAIN seen' /\ seen'[1] = k /\ 1..1 - 1 = {}
          BY <3>3, <3>4
        <4>2. \A m \in Happened : ts[m] < lastSeen' - 1 \/ ts[m] >= ts[k] - 1
          BY <1>0, <3>1, <3>2, <3>4
        <4> QED
          BY <4>1, <4>2
      <3>5. CASE k # l
        <4>1. sends[k] > forgot[k] /\ ts[k] >= lastSeen - 1 /\ lastSeen <= lastSeen' /\ ts[l] <= lastSeen'
              /\ lastSeen' \in Nat
          BY <1>0, <3>1, <3>2, <3>5
        <4>2. PICK p \in DOMAIN seen :
                seen[p] = k /\ \A q \in 1..p - 1 : ts[seen[q]] \in ts[k] - 1..ts[k] + 1
          BY <3>1, <4>1 DEF IInv, Recognised
        <4>3. \A m \in Happened : ts[m] < lastSeen - 1 \/ ts[m] >= ts[k] - 1
          BY <3>1, <4>1 DEF IInv, Recognised
        <4>4. ts[l] \in ts[k] - 1..ts[k] + 1
          BY <1>0, <3>1, <4>1, <4>3 DEF IInv, BatchIsRecent
        <4>5. p < lruSize
          BY <2>2, <3>1, <4>2, <4>4, NotDropped DEF IInv
        <4>6. p + 1 \in DOMAIN seen' /\ p \in Nat
          BY <3>3, <4>5
        <4>7. seen'[p + 1] = k
          <5>1. p + 1 # 1 /\ (p + 1) - 1 = p
            BY <4>6, <3>3
          <5> QED
            BY <3>3, <4>2, <4>6, <5>1
        <4>8. ASSUME NEW q \in 1..(p + 1) - 1
              PROVE  ts[seen'[q]] \in ts[k] - 1..ts[k] + 1
          <5>1. CASE q = 1
            BY <3>3, <4>4, <4>6, <5>1
          <5>2. CASE q # 1
            <6>1. q \in DOMAIN seen' /\ q - 1 \in 1..p - 1
              BY <3>3, <4>6, <5>2
            <6>2. seen'[q] = seen[q - 1]
              BY <3>3, <5>2, <6>1
            <6> QED
              BY <4>2, <6>1, <6>2
          <5> QED
            BY <5>1, <5>2
        <4>9. \A m \in Happened : ts[m] < lastSeen' - 1 \/ ts[m] >= ts[k] - 1
          BY <1>0, <4>1, <4>3
        <4> QED
          BY <4>6, <4>7, <4>8, <4>9
      <3> QED
        BY <3>4, <3>5
    <2> QED
      BY <2>1, <2>2
  <1>7. CASE Crash
    BY <1>7 DEF Crash, Recognised
  <1>8. CASE Resume
    <2>1. /\ UNCHANGED <<ts, sends, storedSeen>> /\ Happened' = Happened /\ Forget(storedSeen, lastSeen')
          /\ storedSeen # None
      BY <1>8 DEF Resume, source, stored, Happened
    <2> SUFFICES ASSUME NEW k \in Happened, sends[k] > forgot'[k], ts[k] >= lastSeen' - 1
                 PROVE  /\ \E p \in DOMAIN seen' :
                             /\ seen'[p] = k
                             /\ \A q \in 1..p - 1 : ts[seen'[q]] \in ts[k] - 1..ts[k] + 1
                        /\ \A m \in Happened : ts[m] < lastSeen' - 1 \/ ts[m] >= ts[k] - 1
      BY <2>1 DEF Recognised
    <2>2. PICK last : last = lastSeen'
      OBVIOUS
    <2>3. PICK i \in DOMAIN storedSeen : storedSeen[i] = k /\ HeldBack(storedSeen, i, last)
      BY <2>1, <2>2, RestartForgets DEF IInv
    <2>4. PICK n \in Nat : n = Len(storedSeen) /\ DOMAIN storedSeen = 1..n
      BY <2>1, StoredSeenType DEF IInv
    <2>5. /\ \A j \in i + 1..n : ts[storedSeen[j]] \in ts[k] - 1..ts[k] + 1
          /\ \A m \in Happened : ts[m] < last - 1 \/ ts[m] >= ts[k] - 1
      BY <2>3, <2>4 DEF HeldBack
    <2>6. DOMAIN seen' = 1..n /\ \A j \in 1..n : seen'[j] = storedSeen[(n - j) + 1]
      BY <1>8, <2>4, SeenAfterResume DEF IInv
    <2>7. PICK p \in 1..n : p = (n - i) + 1
      BY <2>4
    <2>8. (n - p) + 1 = i
      BY <2>4, <2>7
    <2>9. seen'[p] = k
      BY <2>3, <2>6, <2>8
    <2>10. ASSUME NEW q \in 1..p - 1
           PROVE  ts[seen'[q]] \in ts[k] - 1..ts[k] + 1
      <3>1. q \in 1..n /\ (n - q) + 1 \in i + 1..n
        BY <2>4, <2>7, <2>8
      <3> QED
        BY <2>5, <2>6, <3>1
    <2> QED
      BY <2>2, <2>5, <2>6, <2>9, <2>10
  <1>9. CASE StartAfresh
    <2>1. /\ UNCHANGED <<ts, sends>> /\ Happened' = Happened /\ Forget(<<>>, now)
          /\ lastSeen' = now
      BY <1>9 DEF StartAfresh, source, Happened
    <2>2. ASSUME NEW k \in Happened, sends[k] > forgot'[k], ts[k] >= now - 1
          PROVE  FALSE
      <3>1. \E i \in DOMAIN (<<>>) : (<<>>)[i] = k /\ HeldBack(<<>>, i, now)
        BY <2>1, <2>2, RestartForgets DEF IInv
      <3> QED
        BY <3>1
    <2> QED
      BY <2>1, <2>2 DEF Recognised
  <1> QED
    BY <1>1, <1>4, <1>5, <1>6, <1>7, <1>8, <1>9 DEF Next, Poll

LEMMA SentOnceInductive ==
    ASSUME IInv, Next
    PROVE  SentOnce'
  <1>0. \A l \in Logs : sends[l] \in Nat /\ forgot[l] \in Nat
    BY TimesAreNumbers DEF IInv
  <1>1. ASSUME UNCHANGED <<sends, forgot>>
        PROVE  SentOnce'
    BY <1>1 DEF IInv, SentOnce
  <1>2. ASSUME NEW l \in Logs, Process(l)
        PROVE  SentOnce'
    <2>1. CASE l \in ToSet(seen)
      BY <1>1, <1>2, <2>1, ProcessDrops, ProcessMoves DEF IInv
    <2>2. CASE l \notin ToSet(seen)
      <3>1. /\ UNCHANGED forgot /\ pc # "down" /\ l \in batch /\ l \in Happened
            /\ sends'[l] = sends[l] + 1 /\ \A k \in Logs : k # l => sends'[k] = sends[k]
        BY <1>2, <2>2, ProcessMoves, ProcessSends DEF IInv
      <3>2. ts[l] >= lastSeen - 1
        BY <3>1 DEF IInv, BatchIsRecent
      <3>3. ~(sends[l] > forgot[l])
        BY <2>2, <3>1, <3>2, SeenType DEF IInv, Recognised
      <3> QED
        BY <1>0, <3>1, <3>3 DEF IInv, SentOnce
    <2> QED
      BY <2>1, <2>2
  <1>3. CASE \E l \in Logs : Emit(l) \/ Appear(l)
    BY <1>1, <1>3 DEF Emit, Appear, hist
  <1>4. CASE Tick
    BY <1>1, <1>4 DEF Tick, hist
  <1>5. CASE Poll \/ Fetch
    BY <1>1, <1>5, PollKeeps, FetchBrings DEF IInv
  <1>6. CASE Crash
    BY <1>1, <1>6 DEF Crash, hist
  <1>7. ASSUME UNCHANGED sends, NEW list, NEW last, Forget(list, last)
        PROVE  SentOnce'
    BY <1>0, <1>7 DEF IInv, SentOnce, Forget
  <1>8. CASE Resume \/ StartAfresh
    BY <1>7, <1>8 DEF Resume, StartAfresh
  <1> QED
    BY <1>2, <1>3, <1>4, <1>5, <1>6, <1>8 DEF Next, Poll

-----------------------------------------------------------------------------
(* The theorems *)

(* IInv is an invariant of the polling generator: it holds at the first    *)
(* start and every step keeps it (data/mod.rs).                            *)
THEOREM Invariance == Spec => []IInv
  <1>1. IInv /\ [Next]_vars => IInv'
    <2> SUFFICES ASSUME IInv, [Next]_vars PROVE IInv'
      OBVIOUS
    <2>1. CASE Next
      <3>1. TypeOK' /\ Times' /\ Control'
        BY <2>1, TypeInductive, TimesInductive, ControlInductive DEF IInv
      <3>2. MarkedWasSent' /\ NothingBehind' /\ NoLogSkipped'
        BY <2>1, MarkedInductive, SkipsInductive DEF IInv
      <3>3. Capacity' /\ BatchIsRecent' /\ Recognised' /\ SentOnce'
        BY <2>1, CapacityInductive, BatchInductive, RecognisedInductive, SentOnceInductive DEF IInv
      <3> QED
        BY <3>1, <3>2, <3>3 DEF IInv
    <2>2. CASE UNCHANGED vars
      <3>1. UNCHANGED <<lruSize, now, ts, visible, pc, lastSeen, seen, until, batch, sentSome, storedLast,
                        storedSeen, crashes, from, sends, forgot>>
        BY <2>2 DEF vars, source, stored, hist
      <3>2. Happened' = Happened
        BY <3>1 DEF Happened
      <3> QED
        BY <3>1, <3>2 DEF IInv, TypeOK, Times, Control, MarkedWasSent, NothingBehind, NoLogSkipped,
           Capacity, BatchIsRecent, Recognised, SentOnce
    <2> QED
      BY <2>1, <2>2
  <1> QED
    BY <1>1, InitImpliesIInv, PTL DEF Spec

(* Every variable keeps its type: times stay within the run, the cache     *)
(* never exceeds lru_cache_size nor holds a log twice, and what a restart  *)
(* reads back is again such a cache (mark_already_seen).                   *)
THEOREM TypeCorrectness == Spec => []TypeOK
  <1>1. IInv => TypeOK
    BY DEF IInv
  <1> QED
    BY <1>1, Invariance, PTL

(* last_seen never passes an owed log that was not sent, for logs shown    *)
(* late, failing fetches and inserts, and crashes between any two steps    *)
(* (get_and_process_dg_logs, update_dg_from_storage).                      *)
THEOREM NothingSkipped == Spec => []NoLogSkipped
  <1>1. IInv => NoLogSkipped
    BY DEF IInv
  <1> QED
    BY <1>1, Invariance, PTL

(* The overlapping windows send a log again at most once per restart that  *)
(* left it exposed: not on the stored list, or put back behind logs that   *)
(* push it out (was_already_seen, mark_already_seen, data/mod.rs:539).     *)
THEOREM SentAgainOnlyIfExposed == Spec => []SentOnce
  <1>1. IInv => SentOnce
    BY DEF IInv
  <1> QED
    BY <1>1, Invariance, PTL

=============================================================================
