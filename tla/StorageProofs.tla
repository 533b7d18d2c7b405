---------------------------- MODULE StorageProofs ----------------------------
(***************************************************************************)
(* Proofs about Storage, for any keys, lengths, limit and number of rules: *)
(* type correctness; the library reports Ok only for what was done; and,   *)
(* until a change is applied and reported as failed, the counter is exact, *)
(* no step grows the namespace past its limit and no insert that fits is   *)
(* refused.                                                                *)
(***************************************************************************)
EXTENDS Storage, FiniteSetTheorems, TLAPS

(* An entry occupies as many cells as it has bytes. *)
LEMMA CellsOfEntry ==
    ASSUME NEW k \in Keys, NEW v \in Value
    PROVE  /\ Bytes(k, v) \in Nat
           /\ IsFiniteSet(Cells(k, v))
           /\ Cardinality(Cells(k, v)) = Bytes(k, v)
<1>1. Bytes(k, v) \in Nat
  BY StorageAssumption DEF Bytes, Value, Length
<1>2. IsFiniteSet(1..Bytes(k, v)) /\ Cardinality(1..Bytes(k, v)) = Bytes(k, v)
  <2>1. /\ IsFiniteSet(1..Bytes(k, v))
        /\ Cardinality(1..Bytes(k, v)) =
             IF 1 > Bytes(k, v) THEN 0 ELSE Bytes(k, v) - 1 + 1
    BY <1>1, FS_Interval
  <2> QED BY <1>1, <2>1
<1>3. IsFiniteSet({k}) /\ Cardinality({k}) = 1
  BY FS_Singleton
<1>4. /\ IsFiniteSet(Cells(k, v))
      /\ Cardinality(Cells(k, v)) = Cardinality({k}) * Cardinality(1..Bytes(k, v))
  BY <1>2, <1>3, FS_Product DEF Cells
<1> QED BY <1>1, <1>2, <1>3, <1>4

(* The cells of some of the entries are finitely many. *)
LEMMA CellsAreFinite ==
    ASSUME NEW s \in [Keys -> Value], NEW K \in SUBSET Keys
    PROVE  IsFiniteSet(UNION {Cells(k, s[k]) : k \in K})
<1> DEFINE T == {Cells(k, s[k]) : k \in K}
           f == [k \in K |-> Cells(k, s[k])]
<1>1. IsFiniteSet(K)
  BY StorageAssumption, FS_Subset
<1>2. f \in Surjection(K, T)
  BY DEF Surjection
<1>3. IsFiniteSet(T)
  <2> HIDE DEF f, T
  <2> QED BY <1>1, <1>2, FS_Surjection
<1>4. \A C \in T : IsFiniteSet(C)
  BY CellsOfEntry
<1> QED BY <1>3, <1>4, FS_UNION

(* Replacing one entry changes the size of the namespace by the difference *)
(* of the two entries.                                                     *)
LEMMA ReplaceEntry ==
    ASSUME NEW s \in [Keys -> Value], NEW k \in Keys, NEW v \in Value
    PROVE  /\ [s EXCEPT ![k] = v] \in [Keys -> Value]
           /\ ByteSize(s) \in Nat
           /\ ByteSize([s EXCEPT ![k] = v]) \in Nat
           /\ ByteSize(s) >= Bytes(k, s[k])
           /\ ByteSize([s EXCEPT ![k] = v]) =
                ByteSize(s) - Bytes(k, s[k]) + Bytes(k, v)
<1> DEFINE R == UNION {Cells(j, s[j]) : j \in Keys \ {k}}
           t == [s EXCEPT ![k] = v]
<1>1. IsFiniteSet(R)
  <2>1. Keys \ {k} \in SUBSET Keys
    OBVIOUS
  <2> QED BY <2>1, CellsAreFinite
<1>2. ASSUME NEW x \in Value
      PROVE  /\ Cardinality(R \cup Cells(k, x)) = Cardinality(R) + Bytes(k, x)
             /\ Cardinality(R) \in Nat
  <2>1. R \cap Cells(k, x) = {}
    BY DEF Cells
  <2>2. Cardinality(R \cap Cells(k, x)) = 0
    BY <2>1, FS_EmptySet
  <2>3. Cardinality(R) \in Nat
    BY <1>1, FS_CardinalityType
  <2>4. /\ IsFiniteSet(Cells(k, x))
        /\ Cardinality(Cells(k, x)) = Bytes(k, x)
        /\ Bytes(k, x) \in Nat
    BY CellsOfEntry
  <2>5. Cardinality(R \cup Cells(k, x)) =
          Cardinality(R) + Cardinality(Cells(k, x)) - Cardinality(R \cap Cells(k, x))
    <3> HIDE DEF R
    <3> QED BY <1>1, <2>4, FS_Union
  <2> HIDE DEF R
  <2> QED BY <2>2, <2>3, <2>4, <2>5
<1>3. t \in [Keys -> Value] /\ t[k] = v /\ \A j \in Keys \ {k} : t[j] = s[j]
  OBVIOUS
<1>4. AllCells(s) = R \cup Cells(k, s[k])
  BY DEF AllCells
<1>5. AllCells(t) = R \cup Cells(k, v)
  <2>1. ASSUME NEW e \in AllCells(t) PROVE e \in R \cup Cells(k, v)
    <3>1. PICK j \in Keys : e \in Cells(j, t[j])
      BY DEF AllCells
    <3>2. CASE j = k
      BY <3>1, <3>2, <1>3
    <3>3. CASE j # k
      BY <3>1, <3>3, <1>3
    <3> QED BY <3>2, <3>3
  <2>2. ASSUME NEW e \in R \cup Cells(k, v) PROVE e \in AllCells(t)
    <3>1. CASE e \in Cells(k, v)
      BY <3>1, <1>3 DEF AllCells
    <3>2. CASE e \in R
      <4>1. PICK j \in Keys \ {k} : e \in Cells(j, s[j])
        BY <3>2
      <4> QED BY <4>1, <1>3 DEF AllCells
    <3> QED BY <3>1, <3>2
  <2> QED BY <2>1, <2>2
<1>6. s[k] \in Value
  OBVIOUS
<1>7. Bytes(k, s[k]) \in Nat /\ Bytes(k, v) \in Nat
  BY <1>6, CellsOfEntry
<1>8. /\ ByteSize(s) = Cardinality(R) + Bytes(k, s[k])
      /\ ByteSize(t) = Cardinality(R) + Bytes(k, v)
      /\ Cardinality(R) \in Nat
  BY <1>2, <1>4, <1>5, <1>6 DEF ByteSize
<1> HIDE DEF R, t
<1>9. /\ t \in [Keys -> Value]
      /\ ByteSize(s) \in Nat
      /\ ByteSize(t) \in Nat
      /\ ByteSize(s) >= Bytes(k, s[k])
      /\ ByteSize(t) = ByteSize(s) - Bytes(k, s[k]) + Bytes(k, v)
  BY <1>3, <1>7, <1>8
<1> QED BY <1>9 DEF t

(* A namespace holds fewer than 2^64 bytes. *)
LEMMA SizeIsAWord ==
    ASSUME NEW s \in [Keys -> Value]
    PROVE  ByteSize(s) \in 0..Word-1
<1>1. IsFiniteSet(AllCells(s))
  BY CellsAreFinite DEF AllCells
<1>2. ByteSize(s) \in Nat
  BY <1>1, FS_CardinalityType DEF ByteSize
<1> QED BY <1>2, WordAssumption, StorageAssumption

(* ... and so does every entry. *)
LEMMA EntryIsAWord ==
    ASSUME NEW k \in Keys, NEW v \in Value
    PROVE  Bytes(k, v) \in 0..Word-1
<1> DEFINE s == [j \in Keys |-> Absent]
           t == [s EXCEPT ![k] = v]
<1>1. s \in [Keys -> Value]
  BY DEF Value
<1>2. /\ t \in [Keys -> Value]
      /\ ByteSize(s) \in Nat
      /\ ByteSize(s) >= Bytes(k, s[k])
      /\ ByteSize(t) = ByteSize(s) - Bytes(k, s[k]) + Bytes(k, v)
  <2> HIDE DEF s
  <2> QED BY <1>1, ReplaceEntry
<1>3. ByteSize(t) \in 0..Word-1
  <2> HIDE DEF s, t
  <2> QED BY <1>2, SizeIsAWord
<1>4. Bytes(k, s[k]) = 0
  BY DEF Bytes
<1>5. Bytes(k, v) \in Nat
  BY CellsOfEntry
<1> HIDE DEF s, t
<1> QED BY <1>2, <1>3, <1>4, <1>5, StorageAssumption

-----------------------------------------------------------------------------
(* Type correctness *)

(* One call returns, whatever it returns. *)
LEMMA ReturnType ==
    ASSUME TypeOK, NEW c \in Callers, NEW o \in Outcome, Return(c, o)
    PROVE  /\ pc' \in [Callers -> {"idle", "probe", "call", "locked", "apply"}]
           /\ outcome' \in [Callers -> Outcome]
BY DEF TypeOK, Return

(* The arguments of a call have their types. *)
LEMMA CallType ==
    ASSUME TypeOK, NEW c \in Callers
    PROVE  /\ call[c] \in Call
           /\ call[c].key \in Keys
           /\ call[c].len \in Length
           /\ call[c].buf \in Nat
           /\ call[c].wouldBe \in 0..Word-1
           /\ call[c].len \in Value
           /\ Absent \in Value
           /\ Old(c) \in Value
           /\ Put(c) \in [Keys -> Value]
           /\ Remove(c) \in [Keys -> Value]
           /\ \A n : Result(c, n) \in Outcome
<1>1. call[c] \in Call
  BY DEF TypeOK
<1>2. /\ call[c].key \in Keys
      /\ call[c].len \in Length
      /\ call[c].buf \in Nat
      /\ call[c].wouldBe \in 0..Word-1
  BY <1>1 DEF Call
<1>3. call[c].len \in Value /\ Absent \in Value
  BY <1>2 DEF Value
<1>4. Old(c) \in Value /\ Put(c) \in [Keys -> Value] /\ Remove(c) \in [Keys -> Value]
  BY <1>2, <1>3 DEF TypeOK, Old, Put, Remove
<1>5. \A n : Result(c, n) \in Outcome
  BY DEF Result, Outcome
<1> QED BY <1>1, <1>2, <1>3, <1>4, <1>5

(* The arithmetic of the counter stays within a word. *)
LEMMA CounterType ==
    ASSUME TypeOK, NEW c \in Callers
    PROVE  WouldBe(c) \in 0..Word-1 /\ Freed(c) \in 0..Word-1
<1>1. /\ Bytes(call[c].key, Old(c)) \in 0..Word-1
      /\ Bytes(call[c].key, call[c].len) \in 0..Word-1
  BY CallType, EntryIsAWord
<1>2. Bytes(call[c].key, call[c].len) = KeyLen[call[c].key] + call[c].len
  BY CallType, StorageAssumption DEF Bytes, Length
<1>3. KeyLen[call[c].key] \in Nat /\ call[c].len \in Nat
  BY CallType, StorageAssumption DEF Length
<1>4. counter \in 0..Word-1 /\ Word \in Nat
  BY StorageAssumption DEF TypeOK
<1> QED BY <1>1, <1>2, <1>3, <1>4 DEF WouldBe, Freed, Wrap

(* TypeOK is inductive, whichever errors the provider may report. *)
LEMMA TypeStep ==
    TypeOK /\ [Next]_vars => TypeOK'
<1> SUFFICES ASSUME TypeOK, [Next]_vars PROVE TypeOK'
  OBVIOUS
<1> USE DEF Outcome
<1>1. ASSUME NEW c \in Callers, Begin(c) PROVE TypeOK'
  <2>1. PICK kind \in Kinds, k \in Keys, len \in Length :
          call' = [call EXCEPT ![c] =
            [kind |-> kind, key |-> k, len |-> len, buf |-> 0, wouldBe |-> 0]]
    BY <1>1 DEF Begin
  <2>2. 0 \in Length /\ 0 \in 0..Word-1
    <3>1. 0 \in Length
      BY StorageAssumption DEF Length
    <3>2. counter \in 0..Word-1
      BY DEF TypeOK
    <3> QED BY <3>1, <3>2, StorageAssumption
  <2>3. [kind |-> kind, key |-> k, len |-> len, buf |-> 0, wouldBe |-> 0] \in Call
    BY <2>2 DEF Call
  <2>4. call' \in [Callers -> Call]
    BY <2>1, <2>3 DEF TypeOK
  <2> QED BY <1>1, <2>4 DEF TypeOK, Begin
<1>2. ASSUME NEW c \in Callers, Probe(c) PROVE TypeOK'
  <2>1. CASE Return(c, "err") /\ UNCHANGED call
    BY <1>2, <2>1, ReturnType DEF TypeOK, Probe
  <2>2. CASE /\ call' = [call EXCEPT ![c].buf = Found(c)]
             /\ pc' = [pc EXCEPT ![c] = "call"]
             /\ UNCHANGED outcome
    <3>1. Found(c) \in Nat
      <4>1. LengthOf(Old(c)) \in Nat
        BY CallType DEF LengthOf, Value, Length
      <4>2. Cardinality({k \in Keys : store[k] # Absent}) \in Nat
        BY StorageAssumption, FS_Subset, FS_CardinalityType
      <4> QED BY <4>1, <4>2 DEF Found, ListLength
    <3>2. call' \in [Callers -> Call]
      BY <2>2, <3>1 DEF TypeOK, Call
    <3> QED BY <1>2, <2>2, <3>2 DEF TypeOK, Probe
  <2> QED BY <1>2, <2>1, <2>2 DEF Probe
<1>3. ASSUME NEW c \in Callers, Read(c) PROVE TypeOK'
  <2>1. PICK o \in Outcome : Return(c, o)
    BY <1>3, CallType DEF Read
  <2> QED BY <1>3, <2>1, ReturnType DEF TypeOK, Read
<1>4. ASSUME NEW c \in Callers, NotAllowed(c) PROVE TypeOK'
  BY <1>4, ReturnType DEF TypeOK, NotAllowed
<1>5. ASSUME NEW c \in Callers, WriteUnlimited(c) PROVE TypeOK'
  <2>1. PICK o \in Outcome : Return(c, o)
    BY <1>5, CallType DEF WriteUnlimited
  <2>2. store' \in [Keys -> Value]
    BY <1>5, CallType DEF WriteUnlimited, TypeOK
  <2>3. applied' \in [Callers -> BOOLEAN]
    BY <1>5, Zenon DEF WriteUnlimited, TypeOK
  <2> QED BY <1>5, <2>1, <2>2, <2>3, ReturnType DEF TypeOK, WriteUnlimited
<1>6. ASSUME NEW c \in Callers, Lock(c) PROVE TypeOK'
  BY <1>6 DEF TypeOK, Lock
<1>7. ASSUME NEW c \in Callers, CheckLimit(c) PROVE TypeOK'
  <2>1. CASE /\ \E o \in Outcome : Return(c, o)
             /\ Unlock(c)
             /\ UNCHANGED call
    BY <1>7, <2>1, ReturnType DEF TypeOK, CheckLimit, Unlock
  <2>2. CASE /\ call' = [call EXCEPT ![c].wouldBe = WouldBe(c)]
             /\ pc' = [pc EXCEPT ![c] = "apply"]
             /\ UNCHANGED <<lock, outcome, refused>>
    <3>1. call' \in [Callers -> Call]
      BY <2>2, CounterType DEF TypeOK, Call
    <3> QED BY <1>7, <2>2, <3>1 DEF TypeOK, CheckLimit
  <2> QED BY <1>7, <2>1, <2>2 DEF CheckLimit
<1>8. ASSUME NEW c \in Callers, Insert(c) PROVE TypeOK'
  <2>1. PICK o \in Outcome : Return(c, o)
    BY <1>8, CallType DEF Insert
  <2>2. store' \in [Keys -> Value]
    BY <1>8, CallType DEF Insert, TypeOK
  <2>3. applied' \in [Callers -> BOOLEAN]
    BY <1>8 DEF Insert, TypeOK
  <2>4. counter' \in 0..Word-1
    BY <1>8, CallType DEF Insert, TypeOK
  <2> QED BY <1>8, <2>1, <2>2, <2>3, <2>4, ReturnType DEF TypeOK, Insert, Unlock
<1>9. ASSUME NEW c \in Callers, Delete(c) PROVE TypeOK'
  <2>1. PICK o \in Outcome : Return(c, o)
    BY <1>9, CallType DEF Delete
  <2>2. store' \in [Keys -> Value]
    BY <1>9, CallType DEF Delete, TypeOK
  <2>3. applied' \in [Callers -> BOOLEAN]
    BY <1>9, Zenon DEF Delete, TypeOK
  <2>4. counter' \in 0..Word-1
    BY <1>9, CounterType DEF Delete, TypeOK
  <2> QED BY <1>9, <2>1, <2>2, <2>3, <2>4, ReturnType DEF TypeOK, Delete, Unlock
<1>10. ASSUME Restart PROVE TypeOK'
  <2>1. store' \in [Keys -> Value]
    BY <1>10 DEF Restart, TypeOK, Value
  <2>2. counter' \in 0..Word-1
    BY <1>10, <2>1, SizeIsAWord DEF Restart
  <2> QED BY <1>10, <2>1, <2>2 DEF Restart, TypeOK
<1>11. CASE UNCHANGED vars
  BY <1>11 DEF vars, TypeOK
<1> QED
  BY <1>1, <1>2, <1>3, <1>4, <1>5, <1>6, <1>7, <1>8, <1>9, <1>10, <1>11
  DEF Next, Step

LEMMA InitType == Init => TypeOK
<1> SUFFICES ASSUME Init PROVE TypeOK
  OBVIOUS
<1>1. counter \in 0..Word-1
  BY SizeIsAWord DEF Init
<1>2. 0 \in Length /\ 0 \in 0..Word-1
  BY <1>1, StorageAssumption DEF Length
<1>3. call \in [Callers -> Call]
  BY <1>2 DEF Init, Call, Kinds
<1> QED BY <1>1, <1>3 DEF Init, TypeOK, Outcome

(* Every variable keeps its type: in particular the u64 arithmetic of the   *)
(* counter never leaves the word, also when answers of the provider are     *)
(* lost and the counter drifts.                                             *)
THEOREM StorageTypes == Spec => []TypeOK
BY InitType, TypeStep, PTL DEF Spec

-----------------------------------------------------------------------------
(* The quota *)

(* The limit of a configuration. *)
LEMMA LimitType ==
    ASSUME TypeOK
    PROVE  Limit \in Nat \cup {Unlimited}
BY StorageAssumption DEF TypeOK, Config, Limit

(* A caller past storage_counter.write() holds the lock. *)
Locked ==
    \A c \in Callers : pc[c] \in {"locked", "apply"} =>
        lock = c /\ Limit # Unlimited

(* Between the check and the insert nothing changes what the check saw. *)
Checked ==
    ~drifted => \A c \in Callers : pc[c] = "apply" =>
        call[c].wouldBe = ByteSize(Put(c)) /\ call[c].wouldBe <= Limit

(* The inductive invariant. *)
QuotaInv == TypeOK /\ Locked /\ Checked /\ CounterIsExact

(* With an exact counter, would_be_used_storage is the size after the       *)
(* insert, and the counter after a delete is the size after it.             *)
LEMMA ExactArithmetic ==
    ASSUME TypeOK, CounterIsExact, Limit # Unlimited, ~drifted, NEW c \in Callers
    PROVE  WouldBe(c) = ByteSize(Put(c)) /\ Freed(c) = ByteSize(Remove(c))
<1>1. /\ store \in [Keys -> Value] /\ call[c].key \in Keys
      /\ call[c].len \in Value /\ Absent \in Value
  BY CallType DEF TypeOK
<1>6. Put(c) \in [Keys -> Value] /\ Remove(c) \in [Keys -> Value]
  BY CallType
<1>0. /\ ByteSize(store) \in Nat
      /\ Bytes(call[c].key, Old(c)) \in Nat
      /\ Bytes(call[c].key, Absent) \in Nat
      /\ Bytes(call[c].key, call[c].len) \in Nat
  BY <1>1, CallType, CellsOfEntry, SizeIsAWord, StorageAssumption
<1>2. ByteSize(Put(c)) = ByteSize(store) - Bytes(call[c].key, Old(c))
                           + Bytes(call[c].key, call[c].len)
  BY <1>1, <1>0, ReplaceEntry DEF Put, Old
<1>3. ByteSize(Remove(c)) = ByteSize(store) - Bytes(call[c].key, Old(c))
                              + Bytes(call[c].key, Absent)
  BY <1>1, <1>0, ReplaceEntry DEF Remove, Old
<1>4. /\ ByteSize(Put(c)) \in 0..Word-1
      /\ ByteSize(Remove(c)) \in 0..Word-1
      /\ ByteSize(store) \in 0..Word-1
  BY <1>1, <1>6, SizeIsAWord
<1>5. /\ Bytes(call[c].key, call[c].len) = KeyLen[call[c].key] + call[c].len
      /\ Bytes(call[c].key, Absent) = 0
      /\ KeyLen[call[c].key] \in Nat /\ call[c].len \in Nat
  BY CallType, StorageAssumption DEF Bytes, Length
<1>7. counter = ByteSize(store)
  BY DEF CounterIsExact
<1>8. /\ counter + KeyLen[call[c].key] + call[c].len - Bytes(call[c].key, Old(c))
           = ByteSize(Put(c))
      /\ counter - Bytes(call[c].key, Old(c)) = ByteSize(Remove(c))
  BY <1>2, <1>3, <1>4, <1>5, <1>0, <1>7
<1>9. \A n \in 0..Word-1 : Wrap(n) = n
  BY StorageAssumption DEF Wrap
<1> QED BY <1>4, <1>8, <1>9 DEF WouldBe, Freed

(* A step that touches neither the data, the counter nor the lock keeps the *)
(* invariant when the callers that hold the lock stay where they are.       *)
LEMMA QuotaFrame ==
    ASSUME QuotaInv, TypeOK', UNCHANGED <<config, store, counter, lock, drifted>>,
           \A c \in Callers : pc'[c] \in {"locked", "apply"} =>
               pc'[c] = pc[c] /\ call'[c] = call[c]
    PROVE  QuotaInv'
<1>0. Limit' = Limit
  BY DEF Limit
<1>1. Locked'
  BY <1>0 DEF QuotaInv, Locked
<1>2. Checked'
  BY <1>0 DEF QuotaInv, Checked, Put
<1>3. CounterIsExact'
  BY <1>0 DEF QuotaInv, CounterIsExact
<1> QED BY <1>1, <1>2, <1>3 DEF QuotaInv

(* The step that gives the lock back, with the data and the counter in      *)
(* agreement unless it made them drift, keeps it, too.                      *)
LEMMA QuotaUnlock ==
    ASSUME QuotaInv, TypeOK', NEW c \in Callers, NEW o, lock = c, Return(c, o),
           drifted' \/ counter' = ByteSize(store')
    PROVE  QuotaInv'
<1>1. \A d \in Callers : pc'[d] \notin {"locked", "apply"}
  <2> SUFFICES ASSUME NEW d \in Callers PROVE pc'[d] \notin {"locked", "apply"}
    OBVIOUS
  <2>1. CASE d = c
    BY <2>1 DEF Return, QuotaInv, TypeOK
  <2>2. CASE d # c
    BY <2>2 DEF Return, QuotaInv, TypeOK, Locked
  <2> QED BY <2>1, <2>2
<1> QED BY <1>1 DEF QuotaInv, Locked, Checked, CounterIsExact

LEMMA QuotaStep ==
    QuotaInv /\ [Next]_vars => QuotaInv'
<1> SUFFICES ASSUME QuotaInv, [Next]_vars PROVE QuotaInv'
  OBVIOUS
<1>0. TypeOK /\ TypeOK'
  BY TypeStep DEF QuotaInv
<1>1. ASSUME NEW c \in Callers,
             Begin(c) \/ Probe(c) \/ Read(c) \/ NotAllowed(c)
      PROVE  QuotaInv'
  <2>1. /\ UNCHANGED <<config, store, counter, lock, drifted>>
        /\ pc'[c] \in {"idle", "probe", "call"}
        /\ \A d \in Callers \ {c} : pc'[d] = pc[d] /\ call'[d] = call[d]
    <3>1. CASE Begin(c)
      BY <3>1, <1>0 DEF Begin, TypeOK
    <3>2. CASE Probe(c)
      BY <3>2, <1>0 DEF Probe, Return, TypeOK
    <3>3. CASE Read(c)
      BY <3>3, <1>0 DEF Read, Return, TypeOK
    <3>4. CASE NotAllowed(c)
      BY <3>4, <1>0 DEF NotAllowed, Return, TypeOK
    <3> QED BY <1>1, <3>1, <3>2, <3>3, <3>4
  <2> QED BY <1>0, <2>1, QuotaFrame
<1>2. ASSUME NEW c \in Callers, WriteUnlimited(c) PROVE QuotaInv'
  <2>1. Limit = Unlimited /\ Limit' = Limit
    BY <1>2 DEF WriteUnlimited, Limit
  <2>2. pc'[c] = "idle" /\ \A d \in Callers \ {c} : pc'[d] = pc[d]
    BY <1>2, <1>0 DEF WriteUnlimited, Return, TypeOK
  <2>3. \A d \in Callers : pc'[d] \notin {"locked", "apply"}
    BY <2>1, <2>2 DEF QuotaInv, Locked
  <2> QED BY <1>0, <2>1, <2>3 DEF QuotaInv, Locked, Checked, CounterIsExact
<1>3. ASSUME NEW c \in Callers, Lock(c) PROVE QuotaInv'
  <2>1. /\ lock = Nobody /\ lock' = c /\ Limit # Unlimited /\ Limit' = Limit
        /\ UNCHANGED <<store, counter, call, drifted>>
        /\ pc'[c] = "locked" /\ \A d \in Callers \ {c} : pc'[d] = pc[d]
    BY <1>3, <1>0 DEF Lock, LockFree, TypeOK, Limit
  <2>2. \A d \in Callers \ {c} : pc'[d] \notin {"locked", "apply"}
    BY <2>1, StorageAssumption DEF QuotaInv, Locked
  <2>3. Locked' /\ Checked'
    BY <2>1, <2>2 DEF Locked, Checked
  <2>4. CounterIsExact'
    BY <2>1 DEF QuotaInv, CounterIsExact
  <2> QED BY <1>0, <2>3, <2>4 DEF QuotaInv
<1>4. ASSUME NEW c \in Callers, CheckLimit(c) PROVE QuotaInv'
  <2>1. /\ lock = c /\ Limit # Unlimited /\ Limit' = Limit
        /\ UNCHANGED <<store, counter, drifted>>
    BY <1>4 DEF CheckLimit, QuotaInv, Locked, Limit
  <2>2. drifted \/ counter = ByteSize(store)
    BY <2>1 DEF QuotaInv, CounterIsExact
  <2>3. CASE Return(c, "err")
    BY <1>0, <2>1, <2>2, <2>3, QuotaUnlock
  <2>4. CASE /\ ~OverLimit(WouldBe(c))
             /\ call' = [call EXCEPT ![c].wouldBe = WouldBe(c)]
             /\ pc' = [pc EXCEPT ![c] = "apply"]
             /\ UNCHANGED <<lock, outcome, refused>>
    <3>1. /\ drifted \/ WouldBe(c) = ByteSize(Put(c))
          /\ WouldBe(c) \in 0..Word-1
          /\ Limit \in Nat
      BY <1>0, <2>1, ExactArithmetic, CounterType, LimitType DEF QuotaInv
    <3>2. /\ call'[c].wouldBe = WouldBe(c)
          /\ call'[c].key = call[c].key
          /\ call'[c].len = call[c].len
      BY <2>4, <1>0 DEF TypeOK, Call
    <3>3. Put(c)' = Put(c)
      BY <2>1, <3>2 DEF Put
    <3>4. /\ drifted \/ call'[c].wouldBe = ByteSize(Put(c)')
          /\ call'[c].wouldBe <= Limit
      BY <2>4, <3>1, <3>2, <3>3, StorageAssumption DEF OverLimit
    <3>5. \A d \in Callers \ {c} : pc'[d] \notin {"locked", "apply"}
      BY <2>1, <2>4, <1>0 DEF QuotaInv, Locked, TypeOK
    <3>6. Locked'
      BY <2>1, <2>4, <3>5 DEF Locked
    <3>7. Checked'
      BY <2>1, <3>4, <3>5 DEF Checked
    <3>8. CounterIsExact'
      BY <2>1, <2>2 DEF CounterIsExact
    <3> QED BY <1>0, <3>6, <3>7, <3>8 DEF QuotaInv
  <2> QED BY <1>4, <2>3, <2>4 DEF CheckLimit
<1>5. ASSUME NEW c \in Callers, Insert(c) PROVE QuotaInv'
  <2>1. /\ lock = c
        /\ drifted \/ /\ call[c].wouldBe = ByteSize(Put(c))
                      /\ counter = ByteSize(store)
    BY <1>5 DEF Insert, QuotaInv, Locked, Checked, CounterIsExact
  <2>2. PICK o : Return(c, o)
    BY <1>5 DEF Insert
  <2>3. drifted' \/ counter' = ByteSize(store')
    BY <1>5, <2>1 DEF Insert
  <2> QED BY <1>0, <2>1, <2>2, <2>3, QuotaUnlock
<1>6. ASSUME NEW c \in Callers, Delete(c) PROVE QuotaInv'
  <2>1. /\ lock = c /\ Limit # Unlimited
        /\ drifted \/ counter = ByteSize(store)
    BY <1>6 DEF Delete, QuotaInv, Locked, CounterIsExact
  <2>2. PICK o : Return(c, o)
    BY <1>6 DEF Delete
  <2>3. drifted \/ Freed(c) = ByteSize(Remove(c))
    BY <1>0, <2>1, ExactArithmetic DEF QuotaInv
  <2>4. drifted' \/ counter' = ByteSize(store')
    BY <1>6, <2>1, <2>3 DEF Delete
  <2> QED BY <1>0, <2>1, <2>2, <2>4, QuotaUnlock
<1>7. ASSUME Restart PROVE QuotaInv'
  BY <1>0, <1>7 DEF Restart, QuotaInv, Locked, Checked, CounterIsExact
<1>8. CASE UNCHANGED vars
  BY <1>0, <1>8, QuotaFrame DEF vars
<1> QED
  BY <1>1, <1>2, <1>3, <1>4, <1>5, <1>6, <1>7, <1>8 DEF Next, Step

LEMMA QuotaInvariance == Spec => []QuotaInv
<1>1. Init => QuotaInv
  <2> SUFFICES ASSUME Init PROVE QuotaInv
    OBVIOUS
  <2>1. TypeOK
    BY InitType
  <2>2. \A c \in Callers : pc[c] = "idle"
    BY DEF Init
  <2> QED BY <2>1, <2>2 DEF Init, QuotaInv, Locked, Checked, CounterIsExact
<1>2. QuotaInv /\ [Next]_vars => QuotaInv'
  BY QuotaStep
<1> QED BY <1>1, <1>2, PTL DEF Spec

(* The counter of a limited namespace is exact, for any number of parallel  *)
(* rules, any keys, values and configurations, until a change is applied    *)
(* and reported as failed, and again after the next start: insert_common    *)
(* and delete_common read, check, write and count under one lock.           *)
THEOREM ExactCounter == Spec => []CounterIsExact
<1>1. QuotaInv => CounterIsExact
  BY DEF QuotaInv
<1> QED BY <1>1, QuotaInvariance, PTL

(* Until then no step grows a limited namespace past its limit. *)
THEOREM QuotaIsKept == Spec => GrowsWithinLimit
<1> DEFINE Grows == Limit # Unlimited /\ ~drifted /\ ByteSize(store') > ByteSize(store)
                      => ByteSize(store') <= Limit
<1>1. QuotaInv /\ [Next]_vars => [Grows]_vars
  <2> SUFFICES ASSUME QuotaInv, Next, Limit # Unlimited, ~drifted,
                      ByteSize(store') > ByteSize(store)
               PROVE  ByteSize(store') <= Limit
    OBVIOUS
  <2>0. /\ store \in [Keys -> Value]
        /\ ByteSize(store) \in Nat
    BY SizeIsAWord, StorageAssumption DEF QuotaInv, TypeOK
  <2>1. store' # store
    BY <2>0
  <2>2. ASSUME NEW c \in Callers, Insert(c) PROVE ByteSize(store') <= Limit
    BY <2>1, <2>2 DEF Insert, QuotaInv, Checked
  <2>3. ASSUME NEW c \in Callers, Delete(c) PROVE FALSE
    <3>1. store' = Remove(c)
      BY <2>1, <2>3 DEF Delete
    <3>2. /\ call[c].key \in Keys /\ Absent \in Value
          /\ Bytes(call[c].key, Old(c)) \in Nat
      BY CallType, CellsOfEntry DEF QuotaInv
    <3>3. ByteSize(Remove(c)) = ByteSize(store) - Bytes(call[c].key, Old(c))
                                  + Bytes(call[c].key, Absent)
      BY <2>0, <3>2, ReplaceEntry DEF Remove, Old
    <3>4. Bytes(call[c].key, Absent) = 0
      BY DEF Bytes
    <3> QED BY <2>0, <3>1, <3>2, <3>3, <3>4
  <2>4. ASSUME Restart PROVE FALSE
    <3>1. store' = [k \in Keys |-> Absent]
      BY <2>1, <2>4 DEF Restart
    <3>2. AllCells(store') = {}
      BY <3>1 DEF AllCells, Cells, Bytes
    <3>3. ByteSize(store') = 0
      BY <3>2, FS_EmptySet DEF ByteSize
    <3> QED BY <2>0, <3>3
  <2>5. ASSUME NEW c \in Callers, Next,
               Begin(c) \/ Probe(c) \/ Read(c) \/ NotAllowed(c)
                 \/ WriteUnlimited(c) \/ Lock(c) \/ CheckLimit(c)
        PROVE  FALSE
    BY <2>1, <2>5
    DEF Begin, Probe, Read, NotAllowed, WriteUnlimited, Lock, CheckLimit
  <2> QED BY <2>2, <2>3, <2>4, <2>5 DEF Next, Step
<1> QED BY <1>1, QuotaInvariance, PTL DEF Spec, GrowsWithinLimit

(* Until then insert_common returns StorageLimitReached only for an entry   *)
(* that does not fit: the counter takes no storage away from a rule.        *)
THEOREM RefusalsAreJustified == Spec => RefusedOnlyWhenFull
<1> DEFINE Justified ==
             \A c \in Callers : refused'[c] /\ ~refused[c] /\ ~drifted
               => ByteSize(Put(c)) > Limit
<1>1. QuotaInv /\ [Next]_vars => [Justified]_vars
  <2> SUFFICES ASSUME QuotaInv, Next, NEW c \in Callers,
                      refused'[c], ~refused[c], ~drifted
               PROVE  ByteSize(Put(c)) > Limit
    BY DEF vars
  <2>0. TypeOK
    BY DEF QuotaInv
  <2>1. PICK d \in Callers : CheckLimit(d)
    BY <2>0 DEF Next, Step, Begin, Probe, Read, NotAllowed, WriteUnlimited, Lock,
                Insert, Delete, Restart, TypeOK
  <2>2. /\ refused' = [refused EXCEPT ![d] = TRUE]
        /\ OverLimit(WouldBe(d))
    BY <2>1 DEF CheckLimit
  <2>3. d = c
    BY <2>0, <2>2 DEF TypeOK
  <2>4. Limit # Unlimited
    BY <2>1 DEF CheckLimit, QuotaInv, Locked
  <2>5. WouldBe(c) = ByteSize(Put(c))
    BY <2>0, <2>4, ExactArithmetic DEF QuotaInv
  <2> QED BY <2>2, <2>3, <2>5 DEF OverLimit
<1> QED BY <1>1, QuotaInvariance, PTL DEF Spec, RefusedOnlyWhenFull

(* Until then the subtraction of insert_common never goes below zero. *)
THEOREM NoUnderflow == Spec => []NeverUnderflows
<1>1. QuotaInv => NeverUnderflows
  <2> SUFFICES ASSUME QuotaInv, Limit # Unlimited, ~drifted, NEW k \in Keys
               PROVE  counter >= Bytes(k, store[k])
    BY DEF NeverUnderflows
  <2>1. store \in [Keys -> Value] /\ Absent \in Value /\ counter = ByteSize(store)
    BY DEF QuotaInv, TypeOK, CounterIsExact, Value
  <2>2. ByteSize(store) >= Bytes(k, store[k])
    BY <2>1, ReplaceEntry
  <2> QED BY <2>1, <2>2
<1> QED BY <1>1, QuotaInvariance, PTL

-----------------------------------------------------------------------------
(* What Ok tells the rule *)

(* A call that has not returned has reported nothing. *)
Silent == \A c \in Callers : pc[c] # "idle" => outcome[c] = "none"

DoneInv == TypeOK /\ Silent /\ OkMeansDone

(* The calls of the other rules are not disturbed by a step of c. *)
LEMMA DoneFrame ==
    ASSUME DoneInv, TypeOK', NEW c \in Callers,
           \A d \in Callers \ {c} : /\ pc'[d] = pc[d] /\ outcome'[d] = outcome[d]
                                    /\ call'[d] = call[d] /\ applied'[d] = applied[d],
           pc'[c] # "idle" => outcome'[c] = "none",
           outcome'[c] = "ok" /\ Writes(c)' => applied'[c]
    PROVE  DoneInv'
<1>1. Silent'
  BY DEF DoneInv, Silent
<1>2. ASSUME NEW d \in Callers, outcome'[d] = "ok" /\ Writes(d)' PROVE applied'[d]
  <2>1. CASE d = c
    BY <1>2, <2>1
  <2>2. CASE d # c
    BY <1>2, <2>2 DEF DoneInv, OkMeansDone, Writes
  <2> QED BY <2>1, <2>2
<1>3. OkMeansDone'
  BY <1>2 DEF OkMeansDone
<1> QED BY <1>1, <1>3 DEF DoneInv

(* A delete that found nothing cannot copy back a value with content. *)
LEMMA NothingToCopy ==
    ASSUME TypeOK, NEW c \in Callers, Old(c) = Absent, call[c].buf > 0
    PROVE  Result(c, WriteBack(LengthOf(Old(c)), call[c].buf)) = "err"
<1>1. call[c].buf \in Nat
  BY CallType
<1>2. LengthOf(Old(c)) = 0
  BY DEF LengthOf
<1>3. WriteBack(0, call[c].buf) = 0
  BY <1>1 DEF WriteBack
<1> QED BY <1>1, <1>2, <1>3 DEF Result

LEMMA DoneStep ==
    ASSUME DoneInv, [Next]_vars
    PROVE  DoneInv'
<1>0. TypeOK /\ TypeOK'
  BY TypeStep DEF DoneInv
<1>1. ASSUME NEW c \in Callers, Begin(c) PROVE DoneInv'
  <2>1. outcome'[c] = "none"
    BY <1>0, <1>1 DEF Begin, TypeOK
  <2>2. \A d \in Callers \ {c} : /\ pc'[d] = pc[d] /\ outcome'[d] = outcome[d]
                                  /\ call'[d] = call[d] /\ applied'[d] = applied[d]
    BY <1>0, <1>1 DEF Begin, TypeOK
  <2> QED BY <1>0, <2>1, <2>2, DoneFrame
<1>2. ASSUME NEW c \in Callers, Probe(c) \/ Lock(c) \/ CheckLimit(c) PROVE DoneInv'
  <2>1. /\ pc'[c] # "idle" => outcome'[c] = "none"
        /\ outcome'[c] # "ok"
    BY <1>0, <1>2 DEF Probe, Lock, CheckLimit, Return, TypeOK, DoneInv, Silent
  <2>2. \A d \in Callers \ {c} : /\ pc'[d] = pc[d] /\ outcome'[d] = outcome[d]
                                  /\ call'[d] = call[d] /\ applied'[d] = applied[d]
    BY <1>0, <1>2 DEF Probe, Lock, CheckLimit, Return, TypeOK
  <2> QED BY <1>0, <2>1, <2>2, DoneFrame
<1>3. ASSUME NEW c \in Callers, Read(c) \/ NotAllowed(c) PROVE DoneInv'
  <2>1. /\ pc'[c] = "idle" /\ UNCHANGED call
        /\ outcome'[c] = "ok" => ~Writes(c)
    BY <1>0, <1>3 DEF Read, NotAllowed, Return, TypeOK
  <2>2. \A d \in Callers \ {c} : /\ pc'[d] = pc[d] /\ outcome'[d] = outcome[d]
                                  /\ call'[d] = call[d] /\ applied'[d] = applied[d]
    BY <1>0, <1>3 DEF Read, NotAllowed, Return, TypeOK
  <2>3. Writes(c)' <=> Writes(c)
    BY <2>1 DEF Writes
  <2> QED BY <1>0, <2>1, <2>2, <2>3, DoneFrame
<1>4. ASSUME NEW c \in Callers, NEW o \in Outcome, NEW b \in BOOLEAN,
             Return(c, o), UNCHANGED call,
             applied' = [applied EXCEPT ![c] = b],
             o = "ok" /\ Writes(c) => b
      PROVE  DoneInv'
  <2>1. pc'[c] = "idle" /\ outcome'[c] = o /\ applied'[c] = b
    BY <1>0, <1>4 DEF Return, TypeOK
  <2>2. \A d \in Callers \ {c} : /\ pc'[d] = pc[d] /\ outcome'[d] = outcome[d]
                                  /\ call'[d] = call[d] /\ applied'[d] = applied[d]
    BY <1>0, <1>4 DEF Return, TypeOK
  <2>3. Writes(c)' <=> Writes(c)
    BY <1>4 DEF Writes
  <2> QED BY <1>0, <1>4, <2>1, <2>2, <2>3, DoneFrame
<1>5. ASSUME NEW c \in Callers, WriteUnlimited(c) \/ Insert(c) \/ Delete(c) PROVE DoneInv'
  <2> DEFINE r == Result(c, WriteBack(LengthOf(Old(c)), call[c].buf))
  <2>1. UNCHANGED call /\ r \in Outcome
    BY <1>0, <1>5, CallType DEF WriteUnlimited, Insert, Delete
  <2>2. CASE Return(c, r) /\ applied' = [applied EXCEPT ![c] = TRUE]
    BY <2>1, <2>2, <1>4
  <2>3. CASE /\ Return(c, r) /\ applied' = [applied EXCEPT ![c] = Old(c) # Absent]
             /\ call[c].kind # "insert"
    <3>1. r = "ok" /\ Writes(c) => Old(c) # Absent
      BY <1>0, <2>3, NothingToCopy DEF Writes
    <3>2. (Old(c) # Absent) \in BOOLEAN
      OBVIOUS
    <3> HIDE DEF r
    <3> QED BY <2>1, <2>3, <3>1, <3>2, <1>4
  <2>4. CASE Return(c, "err") /\ UNCHANGED applied
    <3>1. applied' = [applied EXCEPT ![c] = applied[c]] /\ applied[c] \in BOOLEAN
      BY <1>0, <2>4 DEF TypeOK
    <3> QED BY <2>1, <2>4, <3>1, <1>4 DEF Outcome
  <2>5. ASSUME NEW b \in BOOLEAN, Return(c, "err"), applied' = [applied EXCEPT ![c] = b]
        PROVE  DoneInv'
    BY <2>1, <2>5, <1>4 DEF Outcome
  <2> QED
    BY <1>5, <2>2, <2>3, <2>4, <2>5 DEF WriteUnlimited, Insert, Delete
<1>6. ASSUME Restart PROVE DoneInv'
  BY <1>0, <1>6 DEF Restart, DoneInv, Silent, OkMeansDone
<1>7. CASE UNCHANGED vars
  BY <1>7 DEF vars, DoneInv, TypeOK, Silent, OkMeansDone, Writes
<1> QED
  BY <1>1, <1>2, <1>3, <1>5, <1>6, <1>7 DEF Next, Step

(* When the client library reports Ok for an insert, or for the delete of  *)
(* a value with content, this call has changed the data: whatever other    *)
(* rules did between the call for the size and the call itself, and        *)
(* whichever calls of the provider failed.                                 *)
THEOREM OkIsTrue == Spec => []OkMeansDone
<1>1. Init => DoneInv
  BY InitType DEF Init, DoneInv, Silent, OkMeansDone
<1>2. DoneInv => OkMeansDone
  BY DEF DoneInv
<1> QED BY <1>1, <1>2, DoneStep, PTL DEF Spec

=============================================================================
