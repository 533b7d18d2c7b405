------------------------------- MODULE Storage -------------------------------
(***************************************************************************)
(* One storage namespace (of a module, or a shared DB) as rules that run   *)
(* in parallel use it: the client library first asks for the size of the   *)
(* value, then calls the host function with a buffer of that size; the     *)
(* host keeps a byte counter, under a lock, to enforce the quota of the    *)
(* namespace, and counts the bytes again when Plaid starts.                *)
(*                                                                         *)
(* Abstractions: a value is its length in bytes; guest memory can always   *)
(* be read; a list of keys is as long as it has keys, plus one.            *)
(***************************************************************************)
EXTENDS Integers, FiniteSets

CONSTANTS
    Callers,       \* the rules (execution threads) that use the namespace
    Configs,       \* the configurations Plaid may be started with
    Keys,          \* the keys in use
    KeyLen,        \* [Keys -> Nat], the length of each key
    MaxLen,        \* bound: length of a value
    Unlimited,     \* LimitValue::Unlimited
    Word,          \* stands for 2^64
    ErrorsBefore,  \* the provider may fail and leave the data alone
    ErrorsAfter,   \* the provider may apply a change and report a failure
    Persistent,    \* is_persistent() of the provider
    Absent,        \* no value
    Nobody         \* not a caller

Length == 0..MaxLen
Value == Length \cup {Absent}

(* What an entry counts for: its key and its value. *)
Bytes(k, v) == IF v = Absent THEN 0 ELSE KeyLen[k] + v

(* get_namespace_byte_size: every byte of every entry. *)
Cells(k, v) == {k} \X (1..Bytes(k, v))
AllCells(s) == UNION {Cells(k, s[k]) : k \in Keys}
ByteSize(s) == Cardinality(AllCells(s))

(* SharedDbConfig: its size_limit, its rw list and its r list.  In the      *)
(* namespace of a module every caller may write.                            *)
Config == [limit: Nat \cup {Unlimited}, rw: SUBSET Callers, r: SUBSET Callers]

ASSUME StorageAssumption ==
    /\ Configs \subseteq Config
    /\ IsFiniteSet(Keys)
    /\ KeyLen \in [Keys -> Nat]
    /\ MaxLen \in Nat
    /\ Unlimited \notin Nat
    /\ Word \in Nat
    /\ {ErrorsBefore, ErrorsAfter, Persistent} \subseteq BOOLEAN
    /\ Absent \notin Nat
    /\ Nobody \notin Callers

(* No database holds 2^64 bytes. *)
ASSUME WordAssumption == \A s \in [Keys -> Value] : ByteSize(s) < Word

VARIABLES
    config,   \* the configuration of the namespace, read when Plaid starts
    store,    \* [Keys -> Value], the namespace in the database
    counter,  \* storage_current / used_storage
    lock,     \* who holds the write lock of the counter
    pc,       \* [Callers -> ...], where each call is
    call,     \* [Callers -> Call], its arguments and locals
    outcome   \* [Callers -> ...], what the last call of the rule returned

(* History variables: they record what happened and guard no action. *)
VARIABLES
    applied,  \* [Callers -> BOOLEAN], the last call changed the store
    refused,  \* [Callers -> BOOLEAN], the host returned StorageLimitReached
    drifted   \* a change under the lock was applied and reported as failed

vars == <<config, store, counter, lock, pc, call, outcome, applied, refused,
          drifted>>

Limit == config.limit
Writers == config.rw
Readers == config.r

Kinds == {"get", "list", "insert", "delete"}

(* buf: the size the first call returned; wouldBe: would_be_used_storage. *)
Call == [kind: Kinds, key: Keys, len: Length, buf: Nat, wouldBe: 0..Word-1]

(* What the client library makes of the code the host function returns: Ok  *)
(* when it is the size it expects, otherwise ReturnBufferTooSmall, whatever *)
(* the code was.                                                            *)
Outcome == {"none", "ok", "err"}

TypeOK ==
    /\ config \in Configs
    /\ store \in [Keys -> Value]
    /\ counter \in 0..Word-1
    /\ lock \in Callers \cup {Nobody}
    /\ pc \in [Callers -> {"idle", "probe", "call", "locked", "apply"}]
    /\ call \in [Callers -> Call]
    /\ outcome \in [Callers -> Outcome]
    /\ applied \in [Callers -> BOOLEAN]
    /\ refused \in [Callers -> BOOLEAN]
    /\ drifted \in BOOLEAN

(* The namespace may hold anything an earlier run of Plaid left. *)
Init ==
    /\ config \in Configs
    /\ store \in [Keys -> Value]
    /\ counter = ByteSize(store)
    /\ lock = Nobody
    /\ pc = [c \in Callers |-> "idle"]
    /\ call \in [Callers -> {[kind |-> "get", key |-> k, len |-> 0, buf |-> 0,
                              wouldBe |-> 0] : k \in Keys}]
    /\ outcome = [c \in Callers |-> "none"]
    /\ applied = [c \in Callers |-> FALSE]
    /\ refused = [c \in Callers |-> FALSE]
    /\ drifted = FALSE

-----------------------------------------------------------------------------
(* Helpers *)

(* u64 arithmetic of the release build. *)
Wrap(x) == IF x < 0 THEN x + Word ELSE IF x >= Word THEN x - Word ELSE x

(* mutant: a key without a value is reported as an error *)
MissingIsError(v) == IF v = Absent THEN -1 ELSE v

LengthOf(v) == IF v = Absent THEN 0 ELSE v

(* list_keys_common: the serialized keys are never empty. *)
ListLength == 1 + Cardinality({k \in Keys : store[k] # Absent})

(* safely_write_data_back: the length of the data, or an error. *)
WriteBack(len, buf) == IF buf = 0 \/ len <= buf THEN len ELSE -1

(* mutant: the client takes any length for the old value *)
AnyAnswerIsOk(c, copied) == IF copied >= 0 THEN "ok" ELSE "err"

(* copied_size == buffer_size in the client library *)
Result(c, copied) == IF copied = call[c].buf THEN "ok" ELSE "err"

Put(c) == [store EXCEPT ![call[c].key] = call[c].len]
Remove(c) == [store EXCEPT ![call[c].key] = Absent]
Old(c) == store[call[c].key]

(* The length of what the provider returns for a get or a list. *)
Found(c) == IF call[c].kind = "list" THEN ListLength ELSE LengthOf(Old(c))

Return(c, o) ==
    /\ pc' = [pc EXCEPT ![c] = "idle"]
    /\ outcome' = [outcome EXCEPT ![c] = o]

(* The guard of the counter goes out of scope. *)
Unlock(c) == lock' = Nobody

-----------------------------------------------------------------------------
(* The client library (plaid_stl::storage) and the reading host functions *)

Begin(c) ==
    /\ pc[c] = "idle"
    /\ pc' = [pc EXCEPT ![c] = "probe"]
    /\ \E kind \in Kinds, k \in Keys, len \in Length :
         /\ kind # "insert" => len = 0
         /\ call' = [call EXCEPT ![c] =
              [kind |-> kind, key |-> k, len |-> len, buf |-> 0, wouldBe |-> 0]]
    /\ outcome' = [outcome EXCEPT ![c] = "none"]
    /\ applied' = [applied EXCEPT ![c] = FALSE]
    /\ refused' = [refused EXCEPT ![c] = FALSE]
    /\ UNCHANGED <<config, store, counter, lock, drifted>>

MayProbe(c) ==
    \/ c \in Writers
    \/ c \in Readers /\ call[c].kind # "delete"

(* The first call, with a buffer of length 0: storage_get,                 *)
(* storage_list_keys or storage_delete, which then only reads.             *)
Probe(c) ==
    /\ pc[c] = "probe"
    /\ \/ /\ MayProbe(c)
          /\ call' = [call EXCEPT ![c].buf = Found(c)]
          /\ pc' = [pc EXCEPT ![c] = "call"]
          /\ UNCHANGED outcome
       \/ /\ ~MayProbe(c) \/ ErrorsBefore
          /\ Return(c, "err")
          /\ UNCHANGED call
    /\ UNCHANGED <<config, store, counter, lock, applied, refused, drifted>>

(* Whether the second call changes data: delete_common still takes a       *)
(* buffer of length 0 for a request of the size.                           *)
Writes(c) ==
    call[c].kind = "insert" \/ (call[c].kind = "delete" /\ call[c].buf > 0)

(* The second call of a get or list, and of a delete of an empty value. *)
Read(c) ==
    /\ pc[c] = "call"
    /\ ~Writes(c)
    /\ \/ Return(c, Result(c, WriteBack(Found(c), call[c].buf)))
       \/ ErrorsBefore /\ Return(c, "err")
    /\ UNCHANGED <<config, store, counter, lock, call, applied, refused, drifted>>

(* insert_shared by a rule that may only read. *)
NotAllowed(c) ==
    /\ pc[c] = "call"
    /\ Writes(c)
    /\ c \notin Writers
    /\ Return(c, "err")
    /\ UNCHANGED <<config, store, counter, lock, call, applied, refused, drifted>>

-----------------------------------------------------------------------------
(* insert_common and delete_common *)

(* LimitValue::Unlimited: no counter, no lock. *)
WriteUnlimited(c) ==
    /\ pc[c] = "call"
    /\ Writes(c) /\ c \in Writers
    /\ Limit = Unlimited
    /\ LET new == IF call[c].kind = "insert" THEN Put(c) ELSE Remove(c)
           changes == call[c].kind = "insert" \/ Old(c) # Absent
       IN  \/ /\ store' = new
              /\ applied' = [applied EXCEPT ![c] = changes]
              /\ Return(c, Result(c, WriteBack(LengthOf(Old(c)), call[c].buf)))
           \/ /\ ErrorsBefore
              /\ Return(c, "err")
              /\ UNCHANGED <<store, applied>>
           \/ /\ ErrorsAfter
              /\ store' = new
              /\ applied' = [applied EXCEPT ![c] = changes]
              /\ Return(c, "err")
    /\ UNCHANGED <<config, counter, lock, call, refused, drifted>>

(* mutant: two rules may hold the lock *)
LockIgnored == TRUE

LockFree == lock = Nobody

(* storage_counter.write() *)
Lock(c) ==
    /\ pc[c] = "call"
    /\ Writes(c) /\ c \in Writers
    /\ Limit # Unlimited
    /\ LockFree
    /\ lock' = c
    /\ pc' = [pc EXCEPT ![c] = "locked"]
    /\ UNCHANGED <<config, store, counter, call, outcome, applied, refused, drifted>>

(* mutant: the key of the overwritten entry is not subtracted *)
ForgetsOldKey(c) ==
    Wrap(counter + KeyLen[call[c].key] + call[c].len - LengthOf(Old(c)))

(* mutant: only the value of the new entry is added *)
ForgetsNewKey(c) == Wrap(counter + call[c].len - Bytes(call[c].key, Old(c)))

(* would_be_used_storage *)
WouldBe(c) ==
    Wrap(counter + KeyLen[call[c].key] + call[c].len - Bytes(call[c].key, Old(c)))

(* mutant: the check is off by one *)
OverByTwo(n) == n > Limit + 1

OverLimit(n) == n > Limit

(* storage.get of the entry to be overwritten, and the check of the limit. *)
(* StorageLimitReached is an error like any other to the client library.   *)
CheckLimit(c) ==
    /\ pc[c] = "locked"
    /\ call[c].kind = "insert"
    /\ \/ /\ OverLimit(WouldBe(c))
          /\ Return(c, "err")
          /\ refused' = [refused EXCEPT ![c] = TRUE]
          /\ Unlock(c)
          /\ UNCHANGED call
       \/ /\ ~OverLimit(WouldBe(c))
          /\ call' = [call EXCEPT ![c].wouldBe = WouldBe(c)]
          /\ pc' = [pc EXCEPT ![c] = "apply"]
          /\ UNCHANGED <<lock, outcome, refused>>
       \/ /\ ErrorsBefore
          /\ Return(c, "err")
          /\ Unlock(c)
          /\ UNCHANGED <<call, refused>>
    /\ UNCHANGED <<config, store, counter, applied, drifted>>

(* storage.insert; the counter follows only when it returns Ok. *)
Insert(c) ==
    /\ pc[c] = "apply"
    /\ \/ /\ store' = Put(c)
          /\ counter' = call[c].wouldBe
          /\ applied' = [applied EXCEPT ![c] = TRUE]
          /\ Return(c, Result(c, WriteBack(LengthOf(Old(c)), call[c].buf)))
          /\ UNCHANGED drifted
       \/ /\ ErrorsBefore
          /\ Return(c, "err")
          /\ UNCHANGED <<store, counter, applied, drifted>>
       \/ /\ ErrorsAfter
          /\ store' = Put(c)
          /\ applied' = [applied EXCEPT ![c] = TRUE]
          /\ drifted' = TRUE
          /\ Return(c, "err")
          /\ UNCHANGED counter
    /\ Unlock(c)
    /\ UNCHANGED <<config, call, refused>>

(* The counter after a delete that returned Ok: Ok(None) frees nothing. *)
Freed(c) == Wrap(counter - Bytes(call[c].key, Old(c)))

Delete(c) ==
    /\ pc[c] = "locked"
    /\ call[c].kind = "delete"
    /\ \/ /\ store' = Remove(c)
          /\ counter' = Freed(c)
          /\ applied' = [applied EXCEPT ![c] = Old(c) # Absent]
          /\ Return(c, Result(c, WriteBack(LengthOf(Old(c)), call[c].buf)))
          /\ UNCHANGED drifted
       \/ /\ ErrorsBefore
          /\ Return(c, "err")
          /\ UNCHANGED <<store, counter, applied, drifted>>
       \/ /\ ErrorsAfter
          /\ store' = Remove(c)
          /\ applied' = [applied EXCEPT ![c] = Old(c) # Absent]
          /\ drifted' = TRUE
          /\ Return(c, "err")
          /\ UNCHANGED counter
    /\ Unlock(c)
    /\ UNCHANGED <<config, call, refused>>

(* Plaid stops at any point and starts again, with the same or another     *)
(* configuration: populate_storage_sizes (of a module) or init_shared_db   *)
(* counts the bytes.                                                       *)
Restart ==
    /\ config' \in Configs
    /\ store' = IF Persistent THEN store ELSE [k \in Keys |-> Absent]
    /\ counter' = ByteSize(store')
    /\ lock' = Nobody
    /\ pc' = [c \in Callers |-> "idle"]
    /\ outcome' = [c \in Callers |-> "none"]
    /\ applied' = [c \in Callers |-> FALSE]
    /\ refused' = [c \in Callers |-> FALSE]
    /\ drifted' = FALSE
    /\ UNCHANGED call

Step(c) ==
    \/ Probe(c) \/ Read(c) \/ NotAllowed(c)
    \/ WriteUnlimited(c)
    \/ Lock(c) \/ CheckLimit(c) \/ Insert(c) \/ Delete(c)

Next == (\E c \in Callers : Begin(c) \/ Step(c)) \/ Restart

Spec == Init /\ [][Next]_vars

-----------------------------------------------------------------------------
(* Properties *)

(* The byte counter of a limited namespace is what the namespace holds,     *)
(* whatever rules insert, overwrite and delete in parallel and whichever    *)
(* provider calls fail.  A change the provider applied and reported as      *)
(* failed makes it drift, until the next start counts the bytes again.      *)
CounterIsExact ==
    Limit # Unlimited /\ ~drifted => counter = ByteSize(store)

(* As long as the counter has not drifted, no step makes a limited          *)
(* namespace grow past its limit.  It may be above it from before, when the *)
(* limit was lowered between two starts.                                    *)
GrowsWithinLimit ==
    [][Limit # Unlimited /\ ~drifted /\ ByteSize(store') > ByteSize(store)
         => ByteSize(store') <= Limit]_vars

(* As long as the counter has not drifted, insert_common returns            *)
(* StorageLimitReached only for an entry that does not fit.  (The rule      *)
(* cannot tell: the client library reports ReturnBufferTooSmall.)           *)
RefusedOnlyWhenFull ==
    [][\A c \in Callers : refused'[c] /\ ~refused[c] /\ ~drifted
         => ByteSize(Put(c)) > Limit]_vars

(* When the client library returns Ok, the insert, or the delete of a value *)
(* with content, has been done by this very call.                           *)
OkMeansDone ==
    \A c \in Callers : outcome[c] = "ok" /\ Writes(c) => applied[c]

(* "no problem with underflowing because the result will never be negative  *)
(* (since *storage_current >= existing_data_size)" (insert_common): so it   *)
(* is, as long as the counter has not drifted.                              *)
NeverUnderflows ==
    Limit # Unlimited /\ ~drifted =>
        \A k \in Keys : counter >= Bytes(k, store[k])

=============================================================================
