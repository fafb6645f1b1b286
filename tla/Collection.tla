----------------------------- MODULE Collection ------------------------------
(***************************************************************************)
(* A collection of documents (src/db/collection.cpp): the documents lie in *)
(* one array without gaps (Storage, src/db/storage.cpp) and an             *)
(* open-addressed hash table with linear probing and tombstones maps a key *)
(* to the index of its document in that array.                             *)
(*                                                                         *)
(* put is the only operation that is more than one step: a table that is   *)
(* too full is first rebuilt at twice its size, one document per step.  An *)
(* assertion that fails stops the process (pc = "aborted").                *)
(***************************************************************************)
EXTENDS Integers, TLC

CONSTANTS
    Key, Value, \* a document is a key and the rest of its fields
    Null,       \* no key, no value
    Hash,       \* the hash of each key
    MaxHash,    \* the largest hash, 2^64 - 1 in the code
    InitBuckets,\* the size of the first table, 32 in the code
    MaxDocs,    \* bound: no put when there are this many documents
    Guarded     \* do callers avoid the puts that GuardedPut forbids?

ASSUME HashAssumption ==
    /\ MaxHash \in Nat \ {0}
    /\ Hash \in [Key -> 0..MaxHash]
ASSUME SizeAssumption == InitBuckets \in Nat \ {0, 1} /\ MaxDocs \in Nat
ASSUME GuardedAssumption == Guarded \in BOOLEAN
ASSUME NullAssumption == Null \notin Key /\ Null \notin Value

VARIABLES
    m_data,           \* Storage: the documents, stale ones past m_count included
    m_count,          \* Storage: how many documents there are
    m_buckets,        \* the hash table, by slot
    bucket_count,     \* m_buckets.size()
    new_buckets,      \* put: the table being built
    new_bucket_count, \* put: its size
    i,                \* put: the next document to enter into it
    pc,               \* where the current call is
    arg,              \* put: the document to store
    ret               \* the last call that returned, with its result

storage == <<m_data, m_count>>
table   == <<m_buckets, bucket_count>>
rehash  == <<new_buckets, new_bucket_count, i>>
vars    == <<m_data, m_count, m_buckets, bucket_count,
             new_buckets, new_bucket_count, i, pc, arg, ret>>

-----------------------------------------------------------------------------
(* Buckets and documents. *)

EmptyHash     == 0
TombstoneHash == MaxHash

Doc    == [key : Key, value : Value]
NoDoc  == [key |-> Null, value |-> Null]
Bucket == [key_hash : 0..MaxHash, value_index : Nat]

EmptyBucket   == [key_hash |-> EmptyHash, value_index |-> 0]
EmptyTable(n) == [s \in 0..(n - 1) |-> EmptyBucket]

IsFree(b) == b.key_hash \in {EmptyHash, TombstoneHash}

\* The bucket's document has this key.  Hashes are compared before keys.
Matches(b, k) == b.key_hash = Hash[k] /\ m_data[b.value_index].key = k

-----------------------------------------------------------------------------
(* Probing.  The d-th slot a key probes in a table of n buckets.  The code *)
(* masks with n - 1, which is the remainder since n is a power of two.     *)

ProbeSlot(h, n, d) ==
    IF (h % n) + d < n THEN (h % n) + d ELSE (h % n) + d - n

\* Slips a check of this module must notice stand before the definition they
\* change: here put would not compare keys, and find would stop at a tombstone.
PutStopsAtFree(b, k)       == IsFree(b)
FindStopsAtTombstone(b, k) == IsFree(b) \/ Matches(b, k)
PutStops(b, k)  == IsFree(b) \/ Matches(b, k)
FindStops(b, k) == b.key_hash = EmptyHash \/ Matches(b, k)

\* put_internal ends its search at slot s; at no slot if it wraps around.
PutSlot(B, n, k, s) ==
    \E d \in 0..(n - 1) :
        /\ s = ProbeSlot(Hash[k], n, d)
        /\ PutStops(B[s], k)
        /\ \A e \in 0..(d - 1) : ~PutStops(B[ProbeSlot(Hash[k], n, e)], k)

\* find_internal finds the key at slot s; at no slot if it meets an empty
\* bucket or wraps around.
FindSlot(B, n, k, s) ==
    \E d \in 0..(n - 1) :
        /\ s = ProbeSlot(Hash[k], n, d)
        /\ B[s].key_hash # EmptyHash /\ Matches(B[s], k)
        /\ \A e \in 0..(d - 1) : ~FindStops(B[ProbeSlot(Hash[k], n, e)], k)

\* Slip: put_internal claims the bucket without writing the hash.
PutBucketForgetsHash(b, k) ==
    IF IsFree(b) THEN [b EXCEPT !.value_index = m_count] ELSE b

\* What put_internal leaves in the bucket it stopped at, and returns.
PutBucket(b, k) ==
    IF IsFree(b) THEN [key_hash |-> Hash[k], value_index |-> m_count] ELSE b

\* A put of this key would not end where a find of it ends: a tombstone lies
\* on the way to the bucket that holds the key.
Shadowed(k) ==
    \E s, t \in 0..(bucket_count - 1) :
        /\ FindSlot(m_buckets, bucket_count, k, s)
        /\ PutSlot(m_buckets, bucket_count, k, t)
        /\ s # t

\* Slip: the table grows only when it is full.
LoadLimitTooHigh(n) == n + 2

\* size / 1.4, truncated
LoadLimit(n)  == (5 * n) \div 7
NeedsRehash   == m_count + 1 >= LoadLimit(bucket_count)
GrownCount(n) == IF n = 0 THEN InitBuckets ELSE 2 * n

\* The discipline of the callers when Guarded: no put of a shadowed key.
GuardedPut(k) == Guarded => NeedsRehash \/ ~Shadowed(k)

-----------------------------------------------------------------------------
Init ==
    /\ m_data = [j \in {} |-> NoDoc] /\ m_count = 0
    /\ m_buckets = EmptyTable(0) /\ bucket_count = 0
    /\ new_buckets = EmptyTable(0) /\ new_bucket_count = 0 /\ i = 0
    /\ pc = "idle" /\ arg = NoDoc
    /\ ret = [op |-> "none", key |-> Null, value |-> Null, ok |-> TRUE]

\* The current call returns, and its local variables are gone.
Return(op, k, v, ok) ==
    /\ ret' = [op |-> op, key |-> k, value |-> v, ok |-> ok]
    /\ pc' = "idle" /\ arg' = NoDoc
    /\ new_buckets' = EmptyTable(0) /\ new_bucket_count' = 0 /\ i' = 0

Abort == pc' = "aborted" /\ UNCHANGED <<storage, table, rehash, arg, ret>>

(***************************************************************************)
(* Collection::put, up to the check of the load factor.                    *)
(***************************************************************************)
PutCall(k, v) ==
    /\ pc = "idle"
    /\ GuardedPut(k)
    /\ m_count < MaxDocs
    /\ arg' = [key |-> k, value |-> v]
    /\ IF NeedsRehash
       THEN /\ pc' = "rehash"
            /\ new_bucket_count' = GrownCount(bucket_count)
            /\ new_buckets' = EmptyTable(GrownCount(bucket_count))
            /\ i' = 0
       ELSE pc' = "insert" /\ UNCHANGED rehash
    /\ UNCHANGED <<storage, table, ret>>

\* Slip: value_index stays what put_internal set.
EnterForgetsIndex(B, s, k) == [B EXCEPT ![s] = PutBucket(@, k)]

\* The bucket put_internal claimed is pointed at document i.
Enter(B, s, k) == [B EXCEPT ![s] = [PutBucket(@, k) EXCEPT !.value_index = i]]

\* One turn of the rehash loop: document i enters the new table.
RehashStep ==
    /\ pc = "rehash" /\ i < m_count
    /\ LET k == m_data[i].key
           Slots == {s \in 0..(new_bucket_count - 1) :
                        PutSlot(new_buckets, new_bucket_count, k, s)}
       IN IF Slots = {}
          THEN /\ Return("put", arg.key, arg.value, FALSE)
               /\ UNCHANGED <<storage, table>>
          ELSE \E s \in Slots :
                 IF PutBucket(new_buckets[s], k).value_index = m_count
                 THEN /\ new_buckets' = Enter(new_buckets, s, k)
                      /\ i' = i + 1
                      /\ UNCHANGED <<storage, table, new_bucket_count, pc, arg, ret>>
                 ELSE Abort

RehashDone ==
    /\ pc = "rehash" /\ i = m_count
    /\ m_buckets' = new_buckets /\ bucket_count' = new_bucket_count
    /\ new_buckets' = EmptyTable(0) /\ new_bucket_count' = 0 /\ i' = 0
    /\ pc' = "insert"
    /\ UNCHANGED <<storage, arg, ret>>

\* Slip: the document is written one place too far.
StoragePutTooFar(doc) ==
    /\ m_data' = [j \in DOMAIN m_data \cup {m_count + 1} |->
                    IF j = m_count + 1 THEN doc ELSE m_data[j]]
    /\ m_count' = m_count + 1

\* Storage::put: the document goes after the last one.
StoragePut(doc) ==
    /\ m_data' = [j \in DOMAIN m_data \cup {m_count} |->
                    IF j = m_count THEN doc ELSE m_data[j]]
    /\ m_count' = m_count + 1

\* Collection::put, the insertion: a new document or an overwritten one.
Insert ==
    /\ pc = "insert"
    /\ LET Slots == {s \in 0..(bucket_count - 1) :
                        PutSlot(m_buckets, bucket_count, arg.key, s)}
       IN IF Slots = {}
          THEN Return("put", arg.key, arg.value, FALSE) /\ UNCHANGED <<storage, table>>
          ELSE \E s \in Slots :
                 LET b == PutBucket(m_buckets[s], arg.key)
                 IN /\ m_buckets' = [m_buckets EXCEPT ![s] = b]
                    /\ IF b.value_index = m_count
                       THEN StoragePut(arg)
                       ELSE /\ m_data' = [m_data EXCEPT ![b.value_index] = arg]
                            /\ UNCHANGED m_count
                    /\ Return("put", arg.key, arg.value, TRUE)
                    /\ UNCHANGED bucket_count

\* Slip: the last document is dropped, not moved.
StorageRemoveLast(x) == m_count' = m_count - 1 /\ UNCHANGED m_data

\* Storage::remove: the last document moves into the gap.
StorageRemove(x) ==
    /\ m_data' = [m_data EXCEPT ![x] = m_data[m_count - 1]]
    /\ m_count' = m_count - 1

\* Slip: the bucket of the last document keeps its old index.
RedirectNothing(t, x) == m_buckets

\* The table of remove before the tombstone: the bucket of the last document
\* (at slot t) is told where that document moves.
Redirect(t, x) == [m_buckets EXCEPT ![t] = [@ EXCEPT !.value_index = x]]

(***************************************************************************)
(* Collection::remove.  The three assertions on its way: the last document *)
(* is in the table, there is a document, the index is one of a document.   *)
(***************************************************************************)
Remove(k) ==
    /\ pc = "idle"
    /\ LET Slots(j) == {s \in 0..(bucket_count - 1) :
                           FindSlot(m_buckets, bucket_count, j, s)}
       IN IF Slots(k) = {}
          THEN Return("remove", k, Null, TRUE) /\ UNCHANGED <<storage, table>>
          ELSE \E s \in Slots(k) :
                 LET x    == m_buckets[s].value_index
                     last == m_data[m_count - 1].key
                 IN IF \/ m_count = 0 \/ x >= m_count
                       \/ x # m_count - 1 /\ Slots(last) = {}
                    THEN Abort
                    ELSE \E B \in IF x = m_count - 1 THEN {m_buckets}
                                  ELSE {Redirect(t, x) : t \in Slots(last)} :
                           /\ m_buckets' = [B EXCEPT ![s] = [@ EXCEPT !.key_hash = TombstoneHash]]
                           /\ StorageRemove(x)
                           /\ Return("remove", k, Null, TRUE)
                           /\ UNCHANGED bucket_count

\* Collection::find
Find(k) ==
    /\ pc = "idle"
    /\ LET Slots == {s \in 0..(bucket_count - 1) :
                        FindSlot(m_buckets, bucket_count, k, s)}
       IN IF Slots = {}
          THEN Return("find", k, Null, TRUE)
          ELSE \E s \in Slots :
                 Return("find", k, m_data[m_buckets[s].value_index].value, TRUE)
    /\ UNCHANGED <<storage, table>>

Next ==
    \/ \E k \in Key, v \in Value : PutCall(k, v)
    \/ RehashStep
    \/ RehashDone
    \/ Insert
    \/ \E k \in Key : Remove(k)
    \/ \E k \in Key : Find(k)

Spec == Init /\ [][Next]_vars

-----------------------------------------------------------------------------
(* Properties. *)

\* Every variable has the shape the code gives it, and the documents counted
\* exist (storage.hpp:28-30, collection.hpp:47-54, the locals of put).
TypeOK ==
    /\ m_count \in Nat /\ i \in Nat
    /\ bucket_count \in Nat /\ new_bucket_count \in Nat
    /\ m_data \in [DOMAIN m_data -> Doc]
    /\ 0..(m_count - 1) \subseteq DOMAIN m_data
    /\ m_buckets \in [0..(bucket_count - 1) -> Bucket]
    /\ new_buckets \in [0..(new_bucket_count - 1) -> Bucket]
    /\ pc \in {"idle", "rehash", "insert", "aborted"}
    /\ arg \in Doc \cup {NoDoc}
    /\ pc \in {"rehash", "insert"} => arg \in Doc
    /\ ret \in [op : {"none", "put", "remove", "find"},
               key : Key \cup {Null}, value : Value \cup {Null}, ok : BOOLEAN]

\* A bucket that find_internal may follow leads to a document that was written:
\* no operation reads storage that was never filled, even in a table that
\* duplicate documents or sentinel hashes have spoilt.
NoWildIndex ==
    /\ \A s \in 0..(bucket_count - 1) :
           m_buckets[s].key_hash # EmptyHash => m_buckets[s].value_index \in DOMAIN m_data
    /\ \A s \in 0..(new_bucket_count - 1) :
           new_buckets[s].key_hash # EmptyHash => new_buckets[s].value_index \in DOMAIN m_data

\* No two documents have the same key: the comment at collection.cpp:75-76
\* counts on it ("there will never be duplicates").
NoDuplicateDocs ==
    \A j, l \in 0..(m_count - 1) : m_data[j].key = m_data[l].key => j = l

\* The table B of n buckets indexes exactly the first m documents: a bucket in
\* use belongs to one of them, no two to the same, and a search for the key of
\* a document ends at the bucket that belongs to it.
Indexes(B, n, m) ==
    /\ \A s \in 0..(n - 1) : ~IsFree(B[s]) =>
           /\ B[s].value_index < m
           /\ B[s].key_hash = Hash[m_data[B[s].value_index].key]
    /\ \A s, t \in 0..(n - 1) :
           ~IsFree(B[s]) /\ ~IsFree(B[t]) /\ B[s].value_index = B[t].value_index => s = t
    /\ \A j \in 0..(m - 1) : \E s \in 0..(n - 1) :
           FindSlot(B, n, m_data[j].key, s) /\ B[s].value_index = j

\* Between two calls, and while a larger table is built beside it, the table
\* indexes exactly the documents, whatever was put, moved by a remove,
\* tombstoned or rehashed before.
IndexInv == Indexes(m_buckets, bucket_count, m_count)

\* The table put builds indexes the documents entered so far, without a
\* tombstone, so that moving it into m_buckets loses no document.
RehashInv ==
    pc = "rehash" =>
        /\ i <= m_count
        /\ Indexes(new_buckets, new_bucket_count, i)
        /\ \A s \in 0..(new_bucket_count - 1) : new_buckets[s].key_hash # TombstoneHash

\* None of the assertions at collection.cpp:78 and 128 and storage.cpp:33-34
\* fails.
NeverAborts == pc # "aborted"

\* put always finds a bucket: its nullptr results (collection.cpp:82, 105), and
\* with them the server's FailedResponse, do not happen.
PutNeverFails == ret.ok

\* A put that has just returned is visible: a search for its key ends at a
\* bucket whose document is the one that was put.
PutIsVisible ==
    pc = "idle" /\ ret.op = "put" /\ ret.ok =>
        \E s \in 0..(bucket_count - 1) :
            /\ FindSlot(m_buckets, bucket_count, ret.key, s)
            /\ m_data[m_buckets[s].value_index] = [key |-> ret.key, value |-> ret.value]

\* The documents as a partial map (the abstraction KVStore is about).
StoredKeys == {m_data[j].key : j \in 0..(m_count - 1)}
StoreView ==
    [k \in StoredKeys |->
        m_data[CHOOSE j \in 0..(m_count - 1) : m_data[j].key = k].value]

KV == INSTANCE KVStore WITH store <- StoreView

\* The table with its probing, tombstones and rehashes behaves as a partial
\* map, call by call and result by result.
ImplementsKVStore == KV!Spec
=============================================================================
