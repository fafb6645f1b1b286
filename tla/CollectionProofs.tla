-------------------------- MODULE CollectionProofs ---------------------------
(***************************************************************************)
(* Theorems about Collection, for every set of keys, hash function and     *)
(* table size: its types; that the hash table indexes the documents; and   *)
(* that a collection is a map.                                             *)
(***************************************************************************)
EXTENDS Collection, FiniteSets, FiniteSetTheorems, WellFoundedInduction, TLAPS

-----------------------------------------------------------------------------
(* Types.                                                                  *)

TypeInv == TypeOK /\ NoWildIndex

LEMMA EmptyTableType ==
    ASSUME NEW n \in Nat
    PROVE  /\ EmptyTable(n) \in [0..(n - 1) -> Bucket]
           /\ \A s \in 0..(n - 1) : EmptyTable(n)[s].key_hash = EmptyHash
  BY HashAssumption DEF EmptyTable, EmptyBucket, EmptyHash, Bucket

LEMMA PutBucketType ==
    ASSUME NEW b \in Bucket, NEW k \in Key, m_count \in Nat
    PROVE  /\ PutBucket(b, k) \in Bucket
           /\ IsFree(b) => PutBucket(b, k).value_index = m_count
           /\ ~IsFree(b) => PutBucket(b, k) = b
  BY HashAssumption DEF PutBucket, Bucket

LEMMA InitType == Init => TypeInv
  <1> SUFFICES ASSUME Init PROVE TypeInv
    OBVIOUS
  <1>1. EmptyTable(0) \in [0..(0 - 1) -> Bucket]
    BY EmptyTableType
  <1>2. m_data \in [DOMAIN m_data -> Doc] /\ 0..(m_count - 1) \subseteq DOMAIN m_data
    BY DEF Init
  <1> QED
    BY <1>1, <1>2 DEF Init, TypeInv, TypeOK, NoWildIndex

LEMMA ReturnType ==
    ASSUME NEW op \in {"put", "remove", "find"}, NEW k \in Key,
           NEW v \in Value \cup {Null}, NEW ok \in BOOLEAN, Return(op, k, v, ok)
    PROVE  /\ i' \in Nat /\ new_bucket_count' \in Nat
           /\ new_buckets' \in [0..(new_bucket_count' - 1) -> Bucket]
           /\ pc' = "idle" /\ arg' = NoDoc
           /\ ret' \in [op : {"none", "put", "remove", "find"},
                        key : Key \cup {Null}, value : Value \cup {Null}, ok : BOOLEAN]
           /\ \A s \in 0..(new_bucket_count' - 1) :
                 new_buckets'[s].key_hash # EmptyHash => FALSE
  <1>1. EmptyTable(0) \in [0..(0 - 1) -> Bucket]
    BY EmptyTableType
  <1> QED
    BY <1>1 DEF Return

LEMMA PutCallType ==
    ASSUME TypeInv, NEW k \in Key, NEW v \in Value, PutCall(k, v)
    PROVE  TypeInv'
  <1> DEFINE n == GrownCount(bucket_count)
  <1>1. n \in Nat
    BY SizeAssumption DEF GrownCount, TypeInv, TypeOK
  <1>2. /\ EmptyTable(n) \in [0..(n - 1) -> Bucket]
        /\ \A s \in 0..(n - 1) : EmptyTable(n)[s].key_hash = EmptyHash
    BY <1>1, EmptyTableType
  <1>3. arg' \in Doc
    BY DEF PutCall, Doc
  <1> HIDE DEF n
  <1>4. CASE NeedsRehash
    BY <1>1, <1>2, <1>3, <1>4 DEF PutCall, TypeInv, TypeOK, NoWildIndex, storage, table, n
  <1>5. CASE ~NeedsRehash
    BY <1>3, <1>5 DEF PutCall, TypeInv, TypeOK, NoWildIndex, storage, table, rehash
  <1> QED
    BY <1>4, <1>5

LEMMA AbortType ==
    ASSUME TypeInv, Abort
    PROVE  TypeInv'
  BY DEF Abort, TypeInv, TypeOK, NoWildIndex, storage, table, rehash

LEMMA RehashStepType ==
    ASSUME TypeInv, RehashStep
    PROVE  TypeInv'
  <1> DEFINE k == m_data[i].key
             Slots == {s \in 0..(new_bucket_count - 1) :
                          PutSlot(new_buckets, new_bucket_count, k, s)}
  <1>0. i \in DOMAIN m_data /\ i \in Nat /\ m_count \in Nat
    BY DEF TypeInv, TypeOK, RehashStep
  <1>1. k \in Key
    BY <1>0 DEF TypeInv, TypeOK, Doc
  <1>2. CASE Slots = {}
    <2>1. Return("put", arg.key, arg.value, FALSE) /\ UNCHANGED <<storage, table>>
      BY <1>2 DEF RehashStep
    <2>2. arg.key \in Key /\ arg.value \in Value
      BY DEF RehashStep, TypeInv, TypeOK, Doc
    <2> QED
      BY <2>1, <2>2, ReturnType DEF TypeInv, TypeOK, NoWildIndex, storage, table
  <1>3. CASE Slots # {}
    <2>1. PICK s \in Slots :
             IF PutBucket(new_buckets[s], k).value_index = m_count
             THEN /\ new_buckets' = Enter(new_buckets, s, k)
                  /\ i' = i + 1
                  /\ UNCHANGED <<storage, table, new_bucket_count, pc, arg, ret>>
             ELSE Abort
      BY <1>3 DEF RehashStep
    <2> DEFINE b == [PutBucket(new_buckets[s], k) EXCEPT !.value_index = i]
    <2>2. s \in 0..(new_bucket_count - 1)
      OBVIOUS
    <2> HIDE DEF Slots
    <2>3. b \in Bucket /\ b.value_index = i
      <3>1. PutBucket(new_buckets[s], k) \in Bucket
        BY <1>0, <1>1, <2>2, PutBucketType DEF TypeInv, TypeOK
      <3> QED
        BY <1>0, <3>1 DEF Bucket
    <2>4. ASSUME PutBucket(new_buckets[s], k).value_index = m_count,
                 new_buckets' = Enter(new_buckets, s, k), i' = i + 1,
                 UNCHANGED <<storage, table, new_bucket_count, pc, arg, ret>>
          PROVE  TypeInv'
      <3>1. new_buckets' = [new_buckets EXCEPT ![s] = b]
        BY <2>2, <2>4 DEF TypeInv, TypeOK, Enter
      <3> HIDE DEF b
      <3>2. new_buckets' \in [0..(new_bucket_count - 1) -> Bucket]
        BY <2>2, <2>3, <3>1 DEF TypeInv, TypeOK
      <3>3. TypeOK'
        BY <1>0, <2>4, <3>2 DEF TypeInv, TypeOK, storage, table
      <3>4. \A t \in 0..(new_bucket_count - 1) : new_buckets'[t].key_hash # EmptyHash
               => new_buckets'[t].value_index \in DOMAIN m_data
        BY <1>0, <2>2, <2>3, <3>1 DEF TypeInv, TypeOK, NoWildIndex
      <3> QED
        BY <2>4, <3>3, <3>4 DEF TypeInv, NoWildIndex, storage, table
    <2> QED
      BY <2>1, <2>4, AbortType
  <1> QED
    BY <1>2, <1>3

LEMMA RehashDoneType ==
    ASSUME TypeInv, RehashDone
    PROVE  TypeInv'
  <1>1. EmptyTable(0) \in [0..(0 - 1) -> Bucket]
    BY EmptyTableType
  <1> QED
    BY <1>1 DEF RehashDone, TypeInv, TypeOK, NoWildIndex, storage

LEMMA InsertType ==
    ASSUME TypeInv, Insert
    PROVE  TypeInv'
  <1> DEFINE Slots == {s \in 0..(bucket_count - 1) :
                          PutSlot(m_buckets, bucket_count, arg.key, s)}
  <1>1. arg \in Doc /\ arg.key \in Key /\ arg.value \in Value
    BY DEF Insert, TypeInv, TypeOK, Doc
  <1>2. CASE Slots = {}
    <2>1. Return("put", arg.key, arg.value, FALSE) /\ UNCHANGED <<storage, table>>
      BY <1>2 DEF Insert
    <2> QED
      BY <1>1, <2>1, ReturnType DEF TypeInv, TypeOK, NoWildIndex, storage, table
  <1>3. CASE Slots # {}
    <2>1. PICK s \in Slots :
             LET b == PutBucket(m_buckets[s], arg.key)
             IN /\ m_buckets' = [m_buckets EXCEPT ![s] = b]
                /\ IF b.value_index = m_count
                   THEN StoragePut(arg)
                   ELSE /\ m_data' = [m_data EXCEPT ![b.value_index] = arg]
                        /\ UNCHANGED m_count
                /\ Return("put", arg.key, arg.value, TRUE)
                /\ UNCHANGED bucket_count
      BY <1>3 DEF Insert
    <2>2. s \in 0..(bucket_count - 1)
      OBVIOUS
    <2> HIDE DEF Slots
    <2> DEFINE b == PutBucket(m_buckets[s], arg.key)
    <2>3. /\ b \in Bucket
          /\ b.value_index = m_count \/ (~IsFree(m_buckets[s]) /\ b = m_buckets[s])
      BY <1>1, <2>2, PutBucketType DEF TypeInv, TypeOK
    <2> HIDE DEF b
    <2>4. m_buckets' = [m_buckets EXCEPT ![s] = b]
      BY <2>1 DEF b
    <2>5. m_buckets' \in [0..(bucket_count' - 1) -> Bucket]
      BY <2>1, <2>2, <2>3, <2>4 DEF TypeInv, TypeOK
    <2>6. /\ m_count' \in Nat
          /\ m_data' \in [DOMAIN m_data' -> Doc]
          /\ 0..(m_count' - 1) \subseteq DOMAIN m_data'
          /\ DOMAIN m_data \subseteq DOMAIN m_data'
          /\ b.value_index = m_count => m_count \in DOMAIN m_data'
      <3>1. CASE b.value_index = m_count
        BY <1>1, <2>1, <3>1 DEF TypeInv, TypeOK, StoragePut, b
      <3>2. CASE b.value_index # m_count
        <4>1. m_data' = [m_data EXCEPT ![b.value_index] = arg] /\ UNCHANGED m_count
          BY <2>1, <3>2 DEF b
        <4> QED
          BY <1>1, <4>1, <3>2 DEF TypeInv, TypeOK
      <3> QED
        BY <3>1, <3>2
    <2>7. TypeOK'
      BY <1>1, <2>1, <2>5, <2>6, ReturnType DEF TypeInv, TypeOK
    <2>8. \A t \in 0..(bucket_count' - 1) : m_buckets'[t].key_hash # EmptyHash
             => m_buckets'[t].value_index \in DOMAIN m_data'
      BY <2>1, <2>2, <2>3, <2>4, <2>6 DEF TypeInv, TypeOK, NoWildIndex, IsFree
    <2> QED
      BY <1>1, <2>1, <2>7, <2>8, ReturnType DEF TypeInv, NoWildIndex
  <1> QED
    BY <1>2, <1>3

LEMMA RemoveType ==
    ASSUME TypeInv, NEW k \in Key, Remove(k)
    PROVE  TypeInv'
  <1> DEFINE Slots(j) == {s \in 0..(bucket_count - 1) :
                             FindSlot(m_buckets, bucket_count, j, s)}
  <1>1. CASE Slots(k) = {}
    <2>1. Return("remove", k, Null, TRUE) /\ UNCHANGED <<storage, table>>
      BY <1>1 DEF Remove
    <2> QED
      BY <2>1, ReturnType DEF TypeInv, TypeOK, NoWildIndex, storage, table
  <1>2. CASE Slots(k) # {}
    <2>1. PICK s \in Slots(k) :
             LET x    == m_buckets[s].value_index
                 last == m_data[m_count - 1].key
             IN IF \/ m_count = 0 \/ x >= m_count
                   \/ x # m_count - 1 /\ Slots(last) = {}
                THEN Abort
                ELSE \E B \in IF x = m_count - 1 THEN {m_buckets}
                              ELSE {Redirect(t, x) : t \in Slots(last)} :
                       /\ m_buckets' = [B EXCEPT ![s] = [@ EXCEPT !.key_hash = TombstoneHash]]
                       /\ StorageRemove(x)
                       /\ Return("remove", k, Null, TRUE)
                       /\ UNCHANGED bucket_count
      BY <1>2 DEF Remove
    <2> DEFINE x    == m_buckets[s].value_index
               last == m_data[m_count - 1].key
    <2>2. s \in 0..(bucket_count - 1) /\ x \in Nat
      BY DEF TypeInv, TypeOK, Bucket
    <2>3. ASSUME m_count # 0, x < m_count,
                 NEW B \in IF x = m_count - 1 THEN {m_buckets}
                           ELSE {Redirect(t, x) : t \in Slots(last)},
                 m_buckets' = [B EXCEPT ![s] = [@ EXCEPT !.key_hash = TombstoneHash]],
                 StorageRemove(x), Return("remove", k, Null, TRUE),
                 UNCHANGED bucket_count
          PROVE  TypeInv'
      <3>1. /\ B \in [0..(bucket_count - 1) -> Bucket]
            /\ \A t \in 0..(bucket_count - 1) : B[t].key_hash # EmptyHash
                  => B[t].value_index \in DOMAIN m_data
            /\ B[s].value_index \in DOMAIN m_data
        <4>1. x \in DOMAIN m_data
          BY <2>2, <2>3 DEF TypeInv, TypeOK
        <4>2. CASE x = m_count - 1
          BY <2>2, <2>3, <4>1, <4>2 DEF TypeInv, TypeOK, NoWildIndex
        <4>3. CASE x # m_count - 1
          <5>1. PICK t \in 0..(bucket_count - 1) : B = Redirect(t, x)
            BY <2>3, <4>3
          <5>2. m_buckets[t] \in Bucket
            BY <5>1 DEF TypeInv, TypeOK
          <5>3. [m_buckets[t] EXCEPT !.value_index = x] \in Bucket
            BY <2>2, <5>2 DEF Bucket
          <5>4. B = [m_buckets EXCEPT ![t] = [m_buckets[t] EXCEPT !.value_index = x]]
            BY <5>1 DEF Redirect, TypeInv, TypeOK
          <5> QED
            BY <2>2, <4>1, <5>2, <5>3, <5>4 DEF TypeInv, TypeOK, NoWildIndex, Bucket
        <4> QED
          BY <4>2, <4>3
      <3> DEFINE c == [B[s] EXCEPT !.key_hash = TombstoneHash]
      <3>2. c \in Bucket /\ c.value_index = B[s].value_index
        BY <2>2, <3>1, HashAssumption DEF Bucket, TombstoneHash
      <3>3. m_buckets' = [B EXCEPT ![s] = c]
        BY <2>2, <2>3, <3>1
      <3> HIDE DEF c
      <3>4. m_buckets' \in [0..(bucket_count' - 1) -> Bucket]
        BY <2>2, <2>3, <3>1, <3>2, <3>3
      <3>5. /\ m_count' \in Nat
            /\ m_data' \in [DOMAIN m_data' -> Doc]
            /\ 0..(m_count' - 1) \subseteq DOMAIN m_data'
            /\ DOMAIN m_data' = DOMAIN m_data
        BY <2>2, <2>3 DEF StorageRemove, TypeInv, TypeOK
      <3>6. TypeOK'
        BY <2>3, <3>4, <3>5, ReturnType DEF TypeInv, TypeOK
      <3>7. \A t \in 0..(bucket_count' - 1) : m_buckets'[t].key_hash # EmptyHash
               => m_buckets'[t].value_index \in DOMAIN m_data'
        BY <2>2, <2>3, <3>1, <3>2, <3>3, <3>5 DEF TypeInv, TypeOK
      <3> QED
        BY <2>3, <3>6, <3>7, ReturnType DEF TypeInv, NoWildIndex
    <2>4. m_count \in Nat
      BY DEF TypeInv, TypeOK
    <2> DEFINE Fails == \/ m_count = 0 \/ x >= m_count
                        \/ x # m_count - 1 /\ Slots(last) = {}
    <2>5. CASE Fails
      BY <2>1, <2>5, AbortType
    <2>6. CASE ~Fails
      <3>1. m_count # 0 /\ x < m_count
        BY <2>2, <2>4, <2>6
      <3> HIDE DEF x, last, Slots
      <3> QED
        BY <2>1, <2>3, <2>6, <3>1 DEF x, last
    <2> QED
      BY <2>5, <2>6
  <1> QED
    BY <1>1, <1>2

LEMMA FindType ==
    ASSUME TypeInv, NEW k \in Key, Find(k)
    PROVE  TypeInv'
  <1> DEFINE Slots == {s \in 0..(bucket_count - 1) :
                          FindSlot(m_buckets, bucket_count, k, s)}
  <1>1. UNCHANGED <<storage, table>>
    BY DEF Find
  <1>2. CASE Slots = {}
    <2>1. Return("find", k, Null, TRUE)
      BY <1>2 DEF Find
    <2> QED
      BY <1>1, <2>1, ReturnType DEF TypeInv, TypeOK, NoWildIndex, storage, table
  <1>3. CASE Slots # {}
    <2>1. PICK s \in Slots :
             Return("find", k, m_data[m_buckets[s].value_index].value, TRUE)
      BY <1>3 DEF Find
    <2>2. m_buckets[s].key_hash # EmptyHash
      BY DEF FindSlot
    <2>3. m_data[m_buckets[s].value_index].value \in Value
      BY <2>2 DEF TypeInv, TypeOK, NoWildIndex, Doc
    <2> QED
      BY <1>1, <2>1, <2>3, ReturnType DEF TypeInv, TypeOK, NoWildIndex, storage, table
  <1> QED
    BY <1>2, <1>3

\* Every variable keeps its type and no bucket ever leads to storage that was
\* not written, for any callers and any hash function (TypeOK and NoWildIndex
\* of Collection; collection.cpp:58-224, storage.cpp:18-43).
THEOREM TypeCorrect == Spec => [](TypeOK /\ NoWildIndex)
  <1>1. Init => TypeInv
    BY InitType
  <1>2. TypeInv /\ [Next]_vars => TypeInv'
    <2> SUFFICES ASSUME TypeInv, [Next]_vars
                 PROVE  TypeInv'
      OBVIOUS
    <2>1. ASSUME NEW k \in Key, NEW v \in Value, PutCall(k, v)
          PROVE  TypeInv'
      BY <2>1, PutCallType
    <2>2. CASE RehashStep
      BY <2>2, RehashStepType
    <2>3. CASE RehashDone
      BY <2>3, RehashDoneType
    <2>4. CASE Insert
      BY <2>4, InsertType
    <2>5. ASSUME NEW k \in Key, Remove(k)
          PROVE  TypeInv'
      BY <2>5, RemoveType
    <2>6. ASSUME NEW k \in Key, Find(k)
          PROVE  TypeInv'
      BY <2>6, FindType
    <2>7. CASE UNCHANGED vars
      BY <2>7 DEF vars, TypeInv, TypeOK, NoWildIndex
    <2> QED
      BY <2>1, <2>2, <2>3, <2>4, <2>5, <2>6, <2>7 DEF Next
  <1> QED
    BY <1>1, <1>2, PTL DEF Spec, TypeInv

-----------------------------------------------------------------------------
(* The hash table indexes the documents, for every number of them, when    *)
(* the hash of no key is one of the two sentinels and callers are Guarded. *)
(*                                                                         *)
(* put always finds a bucket: the load limit keeps fewer documents than    *)
(* buckets; buckets in use lead to different documents, so one bucket at   *)
(* least is free, and a probe that visits every slot reaches it.           *)
(*                                                                         *)
(* The lemmas are about a table B of n buckets over a function D from      *)
(* indexes to documents, which stands for the storage before or after a    *)
(* step; Idx is Indexes for such a D.                                      *)

SentinelFree == \A k \in Key : Hash[k] \notin {EmptyHash, TombstoneHash}
ZeroFree     == \A k \in Key : Hash[k] # EmptyHash

MatchesIn(D, b, k)     == b.key_hash = Hash[k] /\ D[b.value_index].key = k
FindStopsIn(D, b, k)   == b.key_hash = EmptyHash \/ MatchesIn(D, b, k)
FindAt(D, B, n, k, s, d) ==
    /\ s = ProbeSlot(Hash[k], n, d)
    /\ B[s].key_hash # EmptyHash /\ MatchesIn(D, B[s], k)
    /\ \A e \in 0..(d - 1) : ~FindStopsIn(D, B[ProbeSlot(Hash[k], n, e)], k)

Sound(D, B, n, m) ==
    \A s \in 0..(n - 1) : ~IsFree(B[s]) =>
        /\ B[s].value_index < m
        /\ B[s].key_hash = Hash[D[B[s].value_index].key]
OneToOne(B, n) ==
    \A s, t \in 0..(n - 1) :
        ~IsFree(B[s]) /\ ~IsFree(B[t]) /\ B[s].value_index = B[t].value_index => s = t
Reaches(D, B, n, m) ==
    \A j \in 0..(m - 1) : \E s \in 0..(n - 1) : \E d \in 0..(n - 1) :
        FindAt(D, B, n, D[j].key, s, d) /\ B[s].value_index = j

Idx(D, B, n, m) == Sound(D, B, n, m) /\ OneToOne(B, n) /\ Reaches(D, B, n, m)

\* The documents of D2 are those of D with one more, of a new key.
OneMore(D, D2, m, k) ==
    /\ \A j \in 0..(m - 1) : D[j].key \in Key /\ D[j].key # k /\ D2[j].key = D[j].key
    /\ D2[m].key = k
\* put_internal passes buckets in use on its way to distance d.
PassesUsed(B, n, k, d) == \A e \in 0..(d - 1) : ~IsFree(B[ProbeSlot(Hash[k], n, e)])

DistinctKeys(D, m) ==
    /\ \A j \in 0..(m - 1) : D[j].key \in Key
    /\ \A j, l \in 0..(m - 1) : D[j].key = D[l].key => j = l
\* The documents of D2 are those of D without the one at x, whose place the last one takes.
OneLess(D, D2, m, x) ==
    \A j \in 0..(m - 2) : D2[j] = IF j = x THEN D[m - 1] ELSE D[j]
\* C is B with a tombstone at s and the bucket of the last document redirected to x.
Dropped(B, C, n, m, s, x) ==
    /\ C[s].key_hash = TombstoneHash
    /\ \A u \in 0..(n - 1) : u # s =>
           /\ C[u].key_hash = B[u].key_hash
           /\ ~IsFree(B[u]) => C[u].value_index =
                 IF B[u].value_index = m - 1 THEN x ELSE B[u].value_index

LEMMA IdxIsIndexes ==
    /\ \A B, n, m : Indexes(B, n, m) <=> Idx(m_data, B, n, m)
    /\ \A B, n, m : Indexes(B, n, m)' <=> Idx(m_data', B', n', m')
  BY DEF Indexes, Idx, Sound, OneToOne, Reaches, FindSlot, FindAt, FindStops, FindStopsIn, Matches, MatchesIn

-----------------------------------------------------------------------------
(* Probing visits slots of the table, each at one distance only.           *)

LEMMA ProbeInTable ==
    ASSUME NEW h \in Nat, NEW n \in Nat, NEW d \in 0..(n - 1)
    PROVE  ProbeSlot(h, n, d) \in 0..(n - 1)
  <1>1. n # 0 /\ (h % n) \in 0..(n - 1)
    OBVIOUS
  <1> DEFINE r == h % n
  <1>2. r \in 0..(n - 1)
    BY <1>1
  <1> HIDE DEF r
  <1>3. (IF r + d < n THEN r + d ELSE r + d - n) \in 0..(n - 1)
    BY <1>2
  <1> QED
    BY <1>3 DEF ProbeSlot, r

LEMMA ProbeOnce ==
    ASSUME NEW h \in Nat, NEW n \in Nat, NEW d \in 0..(n - 1), NEW e \in 0..(n - 1),
           ProbeSlot(h, n, d) = ProbeSlot(h, n, e)
    PROVE  d = e
  <1>1. n # 0 /\ (h % n) \in 0..(n - 1)
    OBVIOUS
  <1> DEFINE r == h % n
  <1>2. r \in 0..(n - 1)
    BY <1>1
  <1> HIDE DEF r
  <1>3. (IF r + d < n THEN r + d ELSE r + d - n) = (IF r + e < n THEN r + e ELSE r + e - n)
    BY DEF ProbeSlot, r
  <1> QED
    BY <1>2, <1>3

-----------------------------------------------------------------------------
(* Tables and documents.                                                   *)

\* A bucket in use is one whose hash is the hash of some key.
LEMMA InUse ==
    ASSUME SentinelFree, NEW b, NEW k \in Key, b.key_hash = Hash[k]
    PROVE  ~IsFree(b) /\ b.key_hash # EmptyHash
  BY DEF SentinelFree, IsFree

\* A search for a key passes a bucket that is in use for another document
\* and a tombstone.
LEMMA SearchPasses ==
    ASSUME SentinelFree, NEW D, NEW b, NEW k \in Key, b.key_hash # EmptyHash,
           IsFree(b) \/ D[b.value_index].key # k
    PROVE  ~FindStopsIn(D, b, k)
  BY DEF SentinelFree, IsFree, FindStopsIn, MatchesIn

\* Only the keys of the documents matter to the table.
LEMMA SameKeys ==
    ASSUME SentinelFree, NEW m \in Nat, NEW n \in Nat,
           NEW B \in [0..(n - 1) -> Bucket], NEW D, NEW D2,
           \A j \in 0..(m - 1) : D[j].key \in Key /\ D2[j].key = D[j].key,
           Idx(D, B, n, m)
    PROVE  Idx(D2, B, n, m)
  <1>1. \A u \in 0..(n - 1) : ~IsFree(B[u]) =>
           /\ B[u].value_index \in 0..(m - 1)
           /\ D2[B[u].value_index].key = D[B[u].value_index].key
    <2> SUFFICES ASSUME NEW u \in 0..(n - 1), ~IsFree(B[u])
                 PROVE  /\ B[u].value_index \in 0..(m - 1)
                        /\ D2[B[u].value_index].key = D[B[u].value_index].key
      OBVIOUS
    <2>1. B[u].value_index < m
      BY DEF Idx, Sound
    <2>2. B[u].value_index \in Nat
      BY DEF Bucket
    <2> QED
      BY <2>1, <2>2
  <1>2. ASSUME NEW j \in 0..(m - 1)
        PROVE  \E s \in 0..(n - 1) : \E d \in 0..(n - 1) :
                  FindAt(D2, B, n, D2[j].key, s, d) /\ B[s].value_index = j
    <2> DEFINE k == D[j].key
    <2>1. k \in Key /\ D2[j].key = k
      OBVIOUS
    <2>2. PICK s \in 0..(n - 1), d \in 0..(n - 1) :
             FindAt(D, B, n, k, s, d) /\ B[s].value_index = j
      BY DEF Idx, Reaches
    <2> HIDE DEF k
    <2>3. ASSUME NEW e \in 0..(d - 1)
          PROVE  ~FindStopsIn(D2, B[ProbeSlot(Hash[k], n, e)], k)
      <3> DEFINE u == ProbeSlot(Hash[k], n, e)
      <3>1. Hash[k] \in Nat /\ e \in 0..(n - 1)
        BY <2>1, HashAssumption
      <3>2. u \in 0..(n - 1)
        BY <3>1, ProbeInTable
      <3>3. ~FindStopsIn(D, B[u], k)
        BY <2>2 DEF FindAt
      <3> HIDE DEF u
      <3>4. ~FindStopsIn(D2, B[u], k)
        BY <1>1, <2>1, <3>2, <3>3 DEF FindStopsIn, MatchesIn, SentinelFree, IsFree
      <3> QED
        BY <3>4 DEF u
    <2>4. MatchesIn(D2, B[s], k)
      BY <1>1, <2>1, <2>2, InUse DEF FindAt, MatchesIn
    <2> QED
      BY <2>1, <2>2, <2>3, <2>4 DEF FindAt
  <1> QED
    BY <1>1, <1>2 DEF Idx, Sound, OneToOne, Reaches

\* put_internal in a table that indexes the first m documents, for a key that
\* none of them has: the table indexes one more.
LEMMA AddDocument ==
    ASSUME SentinelFree, NEW m \in Nat, NEW n \in Nat,
           NEW B \in [0..(n - 1) -> Bucket], NEW D, NEW D2, NEW k \in Key,
           OneMore(D, D2, m, k), Idx(D, B, n, m),
           NEW d \in 0..(n - 1), NEW s, s = ProbeSlot(Hash[k], n, d), IsFree(B[s]),
           PassesUsed(B, n, k, d),
           NEW b, b.key_hash = Hash[k], b.value_index = m
    PROVE  Idx(D2, [B EXCEPT ![s] = b], n, m + 1)
  <1> USE DEF OneMore, PassesUsed
  <1> DEFINE C == [B EXCEPT ![s] = b]
  <1>0. Hash[k] \in Nat
    BY HashAssumption
  <1>1. s \in 0..(n - 1)
    BY <1>0, ProbeInTable
  <1>2. Idx(D2, B, n, m)
    BY SameKeys
  <1>3. C[s] = b /\ \A u \in 0..(n - 1) : u # s => C[u] = B[u]
    BY <1>1
  <1> HIDE DEF C
  <1>4. ~IsFree(b) /\ b.key_hash # EmptyHash
    BY InUse
  <1>5. \A u \in 0..(n - 1) : ~IsFree(B[u]) =>
           /\ B[u].value_index \in 0..(m - 1)
           /\ B[u].key_hash = Hash[D2[B[u].value_index].key]
    <2> SUFFICES ASSUME NEW u \in 0..(n - 1), ~IsFree(B[u])
                 PROVE  /\ B[u].value_index \in 0..(m - 1)
                        /\ B[u].key_hash = Hash[D2[B[u].value_index].key]
      OBVIOUS
    <2>1. B[u].value_index < m /\ B[u].key_hash = Hash[D2[B[u].value_index].key]
      BY <1>2 DEF Idx, Sound
    <2>2. B[u].value_index \in Nat
      BY DEF Bucket
    <2> QED
      BY <2>1, <2>2
  <1>6. \A u \in 0..(n - 1) : ~IsFree(C[u]) =>
           /\ C[u].value_index < m + 1
           /\ C[u].key_hash = Hash[D2[C[u].value_index].key]
    BY <1>3, <1>5
  <1>7. \A u, v \in 0..(n - 1) :
           ~IsFree(C[u]) /\ ~IsFree(C[v]) /\ C[u].value_index = C[v].value_index => u = v
    BY <1>2, <1>3, <1>5 DEF Idx, OneToOne
  <1>8. ASSUME NEW j \in 0..((m + 1) - 1)
        PROVE  \E t \in 0..(n - 1) : \E e \in 0..(n - 1) :
                  FindAt(D2, C, n, D2[j].key, t, e) /\ C[t].value_index = j
    <2>1. CASE j = m
      <3>1. ASSUME NEW e \in 0..(d - 1)
            PROVE  ~FindStopsIn(D2, C[ProbeSlot(Hash[k], n, e)], k)
        <4> DEFINE u == ProbeSlot(Hash[k], n, e)
        <4>0. e \in 0..(n - 1) /\ e # d
          OBVIOUS
        <4>1. u \in 0..(n - 1)
          BY <1>0, <4>0, ProbeInTable
        <4>2. u # s
          BY <1>0, <4>0, ProbeOnce
        <4>3. ~IsFree(B[u])
          OBVIOUS
        <4> HIDE DEF u
        <4>4. D2[B[u].value_index].key # k /\ B[u].key_hash # EmptyHash
          BY <1>5, <4>1, <4>3 DEF IsFree
        <4>5. ~FindStopsIn(D2, C[u], k)
          BY <1>3, <4>1, <4>2, <4>4, SearchPasses
        <4> QED
          BY <4>5 DEF u
      <3>2. FindAt(D2, C, n, k, s, d)
        BY <1>3, <1>4, <3>1 DEF FindAt, MatchesIn
      <3> QED
        BY <1>1, <1>3, <2>1, <3>2
    <2>2. CASE j # m
      <3> DEFINE l == D2[j].key
      <3>1. j \in 0..(m - 1) /\ l \in Key /\ l # k
        BY <2>2
      <3>2. PICK t \in 0..(n - 1), e \in 0..(n - 1) :
               FindAt(D2, B, n, l, t, e) /\ B[t].value_index = j
        BY <1>2, <3>1 DEF Idx, Reaches
      <3> HIDE DEF l
      <3>3. t # s
        <4>1. B[t].key_hash = Hash[l]
          BY <3>2 DEF FindAt, MatchesIn
        <4>2. ~IsFree(B[t])
          BY <3>1, <4>1, InUse
        <4> QED
          BY <4>2
      <3>4. ASSUME NEW c \in 0..(e - 1)
            PROVE  ~FindStopsIn(D2, C[ProbeSlot(Hash[l], n, c)], l)
        <4> DEFINE u == ProbeSlot(Hash[l], n, c)
        <4>1. Hash[l] \in Nat /\ c \in 0..(n - 1)
          BY <3>1, HashAssumption
        <4>2. u \in 0..(n - 1)
          BY <4>1, ProbeInTable
        <4>3. ~FindStopsIn(D2, B[u], l)
          BY <3>2 DEF FindAt
        <4> HIDE DEF u
        <4>4. ~FindStopsIn(D2, b, l)
          BY <1>4, <3>1, SearchPasses
        <4>5. ~FindStopsIn(D2, C[u], l)
          BY <1>3, <4>2, <4>3, <4>4
        <4> QED
          BY <4>5 DEF u
      <3>5. FindAt(D2, C, n, l, t, e) /\ C[t].value_index = j
        BY <1>3, <3>2, <3>3, <3>4 DEF FindAt
      <3> QED
        BY <3>5 DEF l
    <2> QED
      BY <2>1, <2>2
  <1> QED
    BY <1>6, <1>7, <1>8 DEF Idx, Sound, OneToOne, Reaches, C

\* remove: the bucket at s becomes a tombstone, its document is overwritten by
\* the last one, whose bucket is redirected.
LEMMA DropDocument ==
    ASSUME SentinelFree, NEW m \in Nat \ {0}, NEW n \in Nat,
           NEW B \in [0..(n - 1) -> Bucket], NEW C, NEW D, NEW D2,
           DistinctKeys(D, m), Idx(D, B, n, m),
           NEW s \in 0..(n - 1), ~IsFree(B[s]),
           NEW x, x = B[s].value_index,
           OneLess(D, D2, m, x), Dropped(B, C, n, m, s, x)
    PROVE  Idx(D2, C, n, m - 1) /\ DistinctKeys(D2, m - 1)
  <1> USE DEF DistinctKeys, OneLess, Dropped
  <1>0. \A u \in 0..(n - 1) : ~IsFree(B[u]) => B[u].value_index \in 0..(m - 1)
    <2> SUFFICES ASSUME NEW u \in 0..(n - 1), ~IsFree(B[u])
                 PROVE  B[u].value_index \in 0..(m - 1)
      OBVIOUS
    <2>1. B[u].value_index < m
      BY DEF Idx, Sound
    <2>2. B[u].value_index \in Nat
      BY DEF Bucket
    <2> QED
      BY <2>1, <2>2
  <1>1. x \in 0..(m - 1)
    BY <1>0
  <1>2. \A u \in 0..(n - 1) : ~IsFree(C[u]) => u # s /\ ~IsFree(B[u])
    BY DEF IsFree
  <1>3. \A u \in 0..(n - 1) : ~IsFree(B[u]) /\ u # s =>
           /\ B[u].value_index \in 0..(m - 1) /\ B[u].value_index # x
           /\ C[u].value_index \in 0..(m - 2)
           /\ D2[C[u].value_index] = D[B[u].value_index]
           /\ C[u].key_hash = B[u].key_hash
    <2> SUFFICES ASSUME NEW u \in 0..(n - 1), ~IsFree(B[u]), u # s
                 PROVE  /\ B[u].value_index \in 0..(m - 1) /\ B[u].value_index # x
                        /\ C[u].value_index \in 0..(m - 2)
                        /\ D2[C[u].value_index] = D[B[u].value_index]
                        /\ C[u].key_hash = B[u].key_hash
      OBVIOUS
    <2>1. B[u].value_index \in 0..(m - 1) /\ B[u].value_index # x
      BY <1>0 DEF Idx, OneToOne
    <2>2. CASE B[u].value_index = m - 1
      BY <1>1, <2>1, <2>2
    <2>3. CASE B[u].value_index # m - 1
      BY <1>1, <2>1, <2>3
    <2> QED
      BY <2>1, <2>2, <2>3
  <1>4. \A u \in 0..(n - 1) : ~IsFree(C[u]) =>
           /\ C[u].value_index < m - 1
           /\ C[u].key_hash = Hash[D2[C[u].value_index].key]
    BY <1>2, <1>3 DEF Idx, Sound
  <1>5. \A u, v \in 0..(n - 1) :
           ~IsFree(C[u]) /\ ~IsFree(C[v]) /\ C[u].value_index = C[v].value_index => u = v
    BY <1>1, <1>2, <1>3 DEF Idx, OneToOne
  <1>6. ASSUME NEW j \in 0..((m - 1) - 1)
        PROVE  \E t \in 0..(n - 1) : \E e \in 0..(n - 1) :
                  FindAt(D2, C, n, D2[j].key, t, e) /\ C[t].value_index = j
    <2> DEFINE y == IF j = x THEN m - 1 ELSE j
               k == D[y].key
    <2>1. y \in 0..(m - 1) /\ y # x /\ D2[j] = D[y]
      BY <1>1
    <2>2. k \in Key
      BY <2>1
    <2> HIDE DEF y
    <2>3. PICK t \in 0..(n - 1), e \in 0..(n - 1) :
             FindAt(D, B, n, k, t, e) /\ B[t].value_index = y
      BY <2>1 DEF Idx, Reaches
    <2> HIDE DEF k
    <2>4. B[t].key_hash = Hash[k] /\ ~IsFree(B[t]) /\ t # s
      BY <2>1, <2>2, <2>3, InUse DEF FindAt, MatchesIn
    <2>5. C[t].value_index = j
      BY <1>1, <2>3, <2>4 DEF y
    <2>6. ASSUME NEW c \in 0..(e - 1)
          PROVE  ~FindStopsIn(D2, C[ProbeSlot(Hash[k], n, c)], k)
      <3> DEFINE u == ProbeSlot(Hash[k], n, c)
      <3>1. Hash[k] \in Nat /\ c \in 0..(n - 1)
        BY <2>2, HashAssumption
      <3>2. u \in 0..(n - 1)
        BY <3>1, ProbeInTable
      <3>3. ~FindStopsIn(D, B[u], k)
        BY <2>3 DEF FindAt
      <3> HIDE DEF u
      <3>4. ASSUME u = s PROVE ~FindStopsIn(D2, C[u], k)
        <4>1. IsFree(C[u]) /\ C[u].key_hash # EmptyHash
          BY <3>4, HashAssumption DEF IsFree, TombstoneHash, EmptyHash
        <4> QED
          BY <2>2, <4>1, SearchPasses
      <3>5. ASSUME u # s, IsFree(B[u]) PROVE ~FindStopsIn(D2, C[u], k)
        <4>1. IsFree(C[u]) /\ C[u].key_hash # EmptyHash
          BY <3>2, <3>3, <3>5 DEF IsFree, FindStopsIn
        <4> QED
          BY <2>2, <4>1, SearchPasses
      <3>6. ASSUME u # s, ~IsFree(B[u]) PROVE ~FindStopsIn(D2, C[u], k)
        BY <1>3, <3>2, <3>3, <3>6 DEF FindStopsIn, MatchesIn
      <3>7. ~FindStopsIn(D2, C[u], k)
        BY <3>4, <3>5, <3>6
      <3> QED
        BY <3>7 DEF u
    <2>7. FindAt(D2, C, n, k, t, e)
      BY <1>3, <2>3, <2>4, <2>6 DEF FindAt, MatchesIn, FindStopsIn
    <2> QED
      BY <2>1, <2>5, <2>7 DEF k
  <1>7. DistinctKeys(D2, m - 1)
    <2>1. \A j \in 0..((m - 1) - 1) : D2[j].key \in Key
      BY <1>1
    <2>2. \A j, l \in 0..((m - 1) - 1) : D2[j].key = D2[l].key => j = l
      BY <1>1
    <2> QED
      BY <2>1, <2>2
  <1> QED
    BY <1>4, <1>5, <1>6, <1>7 DEF Idx, Sound, OneToOne, Reaches

-----------------------------------------------------------------------------
(* The inductive invariant.  NoDuplicateDocs is not inductive by itself: an *)
(* insertion creates no duplicate because the table reaches every document *)
(* and no tombstone hides it from put, which is what the other parts say.  *)

IndexIInv ==
    /\ TypeInv
    /\ NoDuplicateDocs
    /\ IndexInv
    /\ RehashInv
    /\ NeverAborts
    /\ pc = "insert" => ~Shadowed(arg.key)

\* The parts of IndexIInv about the table and the storage only.
LEMMA NothingStored ==
    ASSUME IndexIInv, UNCHANGED <<storage, table>>, TypeInv',
           pc' = "idle"
    PROVE  IndexIInv'
  BY DEF IndexIInv, NoDuplicateDocs, IndexInv, Indexes, FindSlot, FindStops, Matches,
         RehashInv, NeverAborts, storage, table

LEMMA EmptyTableIdx ==
    ASSUME NEW n \in Nat, NEW D
    PROVE  /\ Idx(D, EmptyTable(n), n, 0)
           /\ \A s \in 0..(n - 1) : EmptyTable(n)[s].key_hash # TombstoneHash
  <1>1. \A s \in 0..(n - 1) : EmptyTable(n)[s].key_hash = EmptyHash
    BY EmptyTableType
  <1>2. \A s \in 0..(n - 1) : IsFree(EmptyTable(n)[s])
    BY <1>1 DEF IsFree
  <1>3. EmptyHash # TombstoneHash
    BY HashAssumption DEF EmptyHash, TombstoneHash
  <1> QED
    BY <1>1, <1>2, <1>3 DEF Idx, Sound, OneToOne, Reaches

LEMMA InitIndex == Init => IndexIInv
  <1> SUFFICES ASSUME Init PROVE IndexIInv
    OBVIOUS
  <1>1. Indexes(m_buckets, bucket_count, m_count)
    BY EmptyTableIdx, IdxIsIndexes DEF Init
  <1> QED
    BY <1>1, InitType DEF Init, IndexIInv, NoDuplicateDocs, IndexInv, RehashInv, NeverAborts

LEMMA PutCallIndex ==
    ASSUME Guarded, IndexIInv, NEW k \in Key, NEW v \in Value, PutCall(k, v)
    PROVE  IndexIInv'
  <1> DEFINE n == GrownCount(bucket_count)
  <1>1. TypeInv'
    BY PutCallType DEF IndexIInv
  <1>2. UNCHANGED <<m_data, m_count, m_buckets, bucket_count>>
    BY DEF PutCall, storage, table
  <1>3. NoDuplicateDocs' /\ IndexInv'
    BY <1>2 DEF IndexIInv, NoDuplicateDocs, IndexInv, Indexes, FindSlot, FindStops, Matches
  <1>4. CASE NeedsRehash
    <2>1. n \in Nat
      BY SizeAssumption DEF GrownCount, IndexIInv, TypeInv, TypeOK
    <2>2. pc' = "rehash" /\ new_bucket_count' = n /\ new_buckets' = EmptyTable(n) /\ i' = 0
      BY <1>4 DEF PutCall
    <2> HIDE DEF n
    <2>3. Indexes(new_buckets, new_bucket_count, i)'
      <3>1. Idx(m_data', new_buckets', new_bucket_count', i')
        BY <2>1, <2>2, EmptyTableIdx
      <3> QED
        BY <3>1 DEF Indexes, Idx, Sound, OneToOne, Reaches, FindSlot, FindAt,
                    FindStops, FindStopsIn, Matches, MatchesIn
    <2>4. RehashInv'
      <3>1. i' <= m_count'
        BY <1>1, <2>2 DEF TypeInv, TypeOK
      <3>2. \A s \in 0..(new_bucket_count' - 1) : new_buckets'[s].key_hash # TombstoneHash
        BY <2>1, <2>2, EmptyTableIdx
      <3> QED
        BY <2>3, <3>1, <3>2 DEF RehashInv
    <2> QED
      BY <1>1, <1>3, <2>2, <2>4 DEF IndexIInv, NeverAborts
  <1>5. CASE ~NeedsRehash
    <2>1. pc' = "insert" /\ arg'.key = k /\ ~Shadowed(k)
      BY <1>5 DEF PutCall, GuardedPut
    <2>2. ~Shadowed(arg.key)'
      BY <1>2, <2>1 DEF Shadowed, FindSlot, PutSlot, FindStops, PutStops, Matches
    <2> QED
      BY <1>1, <1>3, <2>1, <2>2 DEF IndexIInv, NeverAborts, RehashInv
  <1> QED
    BY <1>4, <1>5

LEMMA RehashStepIndex ==
    ASSUME SentinelFree, IndexIInv, RehashStep
    PROVE  IndexIInv'
  <1> DEFINE k == m_data[i].key
             n == new_bucket_count
             Slots == {s \in 0..(n - 1) : PutSlot(new_buckets, n, k, s)}
  <1>0. TypeInv'
    BY RehashStepType DEF IndexIInv
  <1>1. /\ i \in 0..(m_count - 1) /\ i \in Nat /\ m_count \in Nat /\ n \in Nat
        /\ new_buckets \in [0..(n - 1) -> Bucket]
        /\ \A j \in 0..(m_count - 1) : m_data[j].key \in Key
    BY DEF RehashStep, IndexIInv, TypeInv, TypeOK, Doc
  <1>2. k \in Key
    BY <1>1
  <1>3. Idx(m_data, new_buckets, n, i)
    BY IdxIsIndexes DEF RehashStep, IndexIInv, RehashInv
  <1>4. \A j \in 0..(i - 1) : m_data[j].key \in Key /\ m_data[j].key # k
    <2> SUFFICES ASSUME NEW j \in 0..(i - 1)
                 PROVE  m_data[j].key \in Key /\ m_data[j].key # k
      OBVIOUS
    <2>1. j \in 0..(m_count - 1) /\ j # i
      BY <1>1
    <2> QED
      BY <1>1, <2>1 DEF IndexIInv, NoDuplicateDocs
  <1>5. CASE Slots = {}
    <2>1. Return("put", arg.key, arg.value, FALSE) /\ UNCHANGED <<storage, table>>
      BY <1>5 DEF RehashStep
    <2> QED
      BY <1>0, <2>1, NothingStored DEF Return
  <1>6. CASE Slots # {}
    <2>1. PICK s \in Slots :
             IF PutBucket(new_buckets[s], k).value_index = m_count
             THEN /\ new_buckets' = Enter(new_buckets, s, k)
                  /\ i' = i + 1
                  /\ UNCHANGED <<storage, table, new_bucket_count, pc, arg, ret>>
             ELSE Abort
      BY <1>6 DEF RehashStep
    <2>2. s \in 0..(n - 1) /\ PutSlot(new_buckets, n, k, s)
      OBVIOUS
    <2> HIDE DEF k, n, Slots
    <2>3. PICK d \in 0..(n - 1) :
             /\ s = ProbeSlot(Hash[k], n, d)
             /\ PutStops(new_buckets[s], k)
             /\ \A e \in 0..(d - 1) : ~PutStops(new_buckets[ProbeSlot(Hash[k], n, e)], k)
      BY <2>2 DEF PutSlot
    <2>4. IsFree(new_buckets[s])
      <3> SUFFICES ASSUME ~IsFree(new_buckets[s]) PROVE FALSE
        OBVIOUS
      <3>1. new_buckets[s].value_index < i /\ m_data[new_buckets[s].value_index].key = k
        BY <1>3, <2>2, <2>3 DEF Idx, Sound, PutStops, Matches
      <3>2. new_buckets[s].value_index \in Nat
        BY <1>1, <2>2 DEF Bucket
      <3> QED
        BY <1>1, <1>4, <3>1, <3>2
    <2>5. PutBucket(new_buckets[s], k).value_index = m_count
      BY <1>1, <1>2, <2>2, <2>4, PutBucketType
    <2>6. /\ new_buckets' = Enter(new_buckets, s, k) /\ i' = i + 1
          /\ UNCHANGED <<storage, table, new_bucket_count, pc, arg, ret>>
      BY <2>1, <2>5 DEF k
    <2> DEFINE b == [PutBucket(new_buckets[s], k) EXCEPT !.value_index = i]
    <2>7. b.key_hash = Hash[k] /\ b.value_index = i
      BY <2>4 DEF PutBucket
    <2>8. new_buckets' = [new_buckets EXCEPT ![s] = b]
      BY <1>1, <2>2, <2>6 DEF Enter
    <2> HIDE DEF b
    <2>9. Idx(m_data, new_buckets', n, i + 1)
      <3>1. PassesUsed(new_buckets, n, k, d)
        BY <2>3 DEF PutStops, PassesUsed
      <3>2. OneMore(m_data, m_data, i, k)
        BY <1>4 DEF OneMore, k
      <3> QED
        BY <1>1, <1>2, <1>3, <2>3, <2>4, <2>7, <2>8, <3>1, <3>2, AddDocument
    <2>10. UNCHANGED <<m_data, m_count, m_buckets, bucket_count>> /\ n = new_bucket_count'
           /\ pc' = pc
      BY <2>6 DEF storage, table, n
    <2>11. Indexes(new_buckets, new_bucket_count, i)'
      <3>1. Idx(m_data', new_buckets', new_bucket_count', i')
        BY <2>6, <2>9, <2>10
      <3> QED
        BY <3>1 DEF Indexes, Idx, Sound, OneToOne, Reaches, FindSlot, FindAt,
                    FindStops, FindStopsIn, Matches, MatchesIn
    <2>12. \A t \in 0..(new_bucket_count' - 1) : new_buckets'[t].key_hash # TombstoneHash
      BY <1>1, <1>2, <2>2, <2>7, <2>8, <2>10 DEF IndexIInv, RehashInv, RehashStep, SentinelFree, n
    <2>13. RehashInv'
      BY <1>1, <2>6, <2>10, <2>11, <2>12 DEF RehashInv
    <2>14. NoDuplicateDocs' /\ IndexInv'
      BY <2>10 DEF IndexIInv, NoDuplicateDocs, IndexInv, Indexes, FindSlot, FindStops, Matches
    <2> QED
      BY <1>0, <2>10, <2>13, <2>14 DEF IndexIInv, NeverAborts, RehashStep
  <1> QED
    BY <1>5, <1>6

\* In a table without tombstones put and find end at the same bucket.
LEMMA NoTombstoneNoShadow ==
    ASSUME NEW k \in Key, NEW B, NEW n \in Nat,
           \A s \in 0..(n - 1) : B[s].key_hash # TombstoneHash,
           NEW s, NEW t, FindSlot(B, n, k, s), PutSlot(B, n, k, t)
    PROVE  s = t
  <1>1. PICK d \in 0..(n - 1) :
           /\ s = ProbeSlot(Hash[k], n, d)
           /\ Matches(B[s], k)
           /\ \A e \in 0..(d - 1) : ~FindStops(B[ProbeSlot(Hash[k], n, e)], k)
    BY DEF FindSlot
  <1>2. PICK c \in 0..(n - 1) :
           /\ t = ProbeSlot(Hash[k], n, c)
           /\ PutStops(B[t], k)
           /\ \A e \in 0..(c - 1) : ~PutStops(B[ProbeSlot(Hash[k], n, e)], k)
    BY DEF PutSlot
  <1>3. ~(d < c)
    BY <1>1, <1>2 DEF PutStops
  <1>4. ~(c < d)
    <2> SUFFICES ASSUME c < d PROVE FALSE
      OBVIOUS
    <2>1. ~FindStops(B[t], k)
      BY <1>1, <1>2
    <2>2. t \in 0..(n - 1)
      BY <1>2, HashAssumption, ProbeInTable
    <2> QED
      BY <1>2, <2>1, <2>2 DEF FindStops, PutStops, IsFree
  <1> QED
    BY <1>1, <1>2, <1>3, <1>4

LEMMA RehashDoneIndex ==
    ASSUME IndexIInv, RehashDone
    PROVE  IndexIInv'
  <1>1. TypeInv'
    BY RehashDoneType DEF IndexIInv
  <1>2. /\ UNCHANGED <<m_data, m_count, arg>> /\ pc' = "insert"
        /\ m_buckets' = new_buckets /\ bucket_count' = new_bucket_count
    BY DEF RehashDone, storage
  <1>3. /\ Indexes(new_buckets, new_bucket_count, m_count)
        /\ \A s \in 0..(new_bucket_count - 1) : new_buckets[s].key_hash # TombstoneHash
        /\ arg.key \in Key /\ new_bucket_count \in Nat
    BY DEF RehashDone, IndexIInv, RehashInv, TypeInv, TypeOK, Doc
  <1>4. NoDuplicateDocs' /\ IndexInv'
    BY <1>2, <1>3 DEF IndexIInv, NoDuplicateDocs, IndexInv, Indexes, FindSlot, FindStops, Matches
  <1>5. ~Shadowed(arg.key)'
    <2>1. \A s, t \in 0..(new_bucket_count - 1) :
             FindSlot(new_buckets, new_bucket_count, arg.key, s)
             /\ PutSlot(new_buckets, new_bucket_count, arg.key, t) => s = t
      BY <1>3, NoTombstoneNoShadow
    <2> QED
      BY <1>2, <2>1 DEF Shadowed, FindSlot, PutSlot, FindStops, PutStops, Matches
  <1> QED
    BY <1>1, <1>2, <1>4, <1>5 DEF IndexIInv, NeverAborts, RehashInv

LEMMA InsertIndex ==
    ASSUME SentinelFree, IndexIInv, Insert
    PROVE  IndexIInv'
  <1> DEFINE k == arg.key
             n == bucket_count
             Slots == {s \in 0..(n - 1) : PutSlot(m_buckets, n, k, s)}
  <1>0. TypeInv'
    BY InsertType DEF IndexIInv
  <1>1. /\ m_count \in Nat /\ n \in Nat /\ k \in Key
        /\ m_data \in [DOMAIN m_data -> Doc]
        /\ m_buckets \in [0..(n - 1) -> Bucket]
        /\ \A j \in 0..(m_count - 1) : j \in DOMAIN m_data /\ m_data[j].key \in Key
    BY DEF Insert, IndexIInv, TypeInv, TypeOK, Doc
  <1>2. Idx(m_data, m_buckets, n, m_count)
    BY IdxIsIndexes DEF IndexIInv, IndexInv
  <1>3. CASE Slots = {}
    <2>1. Return("put", arg.key, arg.value, FALSE) /\ UNCHANGED <<storage, table>>
      BY <1>3 DEF Insert
    <2> QED
      BY <1>0, <2>1, NothingStored DEF Return
  <1>4. CASE Slots # {}
    <2>1. PICK s \in Slots :
             LET b == PutBucket(m_buckets[s], k)
             IN /\ m_buckets' = [m_buckets EXCEPT ![s] = b]
                /\ IF b.value_index = m_count
                   THEN StoragePut(arg)
                   ELSE /\ m_data' = [m_data EXCEPT ![b.value_index] = arg]
                        /\ UNCHANGED m_count
                /\ Return("put", arg.key, arg.value, TRUE)
                /\ UNCHANGED bucket_count
      BY <1>4 DEF Insert
    <2>2. s \in 0..(n - 1) /\ PutSlot(m_buckets, n, k, s)
      OBVIOUS
    <2> HIDE DEF Slots
    <2>3. PICK d \in 0..(n - 1) :
             /\ s = ProbeSlot(Hash[k], n, d)
             /\ PutStops(m_buckets[s], k)
             /\ \A e \in 0..(d - 1) : ~PutStops(m_buckets[ProbeSlot(Hash[k], n, e)], k)
      BY <2>2 DEF PutSlot
    <2>4. pc' = "idle" /\ bucket_count' = n
      BY <2>1 DEF Return
    <2> DEFINE b == PutBucket(m_buckets[s], k)
    <2>5. NoDuplicateDocs' /\ Idx(m_data', m_buckets', n, m_count')
      <3>1. CASE IsFree(m_buckets[s])
        <4>1. b.key_hash = Hash[k] /\ b.value_index = m_count
          BY <3>1 DEF PutBucket
        <4>2. m_buckets' = [m_buckets EXCEPT ![s] = b] /\ StoragePut(arg)
          BY <2>1, <4>1
        <4> HIDE DEF b, k
        <4>3. /\ m_count' = m_count + 1
              /\ m_data'[m_count].key = k
              /\ \A j \in 0..(m_count - 1) : m_data'[j] = m_data[j]
          BY <1>1, <4>2 DEF StoragePut, k
        <4>4. \A j \in 0..(m_count - 1) : m_data[j].key # k
          <5> SUFFICES ASSUME NEW j \in 0..(m_count - 1), m_data[j].key = k
                       PROVE  FALSE
            OBVIOUS
          <5>1. PICK t \in 0..(n - 1) : FindSlot(m_buckets, n, k, t)
            BY DEF IndexIInv, IndexInv, Indexes
          <5>2. m_buckets[t].key_hash = Hash[k]
            BY <5>1 DEF FindSlot, Matches
          <5>3. t # s
            BY <1>1, <3>1, <5>2, InUse
          <5> QED
            BY <2>2, <5>1, <5>3 DEF Insert, IndexIInv, Shadowed, k
        <4>5. PassesUsed(m_buckets, n, k, d)
          BY <2>3 DEF PutStops, PassesUsed
        <4>6. Idx(m_data', m_buckets', n, m_count + 1)
          <5>1. OneMore(m_data, m_data', m_count, k)
            BY <1>1, <4>3, <4>4 DEF OneMore
          <5>2. k \in Key /\ s = ProbeSlot(Hash[k], n, d)
            BY <1>1, <2>3 DEF k
          <5> QED
            BY <1>1, <1>2, <3>1, <4>1, <4>2, <4>5, <5>1, <5>2, AddDocument
        <4>7. NoDuplicateDocs'
          BY <1>1, <4>3, <4>4 DEF IndexIInv, NoDuplicateDocs
        <4> QED
          BY <4>3, <4>6, <4>7
      <3>2. CASE ~IsFree(m_buckets[s])
        <4> DEFINE x == m_buckets[s].value_index
        <4>1. b = m_buckets[s]
          BY <3>2 DEF PutBucket
        <4>2. Matches(m_buckets[s], k)
          BY <2>3, <3>2 DEF PutStops
        <4>3. x < m_count
          BY <1>2, <2>2, <3>2 DEF Idx, Sound
        <4>4. x \in Nat
          BY <1>1, <2>2 DEF Bucket
        <4>5. x # m_count /\ x \in DOMAIN m_data
          BY <1>1, <4>3, <4>4
        <4>6. /\ m_buckets' = [m_buckets EXCEPT ![s] = m_buckets[s]]
              /\ m_data' = [m_data EXCEPT ![x] = arg] /\ m_count' = m_count
          BY <2>1, <4>1, <4>5
        <4>7. m_buckets' = m_buckets
          BY <1>1, <2>2, <4>6
        <4>8. \A j \in 0..(m_count - 1) : m_data'[j].key = m_data[j].key
          BY <1>1, <4>2, <4>5, <4>6 DEF Matches
        <4>9. Idx(m_data', m_buckets, n, m_count)
          BY <1>1, <1>2, <4>8, SameKeys
        <4>10. NoDuplicateDocs'
          BY <4>6, <4>8 DEF IndexIInv, NoDuplicateDocs
        <4> QED
          BY <4>6, <4>7, <4>9, <4>10
      <3> QED
        BY <3>1, <3>2
    <2>6. IndexInv'
      BY <2>4, <2>5 DEF IndexInv, Indexes, Idx, Sound, OneToOne, Reaches, FindSlot, FindAt,
                        FindStops, FindStopsIn, Matches, MatchesIn
    <2> QED
      BY <1>0, <2>4, <2>5, <2>6 DEF IndexIInv, RehashInv, NeverAborts
  <1> QED
    BY <1>3, <1>4

LEMMA RemoveIndex ==
    ASSUME SentinelFree, IndexIInv, NEW k \in Key, Remove(k)
    PROVE  IndexIInv'
  <1> DEFINE n == bucket_count
             Slots(j) == {s \in 0..(n - 1) : FindSlot(m_buckets, n, j, s)}
  <1>0. TypeInv'
    BY RemoveType DEF IndexIInv
  <1>1. /\ m_count \in Nat /\ n \in Nat
        /\ m_data \in [DOMAIN m_data -> Doc]
        /\ m_buckets \in [0..(n - 1) -> Bucket]
        /\ \A j \in 0..(m_count - 1) : j \in DOMAIN m_data /\ m_data[j].key \in Key
    BY DEF IndexIInv, TypeInv, TypeOK, Doc
  <1>2. Idx(m_data, m_buckets, n, m_count)
    BY IdxIsIndexes DEF IndexIInv, IndexInv
  <1>3. CASE Slots(k) = {}
    <2>1. Return("remove", k, Null, TRUE) /\ UNCHANGED <<storage, table>>
      BY <1>3 DEF Remove
    <2> QED
      BY <1>0, <2>1, NothingStored DEF Return
  <1>4. CASE Slots(k) # {}
    <2>1. PICK s \in Slots(k) :
             LET x    == m_buckets[s].value_index
                 last == m_data[m_count - 1].key
             IN IF \/ m_count = 0 \/ x >= m_count
                   \/ x # m_count - 1 /\ Slots(last) = {}
                THEN Abort
                ELSE \E B \in IF x = m_count - 1 THEN {m_buckets}
                              ELSE {Redirect(t, x) : t \in Slots(last)} :
                       /\ m_buckets' = [B EXCEPT ![s] = [@ EXCEPT !.key_hash = TombstoneHash]]
                       /\ StorageRemove(x)
                       /\ Return("remove", k, Null, TRUE)
                       /\ UNCHANGED bucket_count
      BY <1>4 DEF Remove
    <2> DEFINE x    == m_buckets[s].value_index
               last == m_data[m_count - 1].key
    <2>2. s \in 0..(n - 1) /\ FindSlot(m_buckets, n, k, s)
      OBVIOUS
    <2>3. ~IsFree(m_buckets[s])
      <3>1. m_buckets[s].key_hash = Hash[k]
        BY <2>2 DEF FindSlot, Matches
      <3> QED
        BY <3>1, InUse
    <2>4. x \in 0..(m_count - 1) /\ m_count \in Nat \ {0}
      <3>1. x < m_count
        BY <1>2, <2>2, <2>3 DEF Idx, Sound
      <3>2. x \in Nat
        BY <1>1, <2>2 DEF Bucket
      <3> QED
        BY <1>1, <3>1, <3>2
    <2>5. \E t \in 0..(n - 1) : /\ FindSlot(m_buckets, n, last, t)
                               /\ m_buckets[t].value_index = m_count - 1
      BY <2>4 DEF IndexIInv, IndexInv, Indexes
    <2>6. Slots(last) # {}
      BY <2>5
    <2>7. /\ StorageRemove(x) /\ Return("remove", k, Null, TRUE) /\ UNCHANGED bucket_count
          /\ \E B \in IF x = m_count - 1 THEN {m_buckets}
                      ELSE {Redirect(t, x) : t \in Slots(last)} :
                m_buckets' = [B EXCEPT ![s] = [@ EXCEPT !.key_hash = TombstoneHash]]
      <3>1. ~(m_count = 0 \/ x >= m_count \/ (x # m_count - 1 /\ Slots(last) = {}))
        BY <2>4, <2>6
      <3> HIDE DEF x, last, Slots
      <3> QED
        BY <2>1, <3>1 DEF x, last
    <2>8. Dropped(m_buckets, m_buckets', n, m_count, s, x)
      <3>1. CASE x = m_count - 1
        <4>1. m_buckets' = [m_buckets EXCEPT ![s] = [@ EXCEPT !.key_hash = TombstoneHash]]
          BY <2>7, <3>1
        <4> QED
          BY <1>1, <1>2, <2>2, <2>3, <3>1, <4>1 DEF Idx, OneToOne, Bucket, Dropped
      <3>2. CASE x # m_count - 1
        <4>1. PICK t \in Slots(last) : m_buckets' =
                 [Redirect(t, x) EXCEPT ![s] = [@ EXCEPT !.key_hash = TombstoneHash]]
          BY <2>7, <3>2
        <4>2. t \in 0..(n - 1) /\ FindSlot(m_buckets, n, last, t)
          OBVIOUS
        <4>3. ~IsFree(m_buckets[t]) /\ m_data[m_buckets[t].value_index].key = last
          <5>1. /\ m_buckets[t].key_hash = Hash[last]
                /\ m_data[m_buckets[t].value_index].key = last
            BY <4>2 DEF FindSlot, Matches
          <5>2. last \in Key
            BY <1>1, <2>4
          <5> QED
            BY <5>1, <5>2, InUse
        <4>4. m_buckets[t].value_index = m_count - 1
          <5>1. m_buckets[t].value_index < m_count
            BY <1>2, <4>2, <4>3 DEF Idx, Sound
          <5>2. m_buckets[t].value_index \in Nat
            BY <1>1, <4>2 DEF Bucket
          <5>3. m_buckets[t].value_index \in 0..(m_count - 1) /\ m_count - 1 \in 0..(m_count - 1)
            BY <2>4, <5>1, <5>2
          <5> QED
            BY <4>3, <5>3 DEF IndexIInv, NoDuplicateDocs
        <4>5. t # s
          BY <3>2, <4>4
        <4> HIDE DEF x, last, Slots
        <4>6. m_buckets[t] \in Bucket /\ m_buckets[s] \in Bucket
          BY <1>1, <2>2, <4>2
        <4>7. /\ Redirect(t, x) = [m_buckets EXCEPT
                    ![t] = [m_buckets[t] EXCEPT !.value_index = x]]
              /\ Redirect(t, x)[s] = m_buckets[s]
          BY <1>1, <2>2, <4>2, <4>5 DEF Redirect
        <4>8. m_buckets' = [Redirect(t, x) EXCEPT
                 ![s] = [m_buckets[s] EXCEPT !.key_hash = TombstoneHash]]
          BY <4>1, <4>7
        <4>9. /\ m_buckets'[s] = [m_buckets[s] EXCEPT !.key_hash = TombstoneHash]
              /\ m_buckets'[t] = [m_buckets[t] EXCEPT !.value_index = x]
              /\ \A u \in 0..(n - 1) : u # s /\ u # t => m_buckets'[u] = m_buckets[u]
          BY <1>1, <2>2, <4>2, <4>5, <4>7, <4>8
        <4>10. /\ m_buckets'[s].key_hash = TombstoneHash
               /\ m_buckets'[t].key_hash = m_buckets[t].key_hash
               /\ m_buckets'[t].value_index = x
          BY <4>6, <4>9 DEF Bucket
        <4>11. \A u \in 0..(n - 1) :
                  ~IsFree(m_buckets[u]) /\ m_buckets[u].value_index = m_count - 1 => u = t
          BY <1>2, <4>2, <4>3, <4>4 DEF Idx, OneToOne
        <4> QED
          BY <4>4, <4>9, <4>10, <4>11 DEF Dropped
      <3> QED
        BY <3>1, <3>2
    <2>9. m_count' = m_count - 1 /\ OneLess(m_data, m_data', m_count, x)
      <3> HIDE DEF x
      <3> QED
        BY <1>1, <2>4, <2>7 DEF StorageRemove, OneLess
    <2>10. Idx(m_data', m_buckets', n, m_count - 1) /\ DistinctKeys(m_data', m_count - 1)
      <3>1. DistinctKeys(m_data, m_count)
        BY <1>1 DEF IndexIInv, NoDuplicateDocs, DistinctKeys
      <3>2. x = m_buckets[s].value_index
        OBVIOUS
      <3> HIDE DEF x, last, Slots
      <3> QED
        BY <1>1, <1>2, <2>2, <2>3, <2>4, <2>8, <2>9, <3>1, <3>2, DropDocument
    <2>11. pc' = "idle" /\ bucket_count' = n
      BY <2>7 DEF Return
    <2>13. NoDuplicateDocs'
      BY <2>9, <2>10 DEF NoDuplicateDocs, DistinctKeys
    <2>14. IndexInv'
      BY <2>9, <2>10, <2>11 DEF IndexInv, Indexes, Idx, Sound, OneToOne, Reaches, FindSlot,
                        FindAt, FindStops, FindStopsIn, Matches, MatchesIn
    <2> QED
      BY <1>0, <2>11, <2>13, <2>14 DEF IndexIInv, RehashInv, NeverAborts
  <1> QED
    BY <1>3, <1>4

LEMMA FindIndex ==
    ASSUME IndexIInv, NEW k \in Key, Find(k)
    PROVE  IndexIInv'
  <1>1. UNCHANGED <<storage, table>> /\ pc' = "idle"
    BY DEF Find, Return
  <1>2. TypeInv'
    BY FindType DEF IndexIInv
  <1> QED
    BY <1>1, <1>2, NothingStored

LEMMA StutterIndex ==
    ASSUME IndexIInv, UNCHANGED vars
    PROVE  IndexIInv'
  <1>1. TypeInv'
    BY DEF vars, IndexIInv, TypeInv, TypeOK, NoWildIndex
  <1>2. NoDuplicateDocs' /\ IndexInv' /\ RehashInv'
    BY DEF vars, IndexIInv, NoDuplicateDocs, IndexInv, RehashInv, Indexes, FindSlot,
           FindStops, Matches
  <1>3. (pc = "insert" => ~Shadowed(arg.key))'
    <2>1. Shadowed(arg.key)' <=> Shadowed(arg.key)
      BY DEF vars, Shadowed, FindSlot, PutSlot, FindStops, PutStops, Matches
    <2> QED
      BY <2>1 DEF vars, IndexIInv
  <1> QED
    BY <1>1, <1>2, <1>3 DEF vars, IndexIInv, NeverAborts

\* The inductive invariant holds throughout: put, remove and find keep it, and so
\* does every turn of the rehash loop (collection.cpp:58-150).
THEOREM IndexInvariant ==
    SentinelFree /\ Guarded /\ Spec => []IndexIInv
  <1>1. Init => IndexIInv
    BY InitIndex
  <1>2. SentinelFree /\ Guarded /\ IndexIInv /\ [Next]_vars => IndexIInv'
    <2> SUFFICES ASSUME SentinelFree, Guarded, IndexIInv, [Next]_vars
                 PROVE  IndexIInv'
      OBVIOUS
    <2>1. ASSUME NEW k \in Key, NEW v \in Value, PutCall(k, v)
          PROVE  IndexIInv'
      BY <2>1, PutCallIndex
    <2>2. CASE RehashStep
      BY <2>2, RehashStepIndex
    <2>3. CASE RehashDone
      BY <2>3, RehashDoneIndex
    <2>4. CASE Insert
      BY <2>4, InsertIndex
    <2>5. ASSUME NEW k \in Key, Remove(k)
          PROVE  IndexIInv'
      BY <2>5, RemoveIndex
    <2>6. ASSUME NEW k \in Key, Find(k)
          PROVE  IndexIInv'
      BY <2>6, FindIndex
    <2>7. CASE UNCHANGED vars
      BY <2>7, StutterIndex
    <2> QED
      BY <2>1, <2>2, <2>3, <2>4, <2>5, <2>6, <2>7 DEF Next
  <1> QED
    <2> SUFFICES ASSUME SentinelFree, Guarded
                 PROVE  Spec => []IndexIInv
      OBVIOUS
    <2>1. IndexIInv /\ [Next]_vars => IndexIInv'
      BY <1>2
    <2> QED
      BY <1>1, <2>1, PTL DEF Spec

\* When no key hashes to a sentinel and no put is shadowed by a tombstone, the
\* table indexes exactly the stored documents after every operation and after
\* every turn of the rehash loop, no document is stored twice, and none of the
\* assertions of put, remove and Storage::remove fails (collection.cpp:58-191,
\* storage.cpp:18-43).
THEOREM IndexCorrect ==
    SentinelFree /\ Guarded /\ Spec
        => [](IndexInv /\ RehashInv /\ NoDuplicateDocs /\ NeverAborts)
  <1>1. IndexIInv => IndexInv /\ RehashInv /\ NoDuplicateDocs /\ NeverAborts
    BY DEF IndexIInv
  <1>2. SentinelFree /\ Guarded /\ Spec => []IndexIInv
    BY IndexInvariant
  <1> QED
    BY <1>1, <1>2, PTL

-----------------------------------------------------------------------------
(* Probing. *)

\* Every slot of a table is probed, at some distance.
LEMMA ProbeEverywhere ==
    ASSUME NEW h \in Nat, NEW n \in Nat, NEW s \in 0..(n - 1)
    PROVE  \E d \in 0..(n - 1) : s = ProbeSlot(h, n, d)
  <1>1. n # 0 /\ (h % n) \in 0..(n - 1)
    OBVIOUS
  <1> DEFINE r == h % n
             d == IF s >= r THEN s - r ELSE s - r + n
  <1>2. r \in 0..(n - 1)
    BY <1>1
  <1> HIDE DEF r
  <1>3. d \in 0..(n - 1) /\ s = IF r + d < n THEN r + d ELSE r + d - n
    BY <1>2
  <1> HIDE DEF d
  <1>4. s = ProbeSlot(h, n, d)
    BY <1>3 DEF ProbeSlot, r
  <1> QED
    BY <1>3, <1>4

\* A set of natural numbers has a least element.
LEMMA LeastOf ==
    ASSUME NEW T, T \subseteq Nat, T # {}
    PROVE  \E d \in T : \A e \in T : ~(e < d)
  <1>1. PICK d \in T : \A e \in T : ~(<<e, d>> \in OpToRel(<, Nat))
    BY NatLessThanWellFounded, WFMin
  <1>2. \A e \in T : <<e, d>> \in Nat \X Nat
    OBVIOUS
  <1>3. ASSUME NEW e \in T PROVE ~(e < d)
    <2>1. <<e, d>> \notin OpToRel(<, Nat)
      BY <1>1
    <2> QED
      BY <1>2, <2>1 DEF OpToRel
  <1> QED
    BY <1>3

\* A put into a table with a free bucket ends somewhere.
LEMMA PutEnds ==
    ASSUME NEW B, NEW n \in Nat, NEW k \in Key,
           NEW s \in 0..(n - 1), IsFree(B[s])
    PROVE  \E t \in 0..(n - 1) : PutSlot(B, n, k, t)
  <1> DEFINE T == {d \in 0..(n - 1) : PutStops(B[ProbeSlot(Hash[k], n, d)], k)}
  <1>1. Hash[k] \in Nat
    BY HashAssumption
  <1>2. PICK c \in 0..(n - 1) : s = ProbeSlot(Hash[k], n, c)
    BY <1>1, ProbeEverywhere
  <1>3. T \subseteq Nat /\ T # {}
    <2>1. PutStops(B[ProbeSlot(Hash[k], n, c)], k)
      BY <1>2 DEF PutStops
    <2>2. c \in T
      BY <2>1
    <2> QED
      BY <2>2
  <1>4. PICK d \in T : \A e \in T : ~(e < d)
    <2> HIDE DEF T
    <2> QED
      BY <1>3, LeastOf
  <1>5. d \in 0..(n - 1) /\ PutStops(B[ProbeSlot(Hash[k], n, d)], k)
    OBVIOUS
  <1>6. ASSUME NEW e \in 0..(d - 1)
        PROVE  ~PutStops(B[ProbeSlot(Hash[k], n, e)], k)
    <2>1. e \in 0..(n - 1) /\ e < d
      BY <1>5
    <2> QED
      BY <1>4, <2>1
  <1>7. ProbeSlot(Hash[k], n, d) \in 0..(n - 1)
    BY <1>1, <1>5, ProbeInTable
  <1> HIDE DEF T
  <1> QED
    BY <1>5, <1>6, <1>7 DEF PutSlot

\* Buckets in use lead to different documents, so a table with more buckets
\* than documents has a free one.
LEMMA FreeBucket ==
    ASSUME NEW D, NEW B, NEW n \in Nat, NEW m \in Nat, m < n,
           B \in [0..(n - 1) -> Bucket], Sound(D, B, n, m), OneToOne(B, n)
    PROVE  \E s \in 0..(n - 1) : IsFree(B[s])
  <1> SUFFICES ASSUME \A s \in 0..(n - 1) : ~IsFree(B[s])
               PROVE  FALSE
    OBVIOUS
  <1> DEFINE S == 0..(n - 1)
             T == 0..(m - 1)
             f == [s \in S |-> B[s].value_index]
  <1>1. \A s \in S : B[s].value_index \in T
    <2> TAKE s \in S
    <2>1. B[s].value_index < m
      BY DEF Sound
    <2>2. B[s].value_index \in Nat
      BY DEF Bucket
    <2> QED
      BY <2>1, <2>2
  <1>2. f \in [S -> T]
    BY <1>1
  <1>3. /\ IsFiniteSet(S) /\ IsFiniteSet(T)
        /\ Cardinality(S) = n /\ Cardinality(T) = m
    <2>1. 0 \in Int /\ n - 1 \in Int /\ m - 1 \in Int
      OBVIOUS
    <2>2. /\ IsFiniteSet(0..(n - 1))
          /\ Cardinality(0..(n - 1)) =
               IF 0 > n - 1 THEN 0 ELSE (n - 1) - 0 + 1
      BY <2>1, FS_Interval
    <2>3. /\ IsFiniteSet(0..(m - 1))
          /\ Cardinality(0..(m - 1)) =
               IF 0 > m - 1 THEN 0 ELSE (m - 1) - 0 + 1
      BY <2>1, FS_Interval
    <2>4. /\ (IF 0 > n - 1 THEN 0 ELSE (n - 1) - 0 + 1) = n
          /\ (IF 0 > m - 1 THEN 0 ELSE (m - 1) - 0 + 1) = m
      OBVIOUS
    <2> QED
      BY <2>2, <2>3, <2>4
  <1>4. \E x, y \in S : x # y /\ f[x] = f[y]
    <2> HIDE DEF S, T, f
    <2> QED
      BY <1>2, <1>3, FS_PigeonHole
  <1>5. \A x, y \in S : B[x].value_index = B[y].value_index => x = y
    BY DEF OneToOne
  <1> QED
    BY <1>4, <1>5

-----------------------------------------------------------------------------
(* The inductive invariant: there is room when put looks for a bucket, and *)
(* no call has failed.                                                     *)

LoadInv ==
    /\ m_count <= bucket_count
    /\ pc = "insert" => m_count < bucket_count
    /\ pc = "rehash" => m_count < new_bucket_count
    /\ ret.ok

LEMMA InitLoad == Init => LoadInv
  BY DEF Init, EmptyTable, LoadInv

LEMMA PutCallLoad ==
    ASSUME TypeInv, LoadInv, NEW k \in Key, NEW v \in Value, PutCall(k, v)
    PROVE  LoadInv'
  <1>1. m_count \in Nat /\ bucket_count \in Nat
    BY DEF TypeInv, TypeOK
  <1>2. UNCHANGED <<m_count, bucket_count, ret>>
    BY DEF PutCall, storage, table
  <1>3. CASE NeedsRehash
    <2>1. pc' = "rehash" /\ new_bucket_count' = GrownCount(bucket_count)
      BY <1>3 DEF PutCall
    <2>2. m_count < GrownCount(bucket_count)
      BY <1>1, SizeAssumption DEF GrownCount, LoadInv
    <2> QED
      BY <1>2, <2>1, <2>2 DEF LoadInv
  <1>4. CASE ~NeedsRehash
    <2>1. pc' = "insert"
      BY <1>4 DEF PutCall
    <2>2. m_count < bucket_count
      BY <1>1, <1>4 DEF NeedsRehash, LoadLimit
    <2> QED
      BY <1>2, <2>1, <2>2 DEF LoadInv
  <1> QED
    BY <1>3, <1>4

\* A turn of the rehash loop finds a bucket and does not fail an assertion.
LEMMA RehashFindsBucket ==
    ASSUME SentinelFree, IndexIInv, LoadInv, RehashStep
    PROVE  UNCHANGED <<storage, table, new_bucket_count, pc, arg, ret>>
  <1> DEFINE k == m_data[i].key
             n == new_bucket_count
             Slots == {s \in 0..(n - 1) : PutSlot(new_buckets, n, k, s)}
  <1>1. /\ i \in Nat /\ m_count \in Nat /\ n \in Nat /\ i < m_count /\ m_count < n
        /\ new_buckets \in [0..(n - 1) -> Bucket]
        /\ \A j \in 0..(m_count - 1) : m_data[j].key \in Key
    BY DEF RehashStep, IndexIInv, TypeInv, TypeOK, Doc, LoadInv
  <1>2. k \in Key
    BY <1>1
  <1>3. Idx(m_data, new_buckets, n, i)
    BY IdxIsIndexes DEF RehashStep, IndexIInv, RehashInv
  <1>4. PICK s \in 0..(n - 1) : IsFree(new_buckets[s])
    BY <1>1, <1>3, FreeBucket DEF Idx
  <1>5. Slots # {}
    BY <1>1, <1>2, <1>4, PutEnds
  <1>6. ~Abort
    BY RehashStepIndex DEF Abort, IndexIInv, NeverAborts
  <1> HIDE DEF Slots, k, n
  <1> QED
    BY <1>5, <1>6 DEF RehashStep, Slots, k, n

\* The insertion finds a bucket.
LEMMA InsertFindsBucket ==
    ASSUME SentinelFree, IndexIInv, LoadInv, Insert
    PROVE  \E s \in 0..(bucket_count - 1) : PutSlot(m_buckets, bucket_count, arg.key, s)
  <1>1. /\ m_count \in Nat /\ bucket_count \in Nat /\ m_count < bucket_count
        /\ m_buckets \in [0..(bucket_count - 1) -> Bucket] /\ arg.key \in Key
    BY DEF Insert, IndexIInv, TypeInv, TypeOK, Doc, LoadInv
  <1>2. Idx(m_data, m_buckets, bucket_count, m_count)
    BY IdxIsIndexes DEF IndexIInv, IndexInv
  <1>3. PICK s \in 0..(bucket_count - 1) : IsFree(m_buckets[s])
    BY <1>1, <1>2, FreeBucket DEF Idx
  <1> QED
    BY <1>1, <1>3, PutEnds

LEMMA InsertLoad ==
    ASSUME SentinelFree, IndexIInv, LoadInv, Insert
    PROVE  LoadInv'
  <1>1. m_count \in Nat /\ bucket_count \in Nat /\ m_count < bucket_count
    BY DEF Insert, IndexIInv, TypeInv, TypeOK, LoadInv
  <1>2. /\ pc' = "idle" /\ ret'.ok /\ bucket_count' = bucket_count
        /\ m_count' = m_count \/ m_count' = m_count + 1
    BY InsertFindsBucket DEF Insert, Return, StoragePut
  <1> QED
    BY <1>1, <1>2 DEF LoadInv

LEMMA RemoveLoad ==
    ASSUME SentinelFree, IndexIInv, LoadInv, NEW k \in Key, Remove(k)
    PROVE  LoadInv'
  <1>1. m_count \in Nat /\ bucket_count \in Nat
    BY DEF IndexIInv, TypeInv, TypeOK
  <1>2. ~Abort
    BY RemoveIndex DEF Abort, IndexIInv, NeverAborts
  <1>3. /\ pc' = "idle" /\ ret'.ok /\ bucket_count' = bucket_count
        /\ m_count' = m_count \/ m_count' = m_count - 1
    BY <1>2 DEF Remove, Return, StorageRemove, storage, table
  <1> QED
    BY <1>1, <1>3 DEF LoadInv

\* There is room for the document whenever put looks for a bucket
\* (collection.cpp:59), in a table that indexes exactly the documents.
THEOREM LoadInvariant ==
    SentinelFree /\ Guarded /\ Spec => [](IndexIInv /\ LoadInv)
  <1>1. Init => LoadInv
    BY InitLoad
  <1>2. SentinelFree /\ IndexIInv /\ LoadInv /\ [Next]_vars => LoadInv'
    <2> SUFFICES ASSUME SentinelFree, IndexIInv, LoadInv, [Next]_vars
                 PROVE  LoadInv'
      OBVIOUS
    <2>1. ASSUME NEW k \in Key, NEW v \in Value, PutCall(k, v)
          PROVE  LoadInv'
      BY <2>1, PutCallLoad DEF IndexIInv
    <2>2. CASE RehashStep
      BY <2>2, RehashFindsBucket DEF LoadInv, storage, table
    <2>3. CASE RehashDone
      BY <2>3 DEF RehashDone, LoadInv, IndexIInv, TypeInv, TypeOK, storage
    <2>4. CASE Insert
      BY <2>4, InsertLoad
    <2>5. ASSUME NEW k \in Key, Remove(k)
          PROVE  LoadInv'
      BY <2>5, RemoveLoad
    <2>6. ASSUME NEW k \in Key, Find(k)
          PROVE  LoadInv'
      BY <2>6 DEF Find, Return, LoadInv, storage, table
    <2>7. CASE UNCHANGED vars
      BY <2>7 DEF vars, LoadInv
    <2> QED
      BY <2>1, <2>2, <2>3, <2>4, <2>5, <2>6, <2>7 DEF Next
  <1>3. SentinelFree /\ Guarded /\ Spec => []IndexIInv
    BY IndexInvariant
  <1> QED
    <2> SUFFICES ASSUME SentinelFree, Guarded
                 PROVE  Spec => [](IndexIInv /\ LoadInv)
      OBVIOUS
    <2>1. IndexIInv /\ LoadInv /\ [Next]_vars => LoadInv'
      BY <1>2
    <2>2. Spec => []IndexIInv
      BY <1>3
    <2> QED
      BY <1>1, <2>1, <2>2, PTL DEF Spec

\* When no key hashes to a sentinel and no put is shadowed by a tombstone, put
\* never returns nullptr: neither the rehash loop nor the insertion runs out of
\* buckets, however many documents and tombstones there are (collection.cpp:59,
\* 80-83 and 105).
THEOREM PutSucceeds ==
    SentinelFree /\ Guarded /\ Spec => []PutNeverFails
  <1>1. LoadInv => PutNeverFails
    BY DEF LoadInv, PutNeverFails
  <1>2. SentinelFree /\ Guarded /\ Spec => [](IndexIInv /\ LoadInv)
    BY LoadInvariant
  <1> QED
    BY <1>1, <1>2, PTL

-----------------------------------------------------------------------------
(* What was put is found.  No discipline of the callers is needed here: a   *)
(* search for the key may end before the bucket of the put, but only at one *)
(* that leads to the same document.                                         *)

\* The insertion, as far as the search after it can tell: a bucket at distance
\* d on the way of the key leads to the document, and those before it are in
\* use for other keys, or were until the document was written.
LEMMA InsertWrites ==
    ASSUME TypeInv, Insert, ret'.ok
    PROVE  /\ arg \in Doc /\ ret'.key = arg.key /\ ret'.value = arg.value
           /\ bucket_count' = bucket_count
           /\ \E d \in 0..(bucket_count - 1) :
                LET at(e) == ProbeSlot(Hash[arg.key], bucket_count, e)
                IN /\ m_buckets'[at(d)].key_hash = Hash[arg.key]
                   /\ m_data'[m_buckets'[at(d)].value_index] = arg
                   /\ \A e \in 0..(d - 1) :
                        /\ ~IsFree(m_buckets'[at(e)])
                        /\ MatchesIn(m_data', m_buckets'[at(e)], arg.key) =>
                             m_data'[m_buckets'[at(e)].value_index] = arg
  <1> DEFINE k == arg.key
             n == bucket_count
             at(e) == ProbeSlot(Hash[k], n, e)
             Slots == {s \in 0..(n - 1) : PutSlot(m_buckets, n, k, s)}
  <1>1. arg \in Doc /\ k \in Key /\ n \in Nat /\ m_count \in Nat /\ Hash[k] \in Nat
    BY HashAssumption DEF Insert, TypeInv, TypeOK, Doc
  <1>2. PICK s \in Slots :
             LET b == PutBucket(m_buckets[s], k)
             IN /\ m_buckets' = [m_buckets EXCEPT ![s] = b]
                /\ IF b.value_index = m_count
                   THEN StoragePut(arg)
                   ELSE /\ m_data' = [m_data EXCEPT ![b.value_index] = arg]
                        /\ UNCHANGED m_count
                /\ Return("put", k, arg.value, TRUE)
                /\ UNCHANGED n
    BY DEF Insert, Return
  <1>3. PICK d \in 0..(n - 1) :
             /\ s = at(d) /\ PutStops(m_buckets[s], k)
             /\ \A e \in 0..(d - 1) : ~PutStops(m_buckets[at(e)], k)
    BY DEF PutSlot
  <1>4. s \in 0..(n - 1) /\ m_buckets[s] \in Bucket
    BY DEF TypeInv, TypeOK
  <1> HIDE DEF Slots
  <1> DEFINE b == PutBucket(m_buckets[s], k)
  <1>5. /\ b \in Bucket /\ b.key_hash = Hash[k]
        /\ b.value_index # m_count => b.value_index \in DOMAIN m_data
    <2>1. CASE IsFree(m_buckets[s])
      BY <1>1, <1>4, <2>1, HashAssumption DEF PutBucket, Bucket
    <2>2. CASE ~IsFree(m_buckets[s])
      BY <1>1, <1>3, <1>4, <2>2 DEF PutBucket, PutStops, Matches, TypeInv, NoWildIndex, IsFree
    <2> QED
      BY <2>1, <2>2
  <1>6. m_buckets' = [m_buckets EXCEPT ![s] = b] /\ Return("put", k, arg.value, TRUE)
    BY <1>2
  <1>7. /\ m_data'[b.value_index] = arg
        /\ \A x \in DOMAIN m_data : x # b.value_index => m_data'[x] = m_data[x]
    <2>1. CASE b.value_index = m_count
      BY <1>2, <2>1 DEF StoragePut
    <2>2. CASE b.value_index # m_count
      <3>1. m_data' = [m_data EXCEPT ![b.value_index] = arg]
        BY <1>2, <2>2
      <3>2. m_data \in [DOMAIN m_data -> Doc]
        BY DEF TypeInv, TypeOK
      <3> QED
        BY <1>5, <2>2, <3>1, <3>2
    <2> QED
      BY <2>1, <2>2
  <1> HIDE DEF b
  <1>8. m_buckets'[at(d)] = b
    BY <1>3, <1>4, <1>6 DEF TypeInv, TypeOK
  <1>9. ASSUME NEW e \in 0..(d - 1)
        PROVE  /\ ~IsFree(m_buckets'[at(e)])
               /\ MatchesIn(m_data', m_buckets'[at(e)], k) =>
                    m_data'[m_buckets'[at(e)].value_index] = arg
    <2>0. e \in 0..(n - 1)
      BY <1>1, <1>3
    <2>1. at(e) \in 0..(n - 1)
      BY <1>1, <2>0, ProbeInTable
    <2>2. ~PutStops(m_buckets[at(e)], k)
      BY <1>3
    <2>3. at(e) # s
      BY <1>3, <2>2
    <2> HIDE DEF at
    <2>4. m_buckets'[at(e)] = m_buckets[at(e)]
      BY <1>4, <1>6, <2>1, <2>3 DEF TypeInv, TypeOK
    <2>5. /\ ~IsFree(m_buckets[at(e)])
          /\ ~MatchesIn(m_data, m_buckets[at(e)], k)
      BY <2>2 DEF PutStops, Matches, MatchesIn
    <2>6. m_buckets[at(e)].value_index \in DOMAIN m_data
      BY <2>1, <2>5 DEF TypeInv, NoWildIndex, IsFree
    <2> QED
      BY <1>7, <2>4, <2>5, <2>6 DEF MatchesIn
  <1>10. ret'.key = k /\ ret'.value = arg.value /\ bucket_count' = n
    BY <1>2 DEF Return
  <1> HIDE DEF at
  <1> QED
    BY <1>1, <1>5, <1>7, <1>8, <1>9, <1>10 DEF at

LEMMA InsertVisible ==
    ASSUME ZeroFree, TypeInv, Insert
    PROVE  PutIsVisible'
  <1> SUFFICES ASSUME ret'.ok PROVE PutIsVisible'
    BY DEF PutIsVisible
  <1>0. PICK k, n : k = arg.key /\ n = bucket_count
    OBVIOUS
  <1> DEFINE at(e) == ProbeSlot(Hash[k], n, e)
             C(e) == m_buckets'[at(e)]
  <1>1. PICK d \in 0..(n - 1) :
             /\ C(d).key_hash = Hash[k] /\ m_data'[C(d).value_index] = arg
             /\ \A e \in 0..(d - 1) :
                  /\ ~IsFree(C(e))
                  /\ MatchesIn(m_data', C(e), k) => m_data'[C(e).value_index] = arg
    BY <1>0, InsertWrites
  <1>2. /\ arg \in Doc /\ k \in Key /\ n \in Nat /\ Hash[k] \in Nat
        /\ bucket_count' = n /\ ret'.key = k /\ ret'.value = arg.value
    BY <1>0, InsertWrites, HashAssumption DEF TypeInv, TypeOK, Doc
  <1> HIDE DEF C
  <1> DEFINE T == {e \in 0..d : MatchesIn(m_data', C(e), k)}
  <1>3. d \in T /\ T \subseteq Nat
    BY <1>0, <1>1 DEF MatchesIn
  <1>4. PICK e \in T : \A f \in T : ~(f < e)
    BY <1>3, LeastOf
  <1>5. e \in 0..(n - 1) /\ e \in 0..d
    BY <1>2, <1>4
  <1>6. /\ C(e).key_hash # EmptyHash /\ MatchesIn(m_data', C(e), k)
        /\ m_data'[C(e).value_index] = arg
    BY <1>0, <1>1, <1>2, <1>4, <1>5 DEF ZeroFree, MatchesIn
  <1>7. ASSUME NEW f \in 0..(e - 1)
        PROVE  ~FindStopsIn(m_data', C(f), k)
    <2>1. f \in 0..(d - 1) /\ f \notin T /\ f \in 0..d
      BY <1>4, <1>5
    <2> QED
      BY <1>1, <2>1 DEF IsFree, FindStopsIn
  <1>8. at(e) \in 0..(n - 1)
    BY <1>2, <1>5, ProbeInTable
  <1> HIDE DEF T
  <1>9. FindSlot(m_buckets, n, k, at(e))'
    <2>1. \A f \in 0..(e - 1) : ~(FindStops(m_buckets[at(f)], k)')
      BY <1>7 DEF FindStops, FindStopsIn, Matches, MatchesIn, C
    <2>2. Matches(m_buckets[at(e)], k)' /\ m_buckets'[at(e)].key_hash # EmptyHash
      BY <1>6 DEF Matches, MatchesIn, C
    <2> QED
      BY <1>5, <2>1, <2>2 DEF FindSlot
  <1> QED
    BY <1>0, <1>2, <1>6, <1>8, <1>9 DEF PutIsVisible, C, Doc

\* A put that returns is found from then on until the next call changes
\* something, duplicates and tombstones or not: only keys whose hash is 0 are
\* excluded, those whose hash marks a removed bucket are not
\* (collection.cpp:58-108 and 194-224).
THEOREM PutVisible ==
    ZeroFree /\ Spec => []PutIsVisible
  <1>1. Init => PutIsVisible
    BY DEF Init, PutIsVisible
  <1>2. ZeroFree /\ TypeInv /\ PutIsVisible /\ [Next]_vars => PutIsVisible'
    <2> SUFFICES ASSUME ZeroFree, TypeInv, PutIsVisible, [Next]_vars
                 PROVE  PutIsVisible'
      OBVIOUS
    <2>1. ASSUME NEW k \in Key, NEW v \in Value, PutCall(k, v)
          PROVE  PutIsVisible'
      BY <2>1 DEF PutCall, PutIsVisible
    <2>2. CASE RehashStep
      BY <2>2 DEF RehashStep, Return, Abort, PutIsVisible
    <2>3. CASE RehashDone
      BY <2>3 DEF RehashDone, PutIsVisible
    <2>4. CASE Insert
      BY <2>4, InsertVisible
    <2>5. ASSUME NEW k \in Key, Remove(k)
          PROVE  PutIsVisible'
      BY <2>5 DEF Remove, Return, Abort, PutIsVisible
    <2>6. ASSUME NEW k \in Key, Find(k)
          PROVE  PutIsVisible'
      BY <2>6 DEF Find, Return, PutIsVisible
    <2>7. CASE UNCHANGED vars
      BY <2>7 DEF vars, PutIsVisible, FindSlot, FindStops, Matches
    <2> QED
      BY <2>1, <2>2, <2>3, <2>4, <2>5, <2>6, <2>7 DEF Next
  <1> QED
    <2> SUFFICES ASSUME ZeroFree
                 PROVE  Spec => []PutIsVisible
      OBVIOUS
    <2>1. TypeInv /\ PutIsVisible /\ [Next]_vars => PutIsVisible'
      BY <1>2
    <2>2. Spec => []TypeInv
      BY TypeCorrect DEF TypeInv
    <2> QED
      BY <1>1, <2>1, <2>2, PTL DEF Spec

-----------------------------------------------------------------------------
(* A collection is a map: Collection implements KVStore, under the same    *)
(* conditions.  put takes effect at its insertion; the turns of the rehash *)
(* loop are steps that change nothing a caller can see.                    *)
(*                                                                         *)
(* View is StoreView for any function D from indexes to documents, which   *)
(* stands for the storage before or after a step.                          *)

KeysOf(D, m) == {D[j].key : j \in 0..(m - 1)}
View(D, m) ==
    [k \in KeysOf(D, m) |-> D[CHOOSE j \in 0..(m - 1) : D[j].key = k].value]

LEMMA StoreViewIsView ==
    /\ StoreView = View(m_data, m_count)
    /\ StoreView' = View(m_data', m_count')
  BY DEF StoreView, StoredKeys, View, KeysOf

LEMMA ViewAt ==
    ASSUME NEW m \in Nat, NEW D, DistinctKeys(D, m), NEW j \in 0..(m - 1)
    PROVE  D[j].key \in KeysOf(D, m) /\ View(D, m)[D[j].key] = D[j].value
  <1> DEFINE l == CHOOSE h \in 0..(m - 1) : D[h].key = D[j].key
  <1>1. D[j].key \in KeysOf(D, m)
    BY DEF KeysOf
  <1>2. l \in 0..(m - 1) /\ D[l].key = D[j].key
    OBVIOUS
  <1>3. l = j
    BY <1>2 DEF DistinctKeys
  <1>4. View(D, m)[D[j].key] = D[l].value
    BY <1>1 DEF View
  <1> QED
    BY <1>1, <1>3, <1>4

\* A function that agrees with every document is the view.
LEMMA ViewIs ==
    ASSUME NEW m \in Nat, NEW D, DistinctKeys(D, m),
           NEW F, F = [k \in KeysOf(D, m) |-> F[k]],
           \A j \in 0..(m - 1) : F[D[j].key] = D[j].value
    PROVE  View(D, m) = F
  <1>1. \A k \in KeysOf(D, m) : View(D, m)[k] = F[k]
    <2> TAKE k \in KeysOf(D, m)
    <2>1. PICK j \in 0..(m - 1) : k = D[j].key
      BY DEF KeysOf
    <2> QED
      BY <2>1, ViewAt
  <1>2. View(D, m) = [k \in KeysOf(D, m) |-> View(D, m)[k]]
    BY DEF View
  <1> QED
    BY <1>1, <1>2

Added(F, k, v) == [j \in DOMAIN F \cup {k} |-> IF j = k THEN v ELSE F[j]]
Without(F, k)  == [j \in DOMAIN F \ {k} |-> F[j]]

LEMMA AddView ==
    ASSUME NEW m \in Nat, NEW D, NEW D2, NEW doc,
           DistinctKeys(D, m), DistinctKeys(D2, m + 1),
           D2[m] = doc, \A j \in 0..(m - 1) : D2[j] = D[j]
    PROVE  View(D2, m + 1) = Added(View(D, m), doc.key, doc.value)
  <1> DEFINE F == Added(View(D, m), doc.key, doc.value)
  <1>1. \A j \in 0..m : j = m \/ j \in 0..(m - 1)
    OBVIOUS
  <1>2. m \in 0..((m + 1) - 1) /\ 0..((m + 1) - 1) = 0..m
    OBVIOUS
  <1>3. DOMAIN View(D, m) = KeysOf(D, m)
    BY DEF View
  <1>4. KeysOf(D2, m + 1) = KeysOf(D, m) \cup {doc.key}
    <2>1. ASSUME NEW k \in KeysOf(D2, m + 1)
          PROVE  k \in KeysOf(D, m) \cup {doc.key}
      BY <1>1, <1>2 DEF KeysOf
    <2>2. ASSUME NEW k \in KeysOf(D, m) \cup {doc.key}
          PROVE  k \in KeysOf(D2, m + 1)
      BY <1>1, <1>2 DEF KeysOf
    <2> QED
      BY <2>1, <2>2
  <1>5. F = [k \in KeysOf(D2, m + 1) |-> F[k]]
    BY <1>3, <1>4 DEF Added
  <1>6. ASSUME NEW j \in 0..((m + 1) - 1)
        PROVE  F[D2[j].key] = D2[j].value
    <2>1. CASE j = m
      BY <2>1 DEF Added
    <2>2. CASE j # m
      <3>1. j \in 0..(m - 1) /\ D2[j] = D[j]
        BY <2>2
      <3>2. D2[j].key # doc.key
        BY <1>2, <2>2 DEF DistinctKeys
      <3>3. D[j].key \in KeysOf(D, m) /\ View(D, m)[D[j].key] = D[j].value
        BY <3>1, ViewAt
      <3> QED
        BY <1>3, <3>1, <3>2, <3>3 DEF Added
    <2> QED
      BY <2>1, <2>2
  <1> HIDE DEF F
  <1>7. m + 1 \in Nat
    OBVIOUS
  <1>8. View(D2, m + 1) = F
    BY <1>5, <1>6, <1>7, ViewIs
  <1> QED
    BY <1>8 DEF F

LEMMA OverwriteView ==
    ASSUME NEW m \in Nat, NEW D, NEW D2, NEW doc, DistinctKeys(D, m),
           NEW x \in 0..(m - 1), D[x].key = doc.key, D2[x] = doc,
           \A j \in 0..(m - 1) : j # x => D2[j] = D[j]
    PROVE  View(D2, m) = Added(View(D, m), doc.key, doc.value)
  <1> DEFINE F == Added(View(D, m), doc.key, doc.value)
  <1>1. \A j \in 0..(m - 1) : D2[j].key = D[j].key
    OBVIOUS
  <1>2. DistinctKeys(D2, m)
    BY <1>1 DEF DistinctKeys
  <1>3. DOMAIN View(D, m) = KeysOf(D, m) /\ KeysOf(D2, m) = KeysOf(D, m)
    BY <1>1 DEF View, KeysOf
  <1>4. doc.key \in KeysOf(D, m)
    BY DEF KeysOf
  <1>5. F = [k \in KeysOf(D2, m) |-> F[k]]
    BY <1>3, <1>4 DEF Added
  <1>6. ASSUME NEW j \in 0..(m - 1)
        PROVE  F[D2[j].key] = D2[j].value
    <2>1. CASE j = x
      BY <2>1 DEF Added
    <2>2. CASE j # x
      <3>1. D2[j] = D[j] /\ D[j].key # doc.key
        BY <2>2 DEF DistinctKeys
      <3>2. D[j].key \in KeysOf(D, m) /\ View(D, m)[D[j].key] = D[j].value
        BY ViewAt
      <3> QED
        BY <1>3, <3>1, <3>2 DEF Added
    <2> QED
      BY <2>1, <2>2
  <1> HIDE DEF F
  <1>7. View(D2, m) = F
    BY <1>2, <1>5, <1>6, ViewIs
  <1> QED
    BY <1>7 DEF F

LEMMA DropView ==
    ASSUME NEW m \in Nat \ {0}, NEW D, NEW D2, DistinctKeys(D, m),
           NEW x \in 0..(m - 1), OneLess(D, D2, m, x), DistinctKeys(D2, m - 1)
    PROVE  View(D2, m - 1) = Without(View(D, m), D[x].key)
  <1> DEFINE F == Without(View(D, m), D[x].key)
             \* where document j of D2 was in D
             from(j) == IF j = x THEN m - 1 ELSE j
  <1>0. m - 1 \in Nat /\ 0..((m - 1) - 1) = 0..(m - 2)
    OBVIOUS
  <1>1. \A j \in 0..(m - 2) :
           from(j) \in 0..(m - 1) /\ from(j) # x /\ D2[j] = D[from(j)]
    BY DEF OneLess
  <1>2. \A l \in 0..(m - 1) : l # x => \E j \in 0..(m - 2) : from(j) = l
    <2> TAKE l \in 0..(m - 1)
    <2> HAVE l # x
    <2>1. CASE l = m - 1
      <3>1. x \in 0..(m - 2)
        BY <2>1
      <3> QED
        BY <2>1, <3>1
    <2>2. CASE l # m - 1
      BY <2>2
    <2> QED
      BY <2>1, <2>2
  <1> HIDE DEF from
  <1>3. DOMAIN View(D, m) = KeysOf(D, m)
    BY DEF View
  <1>4. KeysOf(D2, m - 1) = KeysOf(D, m) \ {D[x].key}
    <2>1. ASSUME NEW k \in KeysOf(D2, m - 1)
          PROVE  k \in KeysOf(D, m) \ {D[x].key}
      <3>1. PICK j \in 0..(m - 2) : k = D2[j].key
        BY <1>0 DEF KeysOf
      <3>2. k = D[from(j)].key /\ from(j) \in 0..(m - 1) /\ from(j) # x
        BY <1>1, <3>1
      <3>3. k # D[x].key
        BY <3>2 DEF DistinctKeys
      <3> QED
        BY <3>2, <3>3 DEF KeysOf
    <2>2. ASSUME NEW k \in KeysOf(D, m) \ {D[x].key}
          PROVE  k \in KeysOf(D2, m - 1)
      <3>1. PICK l \in 0..(m - 1) : k = D[l].key
        BY DEF KeysOf
      <3>2. l # x
        BY <3>1
      <3>3. PICK j \in 0..(m - 2) : from(j) = l
        BY <1>2, <3>2
      <3>4. k = D2[j].key
        BY <1>1, <3>1, <3>3
      <3> QED
        BY <1>0, <3>4 DEF KeysOf
    <2> QED
      BY <2>1, <2>2
  <1>5. F = [k \in KeysOf(D2, m - 1) |-> F[k]]
    BY <1>3, <1>4 DEF Without
  <1>6. ASSUME NEW j \in 0..((m - 1) - 1)
        PROVE  F[D2[j].key] = D2[j].value
    <2>1. from(j) \in 0..(m - 1) /\ from(j) # x /\ D2[j] = D[from(j)]
      BY <1>0, <1>1
    <2>2. D2[j].key # D[x].key
      BY <2>1 DEF DistinctKeys
    <2>3. D2[j].key \in KeysOf(D, m) /\ View(D, m)[D2[j].key] = D2[j].value
      BY <2>1, ViewAt
    <2> QED
      BY <1>3, <2>2, <2>3 DEF Without
  <1> HIDE DEF F
  <1>7. View(D2, m - 1) = F
    BY <1>0, <1>5, <1>6, ViewIs
  <1> QED
    BY <1>7 DEF F

-----------------------------------------------------------------------------
(* Each step maps to a call of KVStore or to nothing a caller can see.     *)

LEMMA KeysAreDistinct ==
    /\ IndexIInv => DistinctKeys(m_data, m_count) /\ m_count \in Nat
    /\ IndexIInv' => DistinctKeys(m_data', m_count')
  <1>1. IndexIInv => DistinctKeys(m_data, m_count) /\ m_count \in Nat
    BY DEF IndexIInv, TypeInv, TypeOK, Doc, NoDuplicateDocs, DistinctKeys
  <1>2. IndexIInv' => DistinctKeys(m_data', m_count')
    BY DEF IndexIInv, TypeInv, TypeOK, Doc, NoDuplicateDocs, DistinctKeys
  <1> QED
    BY <1>1, <1>2

LEMMA InitRefines == Init => KV!Init
  <1> SUFFICES ASSUME Init PROVE KV!Init
    OBVIOUS
  <1>1. StoredKeys = {}
    BY DEF Init, StoredKeys
  <1>2. StoreView = [k \in {} |-> Null]
    BY <1>1 DEF StoreView
  <1> QED
    BY <1>2 DEF Init, KV!Init, KV!Result

LEMMA Invisible ==
    ASSUME UNCHANGED <<m_data, m_count, ret>>
    PROVE  UNCHANGED KV!kvars
  BY DEF StoreView, StoredKeys, KV!kvars

LEMMA InsertRefines ==
    ASSUME SentinelFree, IndexIInv, LoadInv, Insert
    PROVE  KV!Put(arg.key, arg.value)
  <1> DEFINE n == bucket_count
             Slots == {s \in 0..(n - 1) : PutSlot(m_buckets, n, arg.key, s)}
             After(b) == IF b.value_index = m_count
                         THEN StoragePut(arg)
                         ELSE /\ m_data' = [m_data EXCEPT ![b.value_index] = arg]
                              /\ UNCHANGED m_count
  <1>1. Slots # {}
    BY InsertFindsBucket
  <1>2. PICK s \in Slots :
           /\ After(PutBucket(m_buckets[s], arg.key))
           /\ Return("put", arg.key, arg.value, TRUE)
    BY <1>1 DEF Insert
  <1>3. /\ m_count \in Nat /\ n \in Nat
        /\ m_buckets \in [0..(n - 1) -> Bucket]
        /\ \A j \in 0..(m_count - 1) : j \in DOMAIN m_data
        /\ m_data = [j \in DOMAIN m_data |-> m_data[j]]
    BY DEF IndexIInv, TypeInv, TypeOK
  <1>4. s \in 0..(n - 1) /\ PutStops(m_buckets[s], arg.key)
    BY DEF PutSlot
  <1>5. /\ DistinctKeys(m_data, m_count) /\ DistinctKeys(m_data', m_count')
    BY InsertIndex, KeysAreDistinct
  <1> HIDE DEF Slots
  <1>6. View(m_data', m_count') = Added(View(m_data, m_count), arg.key, arg.value)
    <2>1. CASE IsFree(m_buckets[s])
      <3>1. StoragePut(arg)
        BY <1>2, <2>1 DEF PutBucket
      <3>2. /\ m_count' = m_count + 1 /\ m_data'[m_count] = arg
            /\ \A j \in 0..(m_count - 1) : m_data'[j] = m_data[j]
        BY <1>3, <3>1 DEF StoragePut
      <3> QED
        BY <1>3, <1>5, <3>2, AddView
    <2>2. CASE ~IsFree(m_buckets[s])
      <3> DEFINE x == m_buckets[s].value_index
      <3>1. x \in 0..(m_count - 1)
        <4>1. x \in Nat
          BY <1>3, <1>4 DEF Bucket
        <4>2. x < m_count
          BY <1>4, <2>2 DEF IndexIInv, IndexInv, Indexes
        <4> QED
          BY <1>3, <4>1, <4>2
      <3>2. m_data[x].key = arg.key
        BY <1>4, <2>2 DEF PutStops, Matches
      <3>3. m_data' = [m_data EXCEPT ![x] = arg] /\ m_count' = m_count
        <4>1. x # m_count
          BY <1>3, <3>1
        <4>2. PutBucket(m_buckets[s], arg.key) = m_buckets[s]
          BY <2>2 DEF PutBucket
        <4> QED
          BY <1>2, <4>1, <4>2
      <3> HIDE DEF x
      <3>4. /\ m_data'[x] = arg
            /\ \A j \in 0..(m_count - 1) : j # x => m_data'[j] = m_data[j]
        BY <1>3, <3>1, <3>3
      <3>5. View(m_data', m_count) = Added(View(m_data, m_count), arg.key, arg.value)
        BY <1>3, <1>5, <3>1, <3>2, <3>4, OverwriteView
      <3> QED
        BY <3>3, <3>5
    <2> QED
      BY <2>1, <2>2
  <1>7. StoreView' = Added(StoreView, arg.key, arg.value)
    BY <1>6, StoreViewIsView
  <1>8. ret' = KV!Result("put", arg.key, arg.value, TRUE)
    BY <1>2 DEF Return, KV!Result
  <1> QED
    BY <1>7, <1>8 DEF KV!Put, Added

LEMMA RemoveRefines ==
    ASSUME SentinelFree, IndexIInv, NEW k \in Key, Remove(k)
    PROVE  KV!Remove(k)
  <1> DEFINE n == bucket_count
             Slots(j) == {s \in 0..(n - 1) : FindSlot(m_buckets, n, j, s)}
  <1>1. ~Abort
    BY RemoveIndex DEF Abort, IndexIInv, NeverAborts
  <1>2. /\ DistinctKeys(m_data, m_count) /\ DistinctKeys(m_data', m_count')
        /\ m_count \in Nat
    BY RemoveIndex, KeysAreDistinct
  <1>3. /\ n \in Nat /\ m_buckets \in [0..(n - 1) -> Bucket]
        /\ \A j \in 0..(m_count - 1) : j \in DOMAIN m_data
        /\ m_data = [j \in DOMAIN m_data |-> m_data[j]]
    BY DEF IndexIInv, TypeInv, TypeOK
  <1>4. DOMAIN StoreView = KeysOf(m_data, m_count)
    BY StoreViewIsView DEF View
  <1>5. Return("remove", k, Null, TRUE) /\ StoreView' = Without(StoreView, k)
    <2>1. CASE Slots(k) = {}
      <3>1. Return("remove", k, Null, TRUE) /\ UNCHANGED <<m_data, m_count>>
        BY <2>1 DEF Remove, storage
      <3>2. k \notin KeysOf(m_data, m_count)
        <4> SUFFICES ASSUME NEW j \in 0..(m_count - 1), m_data[j].key = k
                     PROVE  FALSE
          BY DEF KeysOf
        <4>1. \E s \in 0..(n - 1) : FindSlot(m_buckets, n, k, s)
          BY DEF IndexIInv, IndexInv, Indexes
        <4> QED
          BY <2>1, <4>1
      <3>3. StoreView' = StoreView /\ StoreView = [j \in DOMAIN StoreView |-> StoreView[j]]
        BY <3>1 DEF StoreView, StoredKeys
      <3>4. DOMAIN StoreView \ {k} = DOMAIN StoreView
        BY <1>4, <3>2
      <3> QED
        BY <3>1, <3>3, <3>4 DEF Without
    <2>2. CASE Slots(k) # {}
      <3>1. PICK s \in Slots(k) :
               /\ ~(m_count = 0 \/ m_buckets[s].value_index >= m_count)
               /\ StorageRemove(m_buckets[s].value_index)
               /\ Return("remove", k, Null, TRUE)
        BY <1>1, <2>2 DEF Remove
      <3> DEFINE x == m_buckets[s].value_index
      <3>2. s \in 0..(n - 1) /\ m_data[x].key = k
        BY DEF FindSlot, Matches
      <3>3. x \in 0..(m_count - 1) /\ m_count \in Nat \ {0}
        <4>1. x \in Nat
          BY <1>3, <3>2 DEF Bucket
        <4> QED
          BY <1>2, <3>1, <4>1
      <3> HIDE DEF x
      <3>4. m_count' = m_count - 1 /\ OneLess(m_data, m_data', m_count, x)
        BY <1>3, <3>1, <3>3 DEF StorageRemove, OneLess, x
      <3>5. View(m_data', m_count - 1) = Without(View(m_data, m_count), k)
        BY <1>2, <3>2, <3>3, <3>4, DropView
      <3> QED
        BY <3>1, <3>4, <3>5, StoreViewIsView
    <2> QED
      BY <2>1, <2>2
  <1>6. ret' = KV!Result("remove", k, Null, TRUE)
    BY <1>5 DEF Return, KV!Result
  <1> QED
    BY <1>5, <1>6 DEF KV!Remove, Without

LEMMA FindRefines ==
    ASSUME SentinelFree, IndexIInv, NEW k \in Key, Find(k)
    PROVE  KV!Find(k)
  <1> DEFINE n == bucket_count
             Slots == {s \in 0..(n - 1) : FindSlot(m_buckets, n, k, s)}
  <1>1. StoreView' = StoreView
    BY DEF Find, storage, StoreView, StoredKeys
  <1>2. DOMAIN StoreView = KeysOf(m_data, m_count)
    BY StoreViewIsView DEF View
  <1>3. CASE Slots = {}
    <2>1. k \notin KeysOf(m_data, m_count)
      <3> SUFFICES ASSUME NEW j \in 0..(m_count - 1), m_data[j].key = k
                   PROVE  FALSE
        BY DEF KeysOf
      <3>1. \E s \in 0..(n - 1) : FindSlot(m_buckets, n, k, s)
        BY DEF IndexIInv, IndexInv, Indexes
      <3> QED
        BY <1>3, <3>1
    <2>2. Return("find", k, Null, TRUE)
      BY <1>3 DEF Find
    <2> QED
      BY <1>1, <1>2, <2>1, <2>2 DEF Return, KV!Find, KV!Result
  <1>4. CASE Slots # {}
    <2>1. PICK s \in Slots :
             Return("find", k, m_data[m_buckets[s].value_index].value, TRUE)
      BY <1>4 DEF Find
    <2> DEFINE x == m_buckets[s].value_index
    <2>2. /\ s \in 0..(n - 1) /\ m_buckets[s].key_hash = Hash[k] /\ m_data[x].key = k
      BY DEF FindSlot, Matches
    <2>3. x \in 0..(m_count - 1)
      <3>1. ~IsFree(m_buckets[s])
        BY <2>2, InUse
      <3>2. x < m_count
        BY <2>2, <3>1 DEF IndexIInv, IndexInv, Indexes
      <3>3. x \in Nat /\ m_count \in Nat
        BY <2>2 DEF IndexIInv, TypeInv, TypeOK, Bucket
      <3> QED
        BY <3>2, <3>3
    <2> HIDE DEF x, Slots
    <2>4. k \in DOMAIN StoreView /\ StoreView[k] = m_data[x].value
      BY <1>2, <2>2, <2>3, KeysAreDistinct, ViewAt, StoreViewIsView
    <2>5. ret' = KV!Result("find", k, m_data[x].value, TRUE)
      BY <2>1 DEF Return, KV!Result, x
    <2> QED
      BY <1>1, <2>4, <2>5 DEF KV!Find
  <1> QED
    BY <1>3, <1>4

-----------------------------------------------------------------------------
(* The table with its probing, tombstones, removals and rehashes behaves   *)
(* as a partial map, call by call and result by result: whatever callers   *)
(* do within the two conditions, put, remove and find answer as KVStore    *)
(* does (collection.cpp:58-224, storage.cpp:18-43).                        *)
THEOREM CollectionIsMap ==
    SentinelFree /\ Guarded /\ Spec => ImplementsKVStore
  <1>1. Init => KV!Init
    BY InitRefines
  <1>2. SentinelFree /\ IndexIInv /\ LoadInv /\ [Next]_vars => [KV!Next]_(KV!kvars)
    <2> SUFFICES ASSUME SentinelFree, IndexIInv, LoadInv, [Next]_vars
                 PROVE  KV!Next \/ UNCHANGED KV!kvars
      OBVIOUS
    <2>1. ASSUME NEW k \in Key, NEW v \in Value, PutCall(k, v)
          PROVE  UNCHANGED KV!kvars
      BY <2>1, Invisible DEF PutCall, storage
    <2>2. CASE RehashStep
      BY <2>2, RehashFindsBucket, Invisible DEF storage
    <2>3. CASE RehashDone
      BY <2>3, Invisible DEF RehashDone, storage
    <2>4. CASE Insert
      <3>1. arg.key \in Key /\ arg.value \in Value
        BY <2>4 DEF Insert, IndexIInv, TypeInv, TypeOK, Doc
      <3>2. KV!Put(arg.key, arg.value)
        BY <2>4, InsertRefines
      <3> QED
        BY <3>1, <3>2 DEF KV!Next
    <2>5. ASSUME NEW k \in Key, Remove(k)
          PROVE  KV!Next
      BY <2>5, RemoveRefines DEF KV!Next
    <2>6. ASSUME NEW k \in Key, Find(k)
          PROVE  KV!Next
      BY <2>6, FindRefines DEF KV!Next
    <2>7. CASE UNCHANGED vars
      BY <2>7, Invisible DEF vars
    <2> QED
      BY <2>1, <2>2, <2>3, <2>4, <2>5, <2>6, <2>7 DEF Next
  <1> QED
    <2> SUFFICES ASSUME SentinelFree, Guarded
                 PROVE  Spec => ImplementsKVStore
      OBVIOUS
    <2>1. IndexIInv /\ LoadInv /\ [Next]_vars => [KV!Next]_(KV!kvars)
      BY <1>2
    <2>2. Spec => [](IndexIInv /\ LoadInv)
      BY LoadInvariant
    <2> QED
      BY <1>1, <2>1, <2>2, PTL DEF Spec, ImplementsKVStore, KV!Spec
=============================================================================
