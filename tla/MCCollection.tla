---------------------------- MODULE MCCollection -----------------------------
(***************************************************************************)
(* Collection for TLC: three keys that collide, two of them with the same *)
(* hash, at the last slot of every table so that probing wraps around.     *)
(* The first table has 2 buckets (32 in the code), then 4, then 8, so      *)
(* rehashes move documents.  For the hash 0 the first one has 4.           *)
(***************************************************************************)
EXTENDS Collection

CONSTANTS k1, k2, k3

MCHash == [k \in Key |-> IF k = k3 THEN 8 ELSE 7]

\* k1 and k2 hash alike, so they are interchangeable, and so are the values.
Symmetric == Permutations({k1, k2}) \cup Permutations(Value)

\* The hash of an integer is the integer, so the values that mark free buckets,
\* 0 and 2^64 - 1, are hashes of ordinary keys.  Here k3 hashes to the mark of a
\* removed bucket, with k1 and k2 beside it in the last slot of every table.
AnyHash == [k \in Key |-> IF k = k3 THEN MaxHash ELSE 7]

\* And here k2 hashes to the mark of an empty bucket.
ZeroHash == [k \in Key |-> IF k = k2 THEN 0 ELSE 3]
=============================================================================
