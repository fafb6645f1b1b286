------------------------------- MODULE KVStore -------------------------------
(***************************************************************************)
(* What a collection promises to its callers: a partial map from keys to  *)
(* documents.  put inserts or overwrites and always succeeds, remove takes *)
(* the key out of the map whether or not it was there, find answers with   *)
(* the document stored last under the key, or with nothing.  Collection    *)
(* (src/db/collection.cpp) implements it with an open-addressed table.     *)
(***************************************************************************)
CONSTANTS Key, Value, Null

VARIABLES
    store,    \* the documents: a function from the keys present to values
    ret       \* the last call that returned, with its result

kvars == <<store, ret>>

Result(op, k, v, ok) == [op |-> op, key |-> k, value |-> v, ok |-> ok]

Init ==
    /\ store = [k \in {} |-> Null]
    /\ ret = Result("none", Null, Null, TRUE)

Put(k, v) ==
    /\ store' = [j \in DOMAIN store \cup {k} |-> IF j = k THEN v ELSE store[j]]
    /\ ret' = Result("put", k, v, TRUE)

Remove(k) ==
    /\ store' = [j \in DOMAIN store \ {k} |-> store[j]]
    /\ ret' = Result("remove", k, Null, TRUE)

Find(k) ==
    /\ ret' = Result("find", k, IF k \in DOMAIN store THEN store[k] ELSE Null, TRUE)
    /\ UNCHANGED store

Next == \E k \in Key : (\E v \in Value : Put(k, v)) \/ Remove(k) \/ Find(k)

Spec == Init /\ [][Next]_kvars
=============================================================================
