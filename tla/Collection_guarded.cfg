SPECIFICATION Spec
CONSTANTS
    k1 = k1
    k2 = k2
    k3 = k3
    Key = {k1, k2, k3}
    Value = {v1, v2}
    Null = Null
    Hash <- MCHash
    MaxHash = 15
    InitBuckets = 2
    MaxDocs = 4
    Guarded = TRUE
INVARIANTS TypeOK IndexInv RehashInv NoDuplicateDocs NeverAborts
PROPERTY ImplementsKVStore
SYMMETRY Symmetric
