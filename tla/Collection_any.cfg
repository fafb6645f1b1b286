SPECIFICATION Spec
CONSTANTS
    k1 = k1
    k2 = k2
    k3 = k3
    Key = {k1, k2, k3}
    Value = {v1, v2}
    Null = Null
    Hash <- AnyHash
    MaxHash = 15
    InitBuckets = 2
    MaxDocs = 3
    Guarded = FALSE
INVARIANTS NoWildIndex PutNeverFails PutIsVisible
CHECK_DEADLOCK FALSE
SYMMETRY Symmetric
