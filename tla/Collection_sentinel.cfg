SPECIFICATION Spec
CONSTANTS
    k1 = k1
    k2 = k2
    k3 = k3
    Key = {k1, k2}
    Value = {v1, v2}
    Null = Null
    Hash <- ZeroHash
    MaxHash = 15
    InitBuckets = 4
    MaxDocs = 4
    Guarded = TRUE
INVARIANT PutIsVisible
CHECK_DEADLOCK FALSE
