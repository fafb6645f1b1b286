SPECIFICATION Spec
CONSTANTS
    Primitive <- Types
    MaxFields = 3
    MaxSchemas = 1
CHECK_DEADLOCK FALSE
INVARIANTS TypeOK MembersAligned MembersInBounds PadsLikeC
