SPECIFICATION Spec
CONSTANTS
    c1 = c1
    c2 = c2
    c3 = c3
    a1 = a1
    a2 = a2
    a3 = a3
    NoFd = NoFd
    Client = {c1, c2, c3}
    Addr = {a1, a2, a3}
    Menu <- OnePut
    InitDb <- OneColl
    MaxCmds = 1
    RecvMax = 2
    SendCap = 1
    Orderly = FALSE
SYMMETRY Three
CHECK_DEADLOCK FALSE
INVARIANTS
    NoDanglingOp
