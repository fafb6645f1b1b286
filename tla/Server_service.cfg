SPECIFICATION Spec
CONSTANTS
    c1 = c1
    c2 = c2
    c3 = c3
    a1 = a1
    a2 = a2
    a3 = a3
    NoFd = NoFd
    Client = {c1, c2}
    Addr = {a1, a2}
    Menu <- Pipelined
    InitDb <- OneColl
    MaxCmds = 3
    RecvMax = 3
    SendCap = 1
    Orderly = TRUE
SYMMETRY Nodes
CHECK_DEADLOCK FALSE
INVARIANTS
    TypeOK
    PutsAreSeen
    StreamIsRest
PROPERTY ImplementsService
