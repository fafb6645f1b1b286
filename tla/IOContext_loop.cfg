SPECIFICATION FairSpec
CONSTANTS
    blk = blk
    non = non
    shr = shr
    lst = lst
    tmr = tmr
    Sock = {blk, non, shr}
    Listener = {lst}
    Timer = {tmr}
    NonBlocking = {non, shr, tmr}
    Interval = {}
    Shared = {shr}
    Menu <- Calls
    SndCap = 1
    MaxBytes = 2
    MaxConns = 1
    MaxTicks = 1
CHECK_DEADLOCK FALSE
INVARIANTS
    TypeOK
    OpsConserved
    SelectHolds
    AllMeansAll
    BytesInOrder
PROPERTIES
    StopReturns
    ReadyServed
