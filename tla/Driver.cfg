\* Callers make any call at any time, also of the methods without a lock.
SPECIFICATION SafeSpec
CONSTANTS
    Procs = {1, 2}
    NoProc = 0
    Conns = {1}
    NoMon = 0
    Users = {u}
    Cids = {}
    NoCid = NoCid
INVARIANTS
    TypeOK
    OneQemu
    StopMeansDead
    FailedStartIsKilled
    CreateNeedsNoQemu
PROPERTIES
    KeepsStrategyContract
CHECK_DEADLOCK FALSE
