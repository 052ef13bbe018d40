\* Callers of the locked methods make any call at any time.
SPECIFICATION CreatedSpec
CONSTANTS
    Procs = {1, 2}
    NoProc = 0
    Conns = {1}
    NoMon = 0
    Users = {}
    Cids = {}
    NoCid = NoCid
PROPERTIES
    LockIsReleased
    ExitIsHandled
CHECK_DEADLOCK FALSE
