\* Callers make any call at any time.
SPECIFICATION Spec
CONSTANTS
    Procs = {1, 2}
    NoProc = 0
    Conns = {1, 2}
    NoMon = 0
    Users = {}
    Cids = {cid}
    NoCid = NoCid
INVARIANT VsockCidIsThatOfVM
CHECK_DEADLOCK FALSE
