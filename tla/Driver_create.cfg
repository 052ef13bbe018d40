\* Callers make any call at any time: Start may follow any exit at once.
SPECIFICATION Spec
CONSTANTS
    Procs = {1, 2}
    NoProc = 0
    Conns = {1, 2}
    NoMon = 0
    Users = {}
    Cids = {cid}
    NoCid = NoCid
INVARIANT CreateSparesQemu
CHECK_DEADLOCK FALSE
