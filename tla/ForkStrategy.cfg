\* Two strategies share a waiter; the kernel reuses numbers of pidfds.
\* Start and Close come at any time.
SPECIFICATION Spec
CONSTANTS
    Procs = {p1, p2}
    Fds = {f1, f2}
    EventFd = ev
    NoProc = NoProc
    NoFd = NoFd
    NoStrategy = NoStrategy
    Strategies = {s1, s2}
    MaxBatch = 2
INVARIANTS
    TypeOK
    DoneMeansDead
    NoDoubleClose
    PidFdsAreOwned
PROPERTIES
    ExitIsNoticed
    ImplementsExecution
CHECK_DEADLOCK FALSE
