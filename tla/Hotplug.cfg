SPECIFICATION Spec
CONSTANTS
    Users = {u1, u2}
    MaxCpus = 3
    MaxMemory = 3
    Slots = 2
    MaxFaults = 1
INVARIANTS
    TypeOK
    NoCpuTooMany
    SuccessIsEnough
    NoMemoryTooMuch
    NoBackendLeft
    RefusedForAReason
CHECK_DEADLOCK FALSE
