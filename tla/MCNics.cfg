\* Two callers, two adapters and two free ports.
SPECIFICATION Spec
CONSTANTS
    Adapters = {a, b}
    Ports = {1, 2}
    Users = {u1, u2}
    NoAdapter = NoAdapter
    NoPort = NoPort
    MaxCpus = 2
    MaxFaults = 1
INVARIANTS
    TypeOK
    SuccessIsLasting
    NoFdIsLeft
PROPERTIES
    FailsForAReason
SYMMETRY Symmetry
CHECK_DEADLOCK FALSE
