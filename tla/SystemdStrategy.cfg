SPECIFICATION Spec
CONSTANTS
    Units = {u1, u2}
    NoUnit = NoUnit
INVARIANTS
    TypeOK
    NoDoubleClose
PROPERTIES
    ExitIsNoticed
    ImplementsExecution
CHECK_DEADLOCK FALSE
