\* A Ceph volume and an image file, two callers.
SPECIFICATION Spec
CONSTANTS
    Volumes = {ceph, file}
    Rbd = {ceph}
    Users = {u1, u2}
    NoVolume = NoVolume
    MaxFaults = 2
INVARIANTS
    TypeOK
    SuccessIsLasting
    FailsForAReason
CHECK_DEADLOCK FALSE
