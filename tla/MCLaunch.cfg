\* Two pids, used again and again; blocks of 4 and numbers of 4 bits.
SPECIFICATION Spec
CONSTANTS
    Procs = {p1, p2}
    NoProc = NoProc
    Strategies = {"fork", "systemd"}
    Wants <- MCWants
    ciA = ciA
    ciB = ciB
    Configs = {ciA, ciB}
    NoConfig = NoConfig
    c1 = c1
    host = host
    Cids = {c1}
    NoCid = NoCid
    AnyCid = AnyCid
    Images = {4}
    Block = 4
    Word = 16
SYMMETRY Symmetric
INVARIANTS
    TypeOK
    StoppedMeansWhole
    StartedAsAsked
    OneQemuAcrossRestarts
    LeftoversAreHarmless
    DevicesAreLaidOut
