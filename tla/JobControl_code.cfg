SPECIFICATION Spec
CONSTANTS
    Procs = {p1, p2, p3, p4}
    NoProc = NoProc
    Commands = {"bg", "fg", "ps", "server", "other", "exit"}
    AllocFails = TRUE
SYMMETRY Symmetry
INVARIANTS
    NoZombieForgotten
    DoneTruthful
    DoneNotLost
    JobsAlive
    ListWhole
    IdsDistinct
    CounterReset
PROPERTY
    TableSpec
