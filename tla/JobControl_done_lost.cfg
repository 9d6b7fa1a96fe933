SPECIFICATION Spec
CONSTANTS
    Procs = {p1, p2}
    NoProc = NoProc
    Commands = {"bg", "other", "exit"}
    AllocFails = FALSE
INVARIANT
    EveryEndReported
