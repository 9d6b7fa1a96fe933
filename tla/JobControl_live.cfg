SPECIFICATION FairSpec
CONSTANTS
    Procs = {p1, p2, p3}
    NoProc = NoProc
    Commands = {"bg", "fg", "ps", "server", "exit"}
    AllocFails = FALSE
PROPERTIES
    ZombiesReaped
    EveryJobAnnounced
    PromptReturns
