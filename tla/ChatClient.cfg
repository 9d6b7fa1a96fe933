SPECIFICATION Spec
CONSTANTS
    MaxTyped <- ThreeThenOne
    MaxChunk = 3
    MaxSessions = 2
    Faults = {"connect", "fork", "stall", "steal"}
INVARIANTS
    ShellOutlivesChat
    NothingLeftOver
    LeftForAReason
    NoLineLost
PROPERTIES
    ClientEnds
    NoOrphan
