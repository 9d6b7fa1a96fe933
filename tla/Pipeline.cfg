SPECIFICATION Spec
CONSTANTS
    N = 3
    Items = 2
    Capacity = 1
    MaxPolls = 2
    Habits = {"filter", "brief", "stubborn", "unknown"}
    Modes = {"fg", "bg"}
    Faults = {"pipe", "dup", "fork"}
INVARIANTS
    EverythingArrives
    EndsHandedOut
    NothingHeld
    NobodyLeftBehind
    DoneMeansDone
PROPERTIES
    PromptComesBack
    PipelineDrains
