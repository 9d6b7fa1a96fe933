SPECIFICATION FairSpec
CONSTANTS
    Shells = {s1, s2}
    Pids = {p1, p2}
    NoPid = NoPid
    MaxTries = 3
INVARIANTS
    NoServerForgotten
    OneServerPerPort
PROPERTY CloseEnds
