SPECIFICATION FairSpec
CONSTANTS
    Procs = {p1, p2, p3, p4, p5}
    Writers = {p1, p2, p4}
    ReadOnly = {p4}
    Nothing = Nothing
INVARIANTS StableView FlagHonest
PROPERTIES Termination
