SPECIFICATION Spec
CONSTANTS
    Procs = {p1, p2}
    Tags = {a, b}
    Objects = {o1, o2}
    Contents = {{o1}, {o1, o2}}
    Packs = {n1}
    ForcePack = FALSE
    Absent = Absent
    Reserved = Reserved
    Loose = Loose
INVARIANTS TagSurvives
