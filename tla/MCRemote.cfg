SPECIFICATION Spec
CONSTANTS
    Procs = {p, q}
    Packs = {n}
    MaxVersion = 2
    None = None
    Broken = Broken
INVARIANTS FreshIsCurrent UpdateConverges
PROPERTIES CloneIsComplete
