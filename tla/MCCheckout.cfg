SPECIFICATION Spec
CONSTANTS
    d = d
    x = x
    y = y
    Paths = {d, x, y}
    Parent <- MCParent
    Values = {v, l}
    Links = {l}
    v = v
    l = l
    Snapshots <- MCSnapshots
    Packed = {a, b}
    Stored = {s}
    UserData = UserData
    Dir = Dir
    None = None
INVARIANTS  OutsideUntouched ChecksSuffice
PROPERTIES FreshEditsKept UntrackedKept
SYMMETRY Symmetry
