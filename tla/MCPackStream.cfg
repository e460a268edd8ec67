SPECIFICATION Spec
CONSTANTS
    p = p
    q = q
    r = r
    one = one
    two = two
    dos = uno
    nul = nul
    Tags = {s, t, u}
    Snapshots <- MCSnapshots
    Objects <- MCObjects
    Size <- MCSize
    Modes = {"rw", "rwx"}
    DefaultMode = "rw"
    Symlink = "link"
    Nil = Nil
    Unreadable = Unreadable
    MaxFrames = 3
    MaxWorkers = 2
INVARIANTS RoundTrip FramesTile SuccessIsExact IntactIsReadable
SYMMETRY Symmetry
