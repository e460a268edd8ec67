SPECIFICATION FairSpec
CONSTANTS
    Creators = {c1, c2}
    Forcers = {f1}
    Inode = {i1, i2, i3, i4, i5, i6}
    Nobody = Nobody
INVARIANTS TypeOK SingleOwner NoTornPublish
PROPERTIES CreatorNeverReplaced ImplementsWriteOnce OneWins
