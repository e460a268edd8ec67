SPECIFICATION Spec
CONSTANTS
    a = a
    abak = abak
    abakbak = abakbak
    b = b
    bbak = bbak
    Procs = {p, q}
    Names <- MCNames
    Urls = {"u"}
    Digests = {0, 1, 2, 3}
    BackupOf <- MCBackupOf
    Commands <- MCCommands
    InitialFiles <- MCInitialFiles
    Garbage = Garbage
    None = None
    MaxCommands = 2
    MaxFaults = 2
INVARIANTS AllOrNothing ReplacedIsBackedUp
PROPERTIES Terminates
CHECK_DEADLOCK FALSE
