SPECIFICATION MCSpec
CONSTANTS
    a = a
    b = b
    i = i
    j = j
    q = q
    Names = {a, b}
    Targets <- MirrorAndSingle
    Writes <- OneEach
    Images = {i, j}
    MaxSegs = 2
    Absent = Absent
    NoName = NoName
    NoBackup = NoBackup
    Procs = {p, q}
    NoProc = NoProc
    Faults = TRUE
INVARIANT TypeOK
INVARIANT VisibleWhole
INVARIANT TouchedOutputRecoverable
INVARIANT CommittedOutputComplete
PROPERTY Atomic
PROPERTY RecoveryDecides
