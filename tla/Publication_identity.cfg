SPECIFICATION MCSpec
CONSTANTS
    a = a
    b = b
    i = i
    j = j
    q = q
    Names = {a, b}
    Targets <- MirrorAndSingle
    Writes <- OneEach
    Images = {i, j}
    MaxSegs = 1
    Absent = Absent
    NoName = NoName
    NoBackup = NoBackup
    Procs = {p}
    NoProc = NoProc
    Faults = FALSE
INVARIANT InterruptedIsRecoverable
