CONSTANTS
    Users = {u1}
    Writers = {u1}
    Readers = {u1}
    Deleters = {u1}
    Nobody = Nobody
    MaxDeleteCount = 1024
    MaxSeq = 4
    MaxDel = 1
    MaxRanges = 2
    MaxFaults = 0
SPECIFICATION Spec
INVARIANT NotAskedKept
CHECK_DEADLOCK FALSE
