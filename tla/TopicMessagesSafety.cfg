CONSTANTS
    u1 = u1
    u2 = u2
    a = a
    b = b
    c = c
    Users = {u1, u2}
    Writers = {u1, u2}
    Readers = {u2}
    Deleters = {u1}
    Nobody = Nobody
    MaxDeleteCount = 1024
    MaxSeq = 2
    MaxDel = 2
    MaxRanges = 1
    MaxFaults = 1
    Sessions = {a, b, c}
    UserOf <- SessionUser
    Proxied = {c}
    Node = Node
    MaxCallSeq = 4
    MaxQueued = 1
SPECIFICATION CallSpec
INVARIANTS AckedKept ReloadInvisible DeletedGone NotAskedKept LogReported CallTold CallSettled TimerOfPending
CHECK_DEADLOCK FALSE
