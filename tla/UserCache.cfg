CONSTANTS
    Users = {u1, u2}
    TopicSet = {t1, t2}
    Bounds <- AllBounds
SPECIFICATION FairSpec
INVARIANTS ReadOnce ReceiptsWait TopicsCounted NeverUndercounts
PROPERTY ReceiptsSent
CHECK_DEADLOCK FALSE
