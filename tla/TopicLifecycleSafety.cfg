CONSTANTS
    Sessions = {s1, s2}
    None = None
    Events = {{"timeout", "delete", "dberror", "unsub", "rehash", "close"},
              {"timeout", "delete", "deluser", "loaderror", "shutdown"}}
    MaxTopics = 2
    MaxReqs = 3
    QueueCap = 1
SPECIFICATION Spec
SYMMETRY Symmetry
INVARIANTS OneRequest AttachedBothWays LiveIsRegistered
CHECK_DEADLOCK FALSE
