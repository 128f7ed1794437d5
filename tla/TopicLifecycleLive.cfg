CONSTANTS
    Sessions = {s1, s2}
    None = None
    Events = {{"close", "loaderror", "timeout"}}
    MaxTopics = 3
    MaxReqs = 3
    QueueCap = 2
SPECIFICATION FairSpec
PROPERTIES AnsweredOrStranded CleanUpEnds IdleUnloaded
CHECK_DEADLOCK FALSE
