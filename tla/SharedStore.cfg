CONSTANTS
    AddToTags = TRUE
    MaxRetries = 1
    Workers = {0, 1, 2}
    MaxSessions <- Sessions
    MaxRequests <- Requested
    MaxFaults <- Faults
    MaxHours = 1
SPECIFICATION Spec
INVARIANTS CreatedWhole RequiredKept TagsMatch UploadKept FailedUploadGone LinkedKept
PROPERTY Isolated
CHECK_DEADLOCK FALSE
