CONSTANTS
    Users = {a, b}
    Creator = a
    NoOne = NoOne
    Unset = Unset
    Default <- J
    UserDefault <- J
    Wants <- WantsMany
    Grants <- GrantsMany
    ModeCChnReader <- JR
    Readers = {}
    Absent = {}
    MaxSubscriberCount = 2
    MaxOnline = 1
    MaxFaults = 0
    MaxChanFaults = 0
    MaxOutside = 0
SPECIFICATION Spec
INVARIANT OneOwner
CHECK_DEADLOCK FALSE
