CONSTANTS
    Users = {a, b}
    Creator = a
    NoOne = NoOne
    Unset = Unset
    Default <- J
    UserDefault <- J
    Wants <- WantsMany
    Grants <- GrantsMany
    ModeCChnReader <- JR
    Readers = {b}
    Absent = {b}
    MaxSubscriberCount = 2
    MaxOnline = 1
    MaxFaults = 1
    MaxChanFaults = 0
    MaxOutside = 1
SPECIFICATION Spec
INVARIANTS OwnersAgree GivenByOwner BansKept AttachedAllowed MirrorsStore
CHECK_DEADLOCK FALSE
