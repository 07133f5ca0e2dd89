CONSTANTS
    Users = {u1}
    Fingers = {f1}
    MaxSlot = 1
    Stages = 2
    FwMinor = 1
    RecordCodes = {0, 255}
    NoUser = NoUser
    Empty = Empty
    AnyFinger = AnyFinger
SPECIFICATION FairSpec
PROPERTIES StopEnds MutexFreed
CHECK_DEADLOCK FALSE
