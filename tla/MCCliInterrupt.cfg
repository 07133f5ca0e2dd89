CONSTANTS
    Users = {u1}
    Fingers = {f1, f2}
    MaxSlot = 1
    Stages = 2
    RecordCodes = {0, 255}
    Empty = Empty
SPECIFICATION Spec
PROPERTY FailedSessionAborts
