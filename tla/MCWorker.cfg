CONSTANTS
    Users = {u1, u2}
    Fingers = {f1}
    MaxSlot = 1
    Stages = 2
    FwMinor = 1
    RecordCodes = {0, 1, 255}
    NoUser = NoUser
    Empty = Empty
    AnyFinger = AnyFinger
SPECIFICATION Spec
CHECK_DEADLOCK FALSE
SYMMETRY Interchangeable
INVARIANTS IInv Ownership MatchIsGenuine ArmedTouchWait CommitAboveCount
PROPERTIES OneTerminal ErasesAsAsked ImplementsRegistry
