CONSTANTS
    Tasks = {t1, t2}
    NoTask = NoTask
    Fingers = {left, right}
    NoFinger = NoFinger
    Cap = 1
SYMMETRY Perms
SPECIFICATION Spec
CHECK_DEADLOCK FALSE
INVARIANTS IInv ScreenTellsTheTruth ListIsCurrent NobodyDrivesAlone
