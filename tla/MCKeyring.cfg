CONSTANTS
    Keys = {k1, k2, k3, k4, k5, k6}
    Account = Account
    NoKey = NoKey
    Broken = Broken
SPECIFICATION TabSpec
CHECK_DEADLOCK FALSE
SYMMETRY Interchangeable
INVARIANTS TabIInv TabTellsTheTruth RotationKeepsKey EndsInStep
PROPERTIES WiredAfterSeal KeyedAfterSave
