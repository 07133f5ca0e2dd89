CONSTANTS
    SecretLen = 2
    PipeCap = 1
    ErrCap = 2
    MaxNoise = 4
SPECIFICATION FairSpec
CHECK_DEADLOCK FALSE
INVARIANTS IInv WholeOrNothing Reaped PipesDrained
PROPERTIES ReadersEnd ImplementsUnseal
