CONSTANTS
    root = root
    alice = alice
    u1 = u1
    u2 = u2
    Clients = {root, alice}
    Users = {u1, u2}
    Uid <- RootAndAlice
    Account <- Passwd
    Requests <- SomeCalls
    MaxPrints = 1
    MaxEnders = 1
    NoUser = NoUser
    NoClient = NoClient
    NoOp = NoOp
    NoUid = NoUid
SPECIFICATION FairSpec
CHECK_DEADLOCK FALSE
INVARIANTS ActsForGuardedUser BusyWhileOp
PROPERTIES CallsReturn OpReachesWorker SleepIsFollowed ExitIsReached
