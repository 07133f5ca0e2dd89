CONSTANTS
    root = root
    alice = alice
    u1 = u1
    u2 = u2
    Clients = {root, alice}
    Users = {u1, u2}
    Uid <- RootAndAlice
    Account <- Passwd
    Requests <- SomeCalls
    MaxPrints = 2
    MaxEnders = 2
    NoUser = NoUser
    NoClient = NoClient
    NoOp = NoOp
    NoUid = NoUid
SPECIFICATION Spec
CHECK_DEADLOCK FALSE
PROPERTY StopReachesOp
