CONSTANTS
    Clients = {t1, t2}
    Users = {u1}
    User = u1
    Uid <- TheUsers
    Account <- HerAccount
    Requests <- AnyCall
    MaxPrints = 1
    MaxEnders = 1
    NoUser = NoUser
    NoClient = NoClient
    NoOp = NoOp
    NoUid = NoUid
SYMMETRY Perms
SPECIFICATION AppSpec
INVARIANTS AppIInv SensorIsReleased DrivesToTheEnd
