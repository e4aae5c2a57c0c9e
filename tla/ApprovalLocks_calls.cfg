SPECIFICATION LocksFairSpec
CONSTANTS
    Txn = {t1, t2}
    MaxCalls = 5
    Contract = {c1}
    Chain = {1, 2}
    StepId = {1, 2}
    User = {alice, bob}
    Role = {approver, counsel}
    Reassigner = {alice}
    RoleOf <- MCRoleOf
    Delegable = {}
    Overseer = {}
    Matrix <- RequiredPeers
    NoUser = NoUser
    NoRole = NoRole
    bob = bob
    approver = approver
    counsel = counsel
CHECK_DEADLOCK FALSE
PROPERTIES
    EveryCallEnds
