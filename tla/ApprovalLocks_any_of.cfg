SPECIFICATION LocksSpec
CONSTANTS
    Txn = {t1, t2}
    MaxCalls = 6
    Contract = {c1}
    Chain = {1, 2}
    StepId = {1, 2, 3}
    User = {alice}
    Role = {approver, counsel}
    Reassigner = {alice}
    RoleOf <- MCRoleOf
    Delegable = {}
    Overseer = {}
    Matrix <- AnyOf
    NoUser = NoUser
    NoRole = NoRole
    bob = bob
    approver = approver
    counsel = counsel
SYMMETRY Sessions
CHECK_DEADLOCK FALSE
INVARIANTS
    LockOrderKept
PROPERTIES
    EveryCommitIsAtomic
