SPECIFICATION Spec
CONSTANTS
    Contract = {c1}
    Chain = {1}
    StepId = {1,2,3,4}
    User = {alice,bob}
    Role = {approver, counsel}
    Reassigner = {alice}
    RoleOf <- MCRoleOf
    Delegable = {approver}
    Overseer = {counsel}
    Matrix <- MCEscalateMatrix
    NoUser = NoUser
    NoRole = NoRole
    alice = alice
    bob = bob
    carol = carol
    approver = approver
    counsel = counsel
CHECK_DEADLOCK FALSE
INVARIANTS
    GroupsSettled
    AssignmentKept
