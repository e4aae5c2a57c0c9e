SPECIFICATION EnginesSpec
CONSTANTS
    Contract = {c1}
    Chain = {1, 2}
    StepId = {1, 2, 3}
    User = {alice, bob}
    Role = {approver, counsel}
    Reassigner = {}
    RoleOf <- MCRoleOf
    Delegable = {}
    Overseer = {}
    Matrix <- MCMatrix
    NoUser = NoUser
    NoRole = NoRole
    Party = {emp, other}
    ContractOf <- MCContractOf
    StepOf <- MCStepOf
    Signatory = {emp, other}
    Employer = {emp}
    c1 = c1
    alice = alice
    bob = bob
    approver = approver
    counsel = counsel
    emp = emp
    other = other
CHECK_DEADLOCK FALSE
PROPERTIES
    RollbackIsCancellation
