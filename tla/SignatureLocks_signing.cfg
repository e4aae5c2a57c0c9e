SPECIFICATION LocksSpec
CONSTANTS
    Txn = {t1, t2, t3}
    Sweeper = {t1, t2}
    MaxCalls = 4
    Contract = {c1}
    Party = {emp, emp2}
    ContractOf <- MCContractOf
    StepOf <- MCStepOf
    Signatory <- MCRequired
    Employer <- MCEmployer
    c1 = c1
    emp = emp
    emp2 = emp2
    wit = wit
CHECK_DEADLOCK FALSE
SYMMETRY Sessions
INVARIANTS
    LockOrderKept
    ExhaustedIsHalted
PROPERTIES
    EveryCommitIsAtomic
