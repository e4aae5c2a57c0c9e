SPECIFICATION FairSpec
CONSTANTS
    Contract = {c1, c2}
    Party = {emp, emp2, wit, other, emp3}
    ContractOf <- MCContractOf
    StepOf <- MCStepOf
    Signatory <- MCRequired
    Employer <- MCEmployer
    c1 = c1
    c2 = c2
    emp = emp
    emp2 = emp2
    wit = wit
    wit2 = wit2
    other = other
    emp3 = emp3
CHECK_DEADLOCK FALSE
INVARIANTS
    RefusalIsFinal
    AwaitingHasSigner
    ExecutedIsCovered
PROPERTIES
    AnswersStay
    HaltsWhenExhausted
    DueSettles
