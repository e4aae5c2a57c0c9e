SPECIFICATION FairSpec
CONSTANTS
    Case = {c1}
    Call = {k1, k2}
INVARIANTS CaseHasRole ClosedHasOutcome
PROPERTIES ClosedIsLeftByPromotion RottingIsTold
CHECK_DEADLOCK FALSE
