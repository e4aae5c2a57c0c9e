SPECIFICATION FairSpec
CONSTANTS
    Version = {1, 2}
    Sweep = {s1, s2}
    Tick = {t1}
    Window = 1
    Reach = 1
    MaxAttempts = 1
    Muted = {1}
    Faults = 1
INVARIANTS ExtractingIsHeld ClausesHaveText
PROPERTIES VersionsSettle CompleteIsTakenUp
CHECK_DEADLOCK FALSE
