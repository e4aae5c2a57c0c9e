SPECIFICATION FairSpec
CONSTANTS
    Run = {1, 2}
    Tick = {t1, t2}
    Batch = 1
    Inline = inline
    Hand = hand
    Nobody = nobody
    Slips = 1
INVARIANTS OutputExists AnswerHolds ClaimIsHeld
PROPERTIES RunsEnd
CHECK_DEADLOCK FALSE
