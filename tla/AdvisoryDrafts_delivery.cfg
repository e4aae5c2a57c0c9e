SPECIFICATION FairSpec
CONSTANTS
    Draft = {d1}
    Call = {k1, k2}
    Tick = {t1, t2}
    MaxRetry = 5
    Slips = 1
INVARIANTS MailedIsApproved SentWasAccepted
PROPERTIES MailSettles
CHECK_DEADLOCK FALSE
