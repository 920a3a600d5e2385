SPECIFICATION FairSpec
CONSTANTS
    t1 = t1
    t2 = t2
    none = none
    Task = {t1, t2}
    MaxRuns = 1
    MaxMessages = 1
    MaxEvents = 2
    NoTimer = none
INVARIANTS
    DeliveryIsComing
    ToldOnce
    SettledCancel
PROPERTIES
    CandidatesAreSettled
    CompletionsAreNoted
CHECK_DEADLOCK FALSE
