SPECIFICATION FairSpec
CONSTANTS
    a1 = a1
    a2 = a2
    Account = {a1, a2}
    Worker = {w1, w2}
    Event = {1, 2, 3, 4}
    Type <- TMType
    Member <- TMMember
    Original <- TMOriginal
    Eligible <- TMEligible
    Unit = 1
    FirstBonus = 2
    MaxPoints = 6
    PriorUsage <- SomeUsage
    BatchSize = 2
    Faults = {"lost_commit_ack"}
    NoEvent = 0
    NoWorker = NoWorker
CHECK_DEADLOCK FALSE
INVARIANTS
    LedgerMatchesCalculation
PROPERTIES
    ImplementsOutcomes
    EventuallySettled
