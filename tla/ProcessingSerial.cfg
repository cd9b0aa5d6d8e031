SPECIFICATION Spec
CONSTANTS
    a1 = a1
    a2 = a2
    Account = {a1}
    Worker = {w1}
    Event = {1, 2, 3, 4, 5, 6}
    Type <- MRType
    Member <- MRMember
    Original <- MROriginal
    Eligible <- MREligible
    Unit = 1
    FirstBonus = 2
    MaxPoints = 6
    PriorUsage <- NoUsage
    BatchSize = 2
    Faults = {"crash", "lost_failure", "lost_claim_ack"}
    NoEvent = 0
    NoWorker = NoWorker
CHECK_DEADLOCK FALSE
INVARIANTS
    RefundsWithinOriginal
    FirstBonusOnce
