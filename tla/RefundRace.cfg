SPECIFICATION Spec
CONSTANTS
    a1 = a1
    a2 = a2
    Account = {a1}
    Worker = {w1, w2}
    Event = {1, 2, 3, 4}
    Type <- PRType
    Member <- PRMember
    Original <- PROriginal
    Eligible <- PREligible
    Unit = 1
    FirstBonus = 2
    MaxPoints = 6
    PriorUsage <- NoUsage
    BatchSize = 2
    Faults = {}
    NoEvent = 0
    NoWorker = NoWorker
CHECK_DEADLOCK FALSE
INVARIANT
    RefundsWithinOriginal
