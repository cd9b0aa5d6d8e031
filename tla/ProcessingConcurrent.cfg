SPECIFICATION ReportingSpec
CONSTANTS
    a1 = a1
    Account = {a1}
    Worker = {w1, w2}
    Event = {1, 2, 3}
    Type <- REType
    Member <- REMember
    Original <- REOriginal
    Eligible <- REEligible
    Unit = 1
    FirstBonus = 2
    MaxPoints = 6
    PriorUsage <- REUsage
    BatchSize = 2
    Faults = {"crash", "lost_failure", "lost_claim_ack"}
    NoEvent = 0
    NoWorker = NoWorker
    Redemption = {r1}
    Redeemer <- Redeemers
    Cost <- TwoPoints
    AdjustmentSource = {}
    Adjusted <- Adjustees
    AdjustmentDelta <- Corrections
    Exporter = {x1}
    Date = {1, 2}
    Requested <- TodayThenAgain
    NoDate = 9
SYMMETRY Calls
CHECK_DEADLOCK FALSE
INVARIANTS
    ClaimedOnce
    OutcomeRecorded
    UsageMatchesAwards
    LimitRespected
    SettledExportReproducible
    ReportingTypeOK
PROPERTY
    LiabilityIsBalances
