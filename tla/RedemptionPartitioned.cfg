SPECIFICATION Spec
CONSTANTS
    a1 = a1
    r1 = r1
    r2 = r2
    t1 = t1
    t2 = t2
    Account = {a1}
    Redemption = {r1, r2}
    Item = {i1}
    Price = {1, 2}
    Terminal = {t1, t2}
    Handles <- PartitionedHandles
    AdjustmentSource = {s1}
    AdjustmentDelta <- AdjustmentDeltas
    RewardSource = {c1}
    RewardPoints <- ClawbackAndEarn
    NoAccount = NoAccount
INVARIANTS
    TypeOK
    StatusMatchesLedger
    PointsAccountedFor
PROPERTIES
    SettledIsFinal
    ImplementsSettlement
