SPECIFICATION Spec
CONSTANTS
    grocery = grocery
    fuel = fuel
    online = online
    store = store
    Drafts <- MCDrafts
    Purchases <- MCPurchases
    Category = {grocery, fuel, NoCategory}
    NoCategory = NoCategory
    NoGraph = NoGraph
    NoLimit = NoLimit
    Unit = 1
    DaysPerMonth = 2
CHECK_DEADLOCK FALSE
INVARIANTS
    TypeOK
    LimitsHold
    UsageIsSelection
    LimitsNeverRaise
    HighestWins
    WaterfallEarnsOnce
    DependenciesRespected
    DependenciesEvaluatedFirst
