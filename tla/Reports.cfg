SPECIFICATION Spec
CONSTANTS
    m1 = m1
    m2 = m2
    Admins = {admin}
    Managers = {m1, m2}
    SeedClients <- OneClient
    CpuLevels = {0, 90}
    CpuWarning = 80
    LongStopped = 1
    MaxLatency = 0
    MaxClients = 2
    MaxInstances = 2
    MaxAlerts = 1
    MaxTime = 1
    NULL = NULL
    UnitPrices <- Prices
    Threshold = 0
    FirstMonth = 12
    MonthLength = 1
    MonthOffset = 0
    Sizes = {1, 2, 3}
    Costs = {50, 250}
INVARIANTS FiguresAgree PagesPartition
PROPERTIES ScopeIsolation WalkFaithful
