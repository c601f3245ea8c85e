SPECIFICATION SSpec
CONSTANTS
    m1 = m1
    Admins = {}
    Managers = {m1}
    SeedClients <- OneClient
    CpuLevels = {0}
    CpuWarning = 0
    LongStopped = 2
    MaxLatency = 1
    MaxClients = 1
    MaxInstances = 2
    MaxAlerts = 1
    MaxTime = 3
    NULL = NULL
    UnitPrices <- NoPrices
    Threshold = 50000
    FirstMonth = 12
    MonthLength = 4
    MonthOffset = 3
INVARIANTS TypeOK ClockNeverAhead CreditExplained NoFalseAlarm
PROPERTIES LongStoppedIsLong
