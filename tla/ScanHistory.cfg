SPECIFICATION FairHSpec
CONSTANTS
    m1 = m1
    Admins = {}
    Managers = {m1}
    SeedClients <- OneClient
    CpuLevels = {0, 90}
    CpuWarning = 80
    LongStopped = 1
    MaxLatency = 0
    MaxClients = 1
    MaxInstances = 3
    MaxAlerts = 6
    MaxTime = 0
    NULL = NULL
    Handlers = {h1, h2}
    BatchSize = 2
    Requests <- Mixed
PROPERTIES ScanCompleteness EveryRequestEnds
