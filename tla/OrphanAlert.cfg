SPECIFICATION CSpec
CONSTANTS
    m1 = m1
    Admins = {}
    Managers = {m1}
    SeedClients <- OneClient
    CpuLevels = {0, 90}
    CpuWarning = 80
    LongStopped = 1
    MaxLatency = 0
    MaxClients = 1
    MaxInstances = 1
    MaxAlerts = 2
    MaxTime = 0
    NULL = NULL
    Handlers = {h1, h2}
    BatchSize = 1
    Requests <- OrphanRace
INVARIANT NoOrphanAlert
