SPECIFICATION CSpec
CONSTANTS
    m1 = m1
    Admins = {admin}
    Managers = {m1}
    SeedClients <- NoClients
    CpuLevels = {0, 90}
    CpuWarning = 80
    LongStopped = 1
    MaxLatency = 1
    MaxClients = 1
    MaxInstances = 2
    MaxAlerts = 2
    MaxTime = 1
    NULL = NULL
    Handlers = {h1}
    BatchSize = 1
    Requests <- Everything
INVARIANTS CTypeOK OneOpenAlert NoOrphanAlert
PROPERTIES Spec ResolvedIsFinal
