SPECIFICATION FairSvSpec
CONSTANTS
    Workers = {w1, w2}
    Front = w1
    None = None
    Tables <- TwoTables
    MaxCrashes = 1
    Logins = {l1}
    Listings = {m1}
    Diagnoses = {d1, d2}
    Threads = 2
    Connections = 2
INVARIANTS SvTypeOK SeededOnce NoIdleHolders ThreadsNeverEmptyThePool
PROPERTIES EveryRequestAnswered EveryWorkerServes
CHECK_DEADLOCK FALSE
