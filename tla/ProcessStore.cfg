SPECIFICATION PSpec
CONSTANTS
    Texts = {t1}
    Counters = {c1}
    Values = {v1}
    Amounts <- PlusMinusOne
    MaxTtl = 2
    MaxCount = 2
    MaxTime = 8
    PurgeInterval = 3
    NULL = NULL
INVARIANT MTypeOK
PROPERTIES NoOldGarbage WindowFixed ImplementsContract RedisImplementsContract
