SPECIFICATION WSpec
CONSTANTS
    Texts = {t1, t2}
    Values = {one}
    Counters = {}
    Tokens = {t1, t2}
    Handlers = {h1, h2}
    Amounts = {}
    Lifetime = 3
    MaxTtl = 3
    MaxCount = 0
    MaxTime = 7
    FailsOpen = FALSE
    NULL = NULL
INVARIANTS WTypeOK EntryEndsWithToken OnlyLoggedOutAreDenied
PROPERTY DeniedUntilLastSecond
