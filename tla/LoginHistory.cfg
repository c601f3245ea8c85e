SPECIFICATION BSpec
CONSTANTS
    Texts = {}
    Values = {}
    Counters = {a1, a2, p1}
    Accounts = {a1, a2}
    Addresses = {p1}
    Handlers = {h1, h2}
    Amounts <- PlusMinusOne
    AccountLimit = 1
    AddressLimit = 2
    Window = 2
    MaxTtl = 2
    MaxCount = 3
    MaxTime = 5
    FailsOpen = FALSE
    NULL = NULL
INVARIANTS CounterExplained AccountLimitHolds
PROPERTIES NoUndueRefusal RetryAfterSuffices
SYMMETRY Symmetry
