SPECIFICATION FairGSpec
CONSTANTS
    i1 = i1
    quiet = quiet
    alarmed = alarmed
    Instances = {i1}
    Contexts = {quiet, alarmed}
    Handlers = {h1, h2}
    Callers = {h1, h2}
    MayRaise = TRUE
    Texts <- Questions
    Values <- Answers
    Counters = {}
    Amounts = {}
    Rules = Rules
    CacheTtl = 1
    MaxTtl = 1
    MaxCount = 0
    MaxTime = 3
    FailsOpen = TRUE
    NULL = NULL
    NONE = NONE
INVARIANTS GTypeOK AnswersTheQuestion SourceHonest BuiltOnce
PROPERTY EveryDiagnosisAnswered
