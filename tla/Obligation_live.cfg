SPECIFICATION FairSpec
CONSTANTS
    tvna = tvna
    fork = fork
    t1 = t1
    t2 = t2
    h1 = h1
    h2 = h2
    NoRepo = NoRepo
    NoKey = NoKey
    Unseen = Unseen
    Absent = Absent
    Corrupt = Corrupt
    Repos = {tvna, fork}
    Numbers = {1, 2}
    Prs <- SameNumber
    NotYetOpen <- OnlyFork
    Threads = {t1}
    Hooks = {h1}
    PageSize = 1
    Overlap = {}
    MayFail = {}
    ReadErrors = TRUE
    Reresolve = TRUE
    Faults = FALSE
    MaxCalls = 3
PROPERTIES BlockedTurnCanEnd ImplementsTurnGate
