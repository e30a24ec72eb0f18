SPECIFICATION Spec
CONSTANTS
    tvna = tvna
    fork = fork
    t1 = t1
    t2 = t2
    h1 = h1
    h2 = h2
    NoRepo = NoRepo
    NoKey = NoKey
    Unseen = Unseen
    Absent = Absent
    Corrupt = Corrupt
    Repos = {tvna, fork}
    Numbers = {1, 2}
    Prs <- OnePr
    NotYetOpen = {}
    Threads = {t1, t2}
    Hooks = {h1}
    PageSize = 2
    Overlap = {}
    MayFail = {}
    ReadErrors = FALSE
    Reresolve = FALSE
    Faults = FALSE
    MaxCalls = 5
CHECK_DEADLOCK FALSE
INVARIANTS KnownThreadsResolved
