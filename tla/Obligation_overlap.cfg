SPECIFICATION Spec
CONSTANTS
    tvna = tvna
    fork = fork
    t1 = t1
    t2 = t2
    h1 = h1
    h2 = h2
    NoRepo = NoRepo
    NoKey = NoKey
    Unseen = Unseen
    Absent = Absent
    Corrupt = Corrupt
    Repos = {tvna, fork}
    Numbers = {1, 2}
    Prs <- TwoPrs
    NotYetOpen = {}
    Threads = {t1}
    Hooks = {h1, h2}
    PageSize = 1
    Overlap <- AllButPush
    MayFail <- AllButPush
    ReadErrors = FALSE
    Reresolve = TRUE
    Faults = TRUE
    MaxCalls = 4
SYMMETRY Symmetry
CHECK_DEADLOCK FALSE
INVARIANTS TypeOK EvidenceBacked AllowedOnlyOnEvidence
PROPERTIES UnreadableBlocks
