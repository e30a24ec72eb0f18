SPECIFICATION FairSpec
CONSTANTS
    Issues = {1, 2}
    Poisoned = {1}
    Sessions = 1
    Openings = 3
    Reopenings = 1
    Faults = 2
INVARIANTS TypeOK ToldOnce EveryCloseTold OneRetrospective
PROPERTY StubsAreCleared
CHECK_DEADLOCK FALSE
