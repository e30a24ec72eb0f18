SPECIFICATION Spec
CONSTANTS
    gate = gate
    pytest = pytest
    ruff = ruff
    Self = gate
    Contexts = {gate, pytest, ruff}
    PollTimeout = 3
    PollInterval = 2
    SocketTimeout = 0
    JobTimeout = 40
    FetchSeconds <- Extremes
    MaxRuns = 2
    QueuedHasStart = TRUE
INVARIANTS TypeOK PassOnLatest TimeoutIsEarned PollBounded
SYMMETRY Symmetry
CHECK_DEADLOCK FALSE
