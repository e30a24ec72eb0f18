SPECIFICATION FairSpec
CONSTANTS
    Servers = {1, 2}
    Ports = {11, 12}
    None = 0
    MaxPushes = 2
    MaxClicks = 1
    Troubles = 0
INVARIANTS TypeOK
PROPERTIES OnlyOldAnswersCleared PushedIsShown TabReconnects PausedTabRecovers
CHECK_DEADLOCK FALSE
