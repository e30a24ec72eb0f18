SPECIFICATION FairSpec
CONSTANTS
    Tools = {"apm", "rtk"}
    Wrapped = {"apm"}
    Apm = "apm"
    Pins = {1, 2}
    Locks = {3, 4}
    Commits <- MCCommits
    Checkouts = {5, 6}
    None = 0
    Partial = 9
    Troubles = 2
INVARIANTS TypeOK ReceiptsVouch ReadyIsWhole SuccessIsComplete
PROPERTIES ReplacedOnlyByVerified SessionsSucceed
CHECK_DEADLOCK FALSE
