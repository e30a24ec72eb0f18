SPECIFICATION FairSpec
CONSTANTS
    main = main
    other = other
    ruff = ruff
    Names = {main, other}
    Contexts = {ruff}
    Commits <- ThreeFiles
    Settings <- ThreeSettings
    PageSize = 1
    MaxPages = 3
    None = None
    Edits = 2
    Troubles = 1
INVARIANTS TypeOK AppliedIsLive
PROPERTIES ScanTellsTheTruth WritesOnlyItsOwn RunsReconcile
CHECK_DEADLOCK FALSE
