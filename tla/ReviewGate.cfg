SPECIFICATION FairSpec
CONSTANTS
    Commits = {1, 2}
    BotCommits = {1}
    TrustedOpener = TRUE
    Contexts = {"pytest", "ruff"}
    Bodies <- MCBodies
    Reruns = TRUE
    MaxEvents = 2
    MaxChecks = 3
INVARIANTS TypeOK MergedIsVouched GateFollowsBody
PROPERTIES VerdictTurnsGreen
CHECK_DEADLOCK FALSE
