SPECIFICATION Spec
CONSTANTS
    MaxEdits = 1
INVARIANTS ToldOnce
CHECK_DEADLOCK FALSE
