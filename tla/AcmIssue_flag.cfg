SPECIFICATION Spec
CONSTANTS
    MaxEdits = 4
INVARIANTS TypeOK FlagMatchesBody
PROPERTIES ToldByOneCall
CHECK_DEADLOCK FALSE
