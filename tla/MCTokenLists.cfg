SPECIFICATION Spec
CONSTANTS
    Kinds <- Three
    MaxAmount = 2
    MaxLength = 3
CHECK_DEADLOCK FALSE
INVARIANTS
    Correct
PROPERTIES
    Terminates
