SPECIFICATION Spec
CONSTANTS
    NUM_LIZARDS = 2
    NUM_CATS = 0
    MAX_LIZARD_CROSSING = 1
    UNIDIRECTIONAL = FALSE
INVARIANTS NoNamingContention
CHECK_DEADLOCK FALSE
