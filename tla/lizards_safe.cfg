SPECIFICATION Spec
CONSTANTS
    NUM_LIZARDS = 3
    NUM_CATS = 0
    MAX_LIZARD_CROSSING = 2
    UNIDIRECTIONAL = TRUE
INVARIANTS TypeOK InductiveInv CatsFindNoToys EndsBalanced CountersExact NoPileUpMissed
PROPERTIES ImplementsDriveway
CHECK_DEADLOCK FALSE
