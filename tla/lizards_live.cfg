SPECIFICATION FairSpec
CONSTANTS
    NUM_LIZARDS = 2
    NUM_CATS = 1
    MAX_LIZARD_CROSSING = 1
    UNIDIRECTIONAL = FALSE
PROPERTIES MainReturns WaitingLizardCrosses
CHECK_DEADLOCK FALSE
