SPECIFICATION FairSpec
CONSTANTS
    NumRouters = 3
    INF = 999
    NULL = NULL
    Garbage = Garbage
    StartedWith <- Starts
    MatrixSize = 4
    Weights = {1, 3, 998, 999}
INVARIANTS TypeOK HeardIsTrue SenderIsNamed NoCircularHearing DijkstraDistancesRight DijkstraForwardsRight
PROPERTIES ImplementsExchange RoutersReturn
CHECK_DEADLOCK FALSE
