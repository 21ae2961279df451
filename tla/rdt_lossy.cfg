SPECIFICATION Spec
CONSTANTS
    LostPercent = 10
    DelayedPercent = 0
    ErrorPercent = 10
    MsgLen = 5
    FRAG_SIZE = 2
    MAX_MSG_SIZE = 8
    SOCK_BUF = 3
    SocketErrors = TRUE
    MallocLeftovers = {0}
    Prompt = FALSE
    MaxDelayed = 0
    SENDER_TIMEOUT = 1
    TIMEOUT_INTERVAL = 3
    MAX_FINAL_TIMEOUTS = 3
INVARIANTS TypeOK InductiveInv AckedIsStored ReportedMeansDelivered ReturnedTextComplete
PROPERTIES StoresOutstandingFragment ImplementsTransfer
CHECK_DEADLOCK FALSE
