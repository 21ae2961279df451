SPECIFICATION Spec
CONSTANTS
    LostPercent = 0
    DelayedPercent = 0
    ErrorPercent = 0
    MsgLen = 5
    FRAG_SIZE = 2
    MAX_MSG_SIZE = 6
    SOCK_BUF = 2
    SocketErrors = FALSE
    MallocLeftovers = {0}
    Prompt = TRUE
    MaxDelayed = 0
    SENDER_TIMEOUT = 2
    TIMEOUT_INTERVAL = 3
    MAX_FINAL_TIMEOUTS = 3
INVARIANTS ReportedMeansDelivered
CHECK_DEADLOCK FALSE
