SPECIFICATION LossyFairSpec
CONSTANTS
    LostPercent = 10
    DelayedPercent = 50
    ErrorPercent = 10
    MsgLen = 5
    FRAG_SIZE = 2
    MAX_MSG_SIZE = 8
    SOCK_BUF = 3
    SocketErrors = FALSE
    MallocLeftovers = {0}
    Prompt = TRUE
    MaxDelayed = 3
    SENDER_TIMEOUT = 7
    TIMEOUT_INTERVAL = 3
    MAX_FINAL_TIMEOUTS = 3
INVARIANTS TextIsPrefix
PROPERTIES ImplementsTransfer SenderReturns EventuallyDelivered ReceiverReturns
CHECK_DEADLOCK FALSE
