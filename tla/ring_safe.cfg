SPECIFICATION Spec
CONSTANTS
    Peers = {p1, p2, p3}
    Server = Server
    Nowhere = Nowhere
    Typed <- TypedAll
    MaxCommands = 1
    PromptServer = FALSE
SYMMETRY AnyPeer
INVARIANTS TypeOK OnePasser LockInv DestroyIsSafe
CHECK_DEADLOCK FALSE
