SPECIFICATION Spec
CONSTANTS
    Peers = {p1, p2}
    Server = Server
    Nowhere = Nowhere
    Typed <- TypedAll
    MaxCommands = 1
    PromptServer = TRUE
INVARIANTS IdsSequential
CHECK_DEADLOCK FALSE
