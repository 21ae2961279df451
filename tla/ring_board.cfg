SPECIFICATION FairSpec
CONSTANTS
    Peers = {p1, p2}
    Server = Server
    Nowhere = Nowhere
    Typed <- TypedOneWriter
    MaxCommands = 2
    PromptServer = TRUE
PROPERTIES ImplementsBoard TokenVisitsAll
