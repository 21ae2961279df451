SPECIFICATION FairSpec
CONSTANTS
    Typed <- MCTyped
    Leftovers <- MCLeftovers
    MaxLines = 3
    Words <- MCWords
    Number <- MCNumber
    Decimal <- MCDecimal
    Executables = {"prog", "dir"}
    Programs = {"prog"}
    Files <- MCFiles
    FileOf <- MCFileOf
    Protected = {"c"}
    Undeletable = {"d"}
    NULL = NULL
INVARIANTS TypeOK NoneLeftAtPrompt EndOfInputStartsNothing
PROPERTIES OutputIsWhole PromptReturns
CHECK_DEADLOCK FALSE
