\* README:436: the limit order fills while it is given up on.
SPECIFICATION Spec
CONSTANTS
    Symbols = {"AAPL"}
    EntrySides = {"BUY"}
    Modes = {"paper", "dryrun"}
    MaxPolls = 1
    MaxOrders = 5
    MaxRows = 2
    MaxRestarts = 0
    PromptBroker = TRUE
    DbMayFail = FALSE
INVARIANTS OneFillPerRow
CHECK_DEADLOCK FALSE
