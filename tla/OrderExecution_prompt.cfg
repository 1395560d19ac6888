\* Prompt broker, two symbols, both sides, a crash or restart, lost table updates.
SPECIFICATION Spec
CONSTANTS
    AAPL = AAPL
    MSFT = MSFT
    Symbols = {AAPL, MSFT}
    EntrySides = {"BUY", "SELL"}
    Modes = {"paper", "dryrun"}
    MaxPolls = 1
    MaxOrders = 7
    MaxRows = 2
    MaxRestarts = 1
    PromptBroker = TRUE
    DbMayFail = TRUE
INVARIANTS NoOvernightExposure
PROPERTIES EntersFlatOnly ClosesOnlyReduce
SYMMETRY SymbolSymmetry
CHECK_DEADLOCK FALSE
