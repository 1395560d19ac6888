\* A broker that lags, fails and races; lost table updates; one crash or restart;
\* the engine thread is scheduled.
SPECIFICATION FairSpec
CONSTANTS
    Symbols = {"AAPL"}
    EntrySides = {"BUY"}
    Modes = {"paper", "dryrun"}
    MaxPolls = 1
    MaxOrders = 4
    MaxRows = 2
    MaxRestarts = 1
    PromptBroker = FALSE
    DbMayFail = TRUE
INVARIANTS FillsAreReal PnlBackedByFills EntrySentOnce
PROPERTIES DryrunSendsNothing RowsMoveForward TicksEnd ShutdownEnds
CHECK_DEADLOCK FALSE
