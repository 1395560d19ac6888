\* The unit-tested interfaces, with and without the raising alert; failing calls, a
\* restart, two days.
SPECIFICATION Spec
CONSTANTS
    AAPL = AAPL
    MSFT = MSFT
    Symbols = {AAPL, MSFT}
    Builds = {{"calls"}, {"calls", "alert"}}
    MaxDays = 2
    MaxWrites = 2
    MaxRestarts = 1
    Writable = {"mode"}
INVARIANTS ConnectedToTrade
PROPERTIES TradesTodaysList ApprovalGate SwitchObeyed
SYMMETRY SymbolSymmetry
CHECK_DEADLOCK FALSE
