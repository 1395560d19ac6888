\* README:479 with one portfolio value, settings that do not change, one day.
SPECIFICATION Spec
CONSTANTS
    AAPL = AAPL
    MSFT = MSFT
    NaN = NaN
    Unknown = Unknown
    Symbols = {AAPL, MSFT}
    Modes = {"paper"}
    Navs = {40}
    Fills = {2}
    Exits = {1, 2}
    Quotes = {0, 2, NaN}
    Probs = {40, 45}
    Configs <- OneConfig
    MaxTrades = 3
    MaxDays = 1
    MaxSaves = 0
PROPERTIES StaysTripped
SYMMETRY SymbolSymmetry
CHECK_DEADLOCK FALSE
