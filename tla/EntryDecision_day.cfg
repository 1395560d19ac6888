\* Two days, two modes, two sizing methods, settings that change once; no entry
\* fills at the price its signal named.
SPECIFICATION Spec
CONSTANTS
    AAPL = AAPL
    MSFT = MSFT
    NaN = NaN
    Unknown = Unknown
    Symbols = {AAPL, MSFT}
    Modes = {"paper", "dryrun"}
    Navs = {40}
    Fills = {3}
    Exits = {2, 4}
    Quotes = {0, 2, NaN}
    Probs = {40, 55}
    Configs <- TwoConfigs
    MaxTrades = 3
    MaxDays = 2
    MaxSaves = 1
PROPERTIES RiskLimits ConfirmedEntries
SYMMETRY SymbolSymmetry
CHECK_DEADLOCK FALSE
