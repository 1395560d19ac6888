\* Scans of a day against the user's requests; the approval mode switched at any time.
SPECIFICATION ScanSpec
CONSTANTS
    Symbols = {"AAPL", "MSFT", "NVDA"}
    Modes = {"approval", "autonomous"}
    MaxScans = 2
    Pool <- MCPool
    Stocks <- MCStocks
    NaN = NaN
    MinPrice = 5
    MaxPrice = 9
    MinVolume = 5
    Size = 2
    Answers <- MCAnswers
INVARIANTS OneDecision SelectionSound
PROPERTIES Implements ScanImplements
CHECK_DEADLOCK FALSE
