\* Five bars on two days, one of them for warming up, two entries a day.
SPECIFICATION Spec
CONSTANTS
    None = None
    Shapes <- FewShapes
    Atrs = {0, 1}
    Probs = {54, 55}
    Capital = 6
    SizePct = 100
    StopAtr = 2
    TargetAtr = 1
    MinProb = 55
    MaxPerDay = 2
    Warmup = 1
    MaxBars = 5
    MaxDays = 2
INVARIANTS BooksBalance TradesFollowRules
CHECK_DEADLOCK FALSE
