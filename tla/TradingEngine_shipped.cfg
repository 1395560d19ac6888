\* The shipped engine, the one whose get_pool works, and a missing EOD_CLOSE_MINUTES; no
\* crash; closes succeed, alerts raise.
SPECIFICATION FairSpec
CONSTANTS
    AAPL = AAPL
    Symbols = {AAPL}
    Builds = {{"alert", "select"}, {"default", "detached", "import", "alert", "select"}, {"unset"}}
    MaxDays = 2
    MaxWrites = 2
    MaxRestarts = 0
    Writable = {"mode", "approval"}
INVARIANTS ClosesDaily
PROPERTIES ModeFollows
CHECK_DEADLOCK FALSE
