\* Two processes write and end, one stream is reopened; two clients log in and
\* ask for stream tokens.
SPECIFICATION StreamSpec
CONSTANTS
    bot = bot
    web = web
    office = office
    home = home
    Procs = {bot, web}
    Signalled = {bot}
    Threaded = {web}
    QueueMax = 3
    Bounds <- MCBounds
    MaxSignals = 1
    Newest = 2
    Batch = 1
    Clients = {office, home}
    MaxAttempts = 2
    Window = 2
    TokenTTL = 1
    MaxTokens = 2
    Demands <- MCDemands
INVARIANTS WrittenInOrder FlushedOnClose StreamComplete LoginLimit TokenExact
PROPERTIES ShutdownReturns StreamCatchesUp
CHECK_DEADLOCK FALSE
