\* Two threads of a process, writes from inside and outside, failing loads.
SPECIFICATION Spec
CONSTANTS
    Threads = {"loop", "worker"}
    TTL = 2
    MaxTime = 5
    MaxWrites = 2
INVARIANTS BoundedStaleness WriteVisible
PROPERTIES MonotoneReads
CHECK_DEADLOCK FALSE
