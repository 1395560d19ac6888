\* Two trainings, a rollback and a command, killed anywhere.
SPECIFICATION FairSpec
CONSTANTS
    Trainings = {"t1", "t2"}
    Rollbacks = {"r1"}
    Commands = {"c1"}
    MaxWriters = 3
INVARIANTS CurrentUsable OneTraining DoneIsListed WebFollows
PROPERTIES AtomicSave TrainingsEnd
CHECK_DEADLOCK FALSE
