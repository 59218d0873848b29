\* Two tasks with two events each against a queue of two: the queue fills, drains and fills again
\* while every sink may fail
CONSTANTS
    Producers = {t1, t2}
    MaxEvents = 2
    Capacity = 2
    FileConfigured = TRUE
SPECIFICATION FairSpec
INVARIANTS
    Accounted
    FileFollows
PROPERTY
    DropsAreNoticed
CHECK_DEADLOCK FALSE
