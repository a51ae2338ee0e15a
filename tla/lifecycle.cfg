SPECIFICATION FairSpec
CONSTANTS
    MaxEvents = 3
    MaxResets = 2
    MaxLosses = 1
    MaxRestarts = 1
    Preempted = TRUE
INVARIANTS TypeOK WatchdogCovers JoiningHasDeadline OnePublishTick
PROPERTIES ResetEnds WorkqueueFreed
CHECK_DEADLOCK FALSE
