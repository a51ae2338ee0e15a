SPECIFICATION FairSpec
CONSTANTS
    MaxEvents = 4
    MaxResets = 2
    MaxLosses = 2
    MaxRestarts = 1
    Preempted = FALSE
PROPERTIES ZbossResumes
CHECK_DEADLOCK FALSE
