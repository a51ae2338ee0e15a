SPECIFICATION FairSpec
CONSTANTS
    Files <- MCFiles
    Old = "old"
    Bad <- MCBad
    Chunks = 2
    MaxFailures = 1
    MaxCommands = 3
    MaxRestarts = 2
INVARIANTS TypeOK StreamedToAsker BadImageRollsBack BondsAgree
PROPERTIES AdvertisingReturns WeakLinkEnds StaleSessionEnds
CHECK_DEADLOCK FALSE
