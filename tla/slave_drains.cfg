SPECIFICATION FairSpec
CONSTANTS
    ModeArgs = {2}
    SetpointArgs = {200}
    NusModes <- MCNusModes
    NusSetpoints <- MCNusSetpoints
    Polls <- MCPolls
    Reads <- TwoReads
    Probes <- MCProbes
    ForeignAcks <- MCForeignAcks
    CounterMod = 1
    MaxQueued = 2
PROPERTIES CommandDrains IsMailbox
