SPECIFICATION Spec
CONSTANTS
    ModeArgs = {2}
    SetpointArgs = {200}
    NusModes <- MCNusModes
    NusSetpoints <- MCNusSetpoints
    Polls <- MCPolls
    Reads <- MCReads
    Probes <- MCProbes
    ForeignAcks <- MCForeignAcks
    CounterMod = 2
    MaxQueued = 2
INVARIANTS TypeOK CoilMeansLatest AdoptedWasQueued AnsweredOrCounted ModeHeldUntilAcked
