SPECIFICATION Spec
CONSTANTS
    ModeArgs = {1, 2}
    SetpointArgs = {200}
    NusModes = {}
    NusSetpoints <- NoNusSetpoints
    Polls <- OnePoll
    Reads <- TwoReads
    Probes <- NoProbes
    ForeignAcks <- NoForeignAcks
    CounterMod = 1
    MaxQueued = 2
INVARIANTS QueuedModeIsDelivered
