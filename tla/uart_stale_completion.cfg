SPECIFICATION Spec
CONSTANTS
    Drain = drain_worker
    Others = {other}
    NoOne = no_one
    Capacity = 3
    Chunk = 2
    MaxBurst = 2
    MaxBytes = 5
    MaxFrames = 2
INVARIANTS CompletionIsOwn
CHECK_DEADLOCK FALSE
