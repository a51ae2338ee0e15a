SPECIFICATION Spec
CONSTANTS
    Cs60States <- MCCs60States
    SetpointWrites = {350}
    FanModeWrites = {2}
    SETPOINT_MIN = 100
    SETPOINT_MAX = 300
    POLL = 1
    HOLD = 2
    STALE = 3
    LINK_STALE = 2
    MaxWrites = 1
    MaxChanges = 1
INVARIANTS WriteNotOverwritten
