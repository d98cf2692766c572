SPECIFICATION Spec
CONSTANTS
    Clients = {a, b}
    None = None
    Clobbered = {}
    MaxCalls = 2
    MaxTimers = 1
    Slots = 4
    MaxCmds = 2
    MaxPerTick = 2
INVARIANT TailCountsExecuted
CHECK_DEADLOCK FALSE
