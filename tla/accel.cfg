\* Two clients, one of which may lose its page's header.
SPECIFICATION Spec
CONSTANTS
    Clients = {a, b}
    None = None
    Clobbered = {b}
    MaxCalls = 3
    MaxTimers = 2
    Slots = 2
    MaxCmds = 1
    MaxPerTick = 1
INVARIANTS TypeOK RefBalance HdrAlive TimerRunning OneTimer
PROPERTY ImplementsService
CHECK_DEADLOCK FALSE
