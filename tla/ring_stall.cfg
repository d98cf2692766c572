SPECIFICATION Spec
CONSTANTS
    Cap = 31
    PayloadMax = 20
    MaxPerTick = 2
    Users = {}
    Injectors = {i1}
    Commands <- NoCommands
    MaxSent = 3
INVARIANT GuardFreeWhenIdle
