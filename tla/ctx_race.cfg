SPECIFICATION Spec
CONSTANTS
    Clients = {a, b}
    Capacity = 8
    MaxCtx = 2
INVARIANTS LookupFindsOwn
CHECK_DEADLOCK FALSE
