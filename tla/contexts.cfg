SPECIFICATION Spec
CONSTANTS
    Clients = {a, b, c}
    Capacity = 1
    MaxCtx = 3
INVARIANT OwnOrNothing
PROPERTY ContextsAreRegistry
SYMMETRY ClientSymmetry
CHECK_DEADLOCK FALSE
