\* Three InjectTest threads, which read one head and publish over each other.
SPECIFICATION Spec
CONSTANTS
    Cap = 21
    PayloadMax = 20
    MaxPerTick = 2
    Users = {}
    Injectors = {i1, i2, i3}
    Commands <- NoCommands
    MaxSent = 4
INVARIANT PublishedWhole
SYMMETRY InjectorSymmetry
PROPERTY TickEnds
