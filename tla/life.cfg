SPECIFICATION DriverSpec
CONSTANTS
    MaxMaps = 2
    MaxBlocks = 5
INVARIANTS DriverTypeOK NoDangling ServesWhenReady ClosedAtEnd RegistersMapped FreedOnce ReachesMemory
CHECK_DEADLOCK FALSE
