\* Three clients asked for at once, with the device removed at any moment.
SPECIFICATION FairSpec
CONSTANT Clients = {a, b, c}
INVARIANTS ClientsTypeOK ReferencesHeld
PROPERTY ClosedGoesAway
CHECK_DEADLOCK FALSE
