\* One client process under the fairness of the timer; commands of every kind,
\* the refused one included; the abstract queue as the specification.
SPECIFICATION FairSpec
CONSTANTS
    Cap = 17
    PayloadMax = 20
    MaxPerTick = 2
    Users = {u1}
    Injectors = {}
    Commands <- AllCommands
    MaxSent = 4
INVARIANTS TypeOK HeadAccounts RingInv
PROPERTIES ImplementsFifo EventuallyDrained
