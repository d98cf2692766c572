\* The limits of the code.
SPECIFICATION FairSpec
CONSTANTS
    Pw1Tries = 20
    Pw2Tries = 50
    AckTries = 100
INVARIANTS NeverAhead FullBudget HeldUpAtMost
PROPERTY Returns
CHECK_DEADLOCK FALSE
