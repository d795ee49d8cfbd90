SPECIFICATION FairSpec
CONSTANTS
    StopOpening = 2
    Ends = 3
    Grace = 1
    MaxRaises = 2
INVARIANTS
    SessionTypeOK
    HeldIsNamed
    GivesUpOnlyAtDeadline
PROPERTIES
    HaltStopsTrading
    SessionIsALifecycle
    Terminates
CHECK_DEADLOCK FALSE
