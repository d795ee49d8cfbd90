SPECIFICATION OrphansFairSpec
CONSTANTS
    StopOpening = 1
    Ends = 1
    Grace = 1
    MaxRaises = 1
    CallTime = 2
    Margin = 1
    Pause = 1
    Unbeaten = Unbeaten
    MaxSleeps = 1
    MaxCrashes = 1
PROPERTIES ReapsTheDead RowsSettle OrphansAreCleared
CHECK_DEADLOCK FALSE
