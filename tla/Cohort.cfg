SPECIFICATION Spec
CONSTANTS
    Universes = {U}
    Overlap <- MCOverlap
    None = None
    MaxRows = 3
    MaxTime = 2
    MaxFaults = 1
INVARIANTS CohortTypeOK TwinsAreCompared ComparisonIsFair
CHECK_DEADLOCK FALSE
