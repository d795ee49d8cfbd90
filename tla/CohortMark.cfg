SPECIFICATION Spec
CONSTANTS
    Universes = {U}
    Overlap <- MCOverlap
    None = None
    MaxRows = 1
    MaxTime = 2
    MaxFaults = 1
INVARIANT InterruptedMarkedAtBeat
CHECK_DEADLOCK FALSE
