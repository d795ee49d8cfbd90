SPECIFICATION FairSpec
CONSTANTS
    GraceTime = 2
    DegradeAfter = 2
    MaxFails = 3
    MaxBusy = 2
INVARIANTS ProcessTypeOK EventsTellHealth NoOutageSpoilsAStop CutOnlyIfLateOrLapsed
PROPERTIES FeedsEndNoLoop KillEndsProcess
CHECK_DEADLOCK FALSE
