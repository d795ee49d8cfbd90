SPECIFICATION Spec
CONSTANTS
    Forms <- MCForms
    PageSize = 3
    MaxFilings = 3
    MaxTime = 3
    MaxFailures = 1
    MaxStops = 1
INVARIANT NoWindowSkipped
CHECK_DEADLOCK FALSE
