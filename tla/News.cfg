SPECIFICATION Spec
CONSTANTS
    Forms <- MCForms
    PageSize = 1
    MaxFilings = 4
    MaxTime = 3
    MaxFailures = 1
    MaxStops = 1
INVARIANTS NewsTypeOK LostIsWarned
CHECK_DEADLOCK FALSE
