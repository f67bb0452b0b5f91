SPECIFICATION Spec
CONSTANTS
    MaxGen = 1
    MaxCrashes = 1
    OpenCanFail = FALSE
    WriteCanFail = FALSE
INVARIANT
    ContainerSurvivesCrash
CHECK_DEADLOCK FALSE
