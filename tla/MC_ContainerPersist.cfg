SPECIFICATION Spec
CONSTANTS
    MaxGen = 2
    MaxCrashes = 2
    OpenCanFail = TRUE
    WriteCanFail = TRUE
INVARIANTS
    SaveSuccessMeansOnDisk
CHECK_DEADLOCK FALSE
