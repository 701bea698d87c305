\* Another path is saved while a scan runs, and then the first one again.
SPECIFICATION Spec
CONSTANTS
    Paths = {"A", "B"}
    Names = {"a.bak"}
    TempNames = {}
    MaxSize = 1
    MaxChanges = 3
    MaxPosted = 0
    PatientUser = FALSE
    LastingDirs = TRUE
CHECK_DEADLOCK FALSE
PROPERTY
    LiveUpdating
