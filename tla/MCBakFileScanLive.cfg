\* Live updating while directories come and go, for a user who waits for a path
\* to load.
SPECIFICATION Spec
CONSTANTS
    Paths = {"A", "B"}
    Names = {"a.bak", "x.tmp"}
    TempNames = {"x.tmp"}
    MaxSize = 1
    MaxChanges = 3
    MaxPosted = 0
    PatientUser = TRUE
    LastingDirs = FALSE
CHECK_DEADLOCK FALSE
PROPERTY
    WatchedIsLive
