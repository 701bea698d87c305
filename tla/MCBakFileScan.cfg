\* Two paths that come and go, saved at any time, and two backups.
SPECIFICATION Spec
CONSTANTS
    Paths = {"A", "B"}
    Names = {"a.bak", "b.bak"}
    TempNames = {}
    MaxSize = 1
    MaxChanges = 3
    MaxPosted = 0
    PatientUser = FALSE
    LastingDirs = FALSE
CHECK_DEADLOCK FALSE
INVARIANTS
    TypeOK
    ListFollowsFiles
