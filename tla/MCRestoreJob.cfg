\* Two databases, every kind of backup file, archives of two chunks; two pairs of
\* paths, and selections of up to two files.
SPECIFICATION Spec
CONSTANTS
    d1 = d1
    d2 = d2
    p1 = p1
    p2 = p2
    none = none
    Databases = {d1, d2}
    BackupFiles <- MCBackupFiles
    Chunks = 2
    Paths = {p1, p2}
    NoPath = none
    MaxSelection = 2
INVARIANTS
    TypeOK
    SuccessIsComplete
    CancelStrandsNone
    AtMostOneStranded
    UntouchedByBadFile
    NoSelfInflictedFailure
PROPERTY
    JobReturns
