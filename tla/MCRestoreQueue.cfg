\* Three files, selections of up to three; no symmetry, since liveness is checked.
SPECIFICATION Spec
CONSTANTS
    Files = {f1, f2, f3}
    MaxSelection = 3
INVARIANTS
    TypeOK
    QuietOffProgressPage
    NeverLeftMidBatch
    OneTokenInFlight
    ProgressTracksResults
    CancelIsForTheRest
    LeftoverCancelIsRecent
    IInv
PROPERTY
    ImplementsBatchRestore
