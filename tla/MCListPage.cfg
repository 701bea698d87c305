\* Two files; a list of two is long.
SPECIFICATION Spec
CONSTANTS
    Items <- MCItems
    Versions = {1, 2}
    Columns = {"Modified"}
    Key <- MCKey
    Texts = {"", "x"}
    Accepts <- MCAccepts
    kFilterDelaySizeThreshold = 2
    MaxStale = 1
INVARIANTS
    TypeOK
    ButtonsFollowSelection
    StatusLineRight
    LoadingOnlyInScan
PROPERTIES
    RestoresWhatIsPicked
    LoadingEnds
