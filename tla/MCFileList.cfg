\* Three files, sorting by every kind of column, and lists of two and more are long.
SPECIFICATION ListSpec
CONSTANTS
    Items <- MCItems
    Versions = {1, 2}
    Columns = {"Filename", "Modified", "Compressed"}
    Key <- MCKey
    Texts = {"", "x"}
    Accepts <- MCAccepts
    kFilterDelaySizeThreshold = 2
    MaxStale = 1
INVARIANTS
    ListTypeOK
    SelectionFollowsItems
    FilterIsCurrent
    FilterFollowsText
    RowsSorted
