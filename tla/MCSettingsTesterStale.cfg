\* A click between the first report of a test and its last.
SPECIFICATION Spec
CONSTANTS
    Settings = {"s1"}
    MaxTests = 2
INVARIANT
    VerdictNotStale
