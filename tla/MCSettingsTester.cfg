\* A user who edits and clicks at any moment; two tests may overlap.
SPECIFICATION Spec
CONSTANTS
    Settings = {"s1", "s2"}
    MaxTests = 2
INVARIANTS
    TypeOK
    ConnectingWhileInProgress
    VerdictIsOwn
PROPERTY
    TestEnds
