\* A cancel clicked after the last check cancels the next batch.
SPECIFICATION Spec
CONSTANTS
    Files = {f1}
    MaxSelection = 1
INVARIANT
    CancelledOnlyOnRequest
