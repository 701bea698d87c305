\* The link to the server is lost between two jobs.
SPECIFICATION Spec
CONSTANTS
    Servers = {"s1", "s2"}
    Logins = {"u1", "u2"}
    Savable <- MCSavable
    Accepted <- MCAccepted
    MaxSaves = 0
    MaxOutages = 1
INVARIANT
    CheckedBeforeUnpacking
