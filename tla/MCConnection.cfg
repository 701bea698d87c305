\* Settings saved twice around jobs, and a server that stops and comes back.
SPECIFICATION Spec
CONSTANTS
    Servers = {"s1", "s2"}
    Logins = {"u1", "u2"}
    Savable <- MCSavable
    Accepted <- MCAccepted
    MaxSaves = 2
    MaxOutages = 1
INVARIANTS
    TypeOK
    StatusIsOfHandle
    StatusNotTorn
    JobServerIsCurrent
PROPERTY
    StatusSettles
