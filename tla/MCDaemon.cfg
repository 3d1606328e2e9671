\* Three processes, so that a third meets what two left; one permit, so that the
\* limit is reached by the second client.
CONSTANTS
    Procs = {d1, d2, d3}
    Clients = {c1, c2}
    Targets = {t1}
    None = None
    MaxConnections = 1
    StayResident = FALSE
    MaxAsks = 3
SPECIFICATION Spec
SYMMETRY Symmetry
INVARIANTS IInv OneOwner SocketIsOwn
PROPERTY StoppedMeansDrained
CHECK_DEADLOCK FALSE
