\* One process is enough for what the scheduler's replacement leaves behind.
CONSTANTS
    Procs = {d1}
    Clients = {c1, c2}
    Targets = {t1}
    None = None
    MaxConnections = 1
    StayResident = FALSE
    MaxAsks = 3
SPECIFICATION FairSpec
PROPERTY IdleDaemonExits
CHECK_DEADLOCK FALSE
