SPECIFICATION Spec
CONSTANTS
    menu = menu
    limit = limit
    resume = resume
    capacity = capacity
    goal = goal
    quiet = quiet
    Evidence = {menu, limit, resume}
    Kind <- Kind_MC
    Screens <- Screens_MC
    Jobs = {j1, j2}
    MaxAttempts = 3
    MaxWait = 0
    MaxPlanner = 0
    Cooldown = 0
    MaxRestarts = 1
    MaxCommands = 2
    MaxFaults = 0
    None = None
SYMMETRY Symmetry
INVARIANT
    IInv
PROPERTIES
    NoInputWhileHeld
    RevalidatedBeforeInput
    HandOffHolds
CHECK_DEADLOCK FALSE
