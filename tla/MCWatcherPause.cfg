SPECIFICATION Spec
CONSTANTS
    menu = menu
    limit = limit
    resume = resume
    capacity = capacity
    goal = goal
    quiet = quiet
    Evidence = {menu}
    Kind <- Kind_MC
    Screens <- Screens_MC
    Jobs = {j1}
    MaxAttempts = 2
    MaxWait = 0
    MaxPlanner = 0
    Cooldown = 0
    MaxRestarts = 1
    MaxCommands = 1
    MaxFaults = 0
    None = None
PROPERTY
    PauseHolds
CHECK_DEADLOCK FALSE
