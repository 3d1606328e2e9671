SPECIFICATION FairSpec
CONSTANTS
    menu = menu
    limit = limit
    resume = resume
    capacity = capacity
    goal = goal
    quiet = quiet
    Evidence = {capacity, goal, quiet}
    Kind <- Kind_MC
    Screens <- Screens_MC
    Jobs = {j1, j2}
    MaxAttempts = 2
    MaxWait = 0
    MaxPlanner = 0
    Cooldown = 0
    MaxRestarts = 1
    MaxCommands = 1
    MaxFaults = 1
    None = None
INVARIANT
    AttemptsOnRecord
PROPERTY
    ShutdownCompletes
CHECK_DEADLOCK FALSE
