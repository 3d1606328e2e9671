SPECIFICATION FairSpec
CONSTANTS
    menu = menu
    limit = limit
    resume = resume
    capacity = capacity
    goal = goal
    quiet = quiet
    Evidence = {capacity, goal}
    Kind <- Kind_MC
    Screens <- Screens_MC
    Jobs = {j1}
    MaxAttempts = 3
    MaxWait = 0
    MaxPlanner = 0
    Cooldown = 0
    MaxRestarts = 0
    MaxCommands = 0
    MaxFaults = 0
    None = None
PROPERTY
    GoalResumeDispatched
CHECK_DEADLOCK FALSE
