CONSTANTS
    Evidence = {f1, f2}
    MaxAttempts = 2
    MaxWait = 3
    MaxPlanner = 1
    Cooldown = 2
    None = None
    Waits = {0, 2}
    MaxNow = 5
    MaxRestarts = 2
    MaxFaults = 1
SPECIFICATION Spec
SYMMETRY Symmetric
INVARIANTS
    BudgetHolds
    BudgetInv
PROPERTIES
    CooldownHolds
    NoRepeat
CHECK_DEADLOCK FALSE
