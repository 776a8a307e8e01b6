\* What stop_all_tasks and cancel_all say of themselves.
SPECIFICATION TreesSpec
CONSTANTS
    Turns = {t1, t2}
    None = None
    MaxCommands = 1
    MaxStops = 1
PROPERTIES
    StopReachesEverything
CHECK_DEADLOCK FALSE
