\* The store's writer and managed sessions with all their properties, and the
\* trees' liveness.
SPECIFICATION MessagingSpec
CONSTANTS
    MaxVersions = 2
    MaxFailures = 1
    MaxCrashes = 1
    Turns = {t1, t2}
    None = None
    MaxCommands = 1
    MaxStops = 1
    Runners = {r1, r2}
    Trees = {c1, c2}
    Ids = {i1, i2}
    Sweeper = Sweeper
    MaxRefusals = 1
    MaxCancels = 1
INVARIANTS
    PromisesKept
    NoProcessLost
PROPERTIES
    NoRegress
    SavesLand
    PromptsEnd
    RunsEnd
