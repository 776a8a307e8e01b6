\* Two requests, two admin operations and close(): all the safety properties. Two
\* prompts of a chat, with one command, across two deaths of the process. Two items of an
\* upstream, in two attempts.
SPECIFICATION ManagerSpec
CONSTANTS
    Requests = {r1, r2}
    Ops = {o1, o2}
    Closer = Closer
    Refresher = Refresher
    None = None
    MaxGenerations = 3
    MaxFailures = 1
    MaxPrompts = 2
    MaxStatuses = 2
    MaxCommands = 1
    MaxCrashes = 2
    ItemKinds = {"message", "reasoning", "function", "custom"}
    MaxItems = 2
    MaxAttempts = 2
    MaxBlocks = 3
SYMMETRY Symmetry
INVARIANTS
    LeasesCounted
    DiscoveryIsCurrent
    CloseIsComplete
    RestartKept
    ResponsesKept
PROPERTIES
    NothingStartsWhileClosing
    ImplementsGenerations
