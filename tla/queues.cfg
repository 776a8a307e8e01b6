\* Three executions with two attempts each at a bulkhead of two slots, under the
\* codex loop; three prompts of a chat, two commands and a global stop or close.
SPECIFICATION QueuesSpec
CONSTANTS
    Sessions = {s1, s2, s3}
    Turns = {s1, s2, s3}
    None = None
    MaxAttempts = 2
    MaxConcurrency = 2
    Adapter = "codex"
    MaxCommands = 2
    MaxStops = 1
SYMMETRY Symmetry
INVARIANTS
    SlotsConserved
    SoleProbe
    Serving
    Boundaries
    Bookkeeping
PROPERTIES
    OutcomesBind
    StoppedNeverStart
