\* Three executions at a bulkhead of one slot, and what must happen in the end.
SPECIFICATION ChatSpec
CONSTANTS
    Sessions = {s1, s2, s3}
    None = None
    MaxAttempts = 2
    MaxConcurrency = 1
    Adapter = "chat"
INVARIANTS
    WaitersReturn
PROPERTY
    EveryExecutionEnds
