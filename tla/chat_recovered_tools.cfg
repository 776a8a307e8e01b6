\* One tool, whose pieces a first attempt leaves behind.
SPECIFICATION ChatSpec
CONSTANTS
    Tools = {1}
    MaxAttempts = 2
    MaxChunks = 3
INVARIANT
    RecoveredToolsWhole
