SPECIFICATION Spec
CONSTANTS
    Sessions = {s1, s2}
    None = None
    MaxAttempts = 3
    MaxConcurrency = 1
    Adapter = "codex"
SYMMETRY Symmetry
INVARIANT EndedHoldsNoSlot
