\* A request with a fallback, whose client leaves.
SPECIFICATION EgressSpec
CONSTANTS
    MaxModels = 2
    MaxFrames = 2
    MaxCancels = 1
INVARIANT ClosedFirst
