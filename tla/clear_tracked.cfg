\* A command's answer and a standalone /clear, and nothing fails.
SPECIFICATION MessagesSpec
CONSTANTS
    MaxHandlers = 2
    MaxMishaps = 0
    Caps = {0}
INVARIANT ClearDeletesTracked
