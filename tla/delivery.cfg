\* Two calls of the outbox and three faults; two voice notes, each of which may
\* be a /stop, and one command; two callers of a window of two.
SPECIFICATION PlatformSpec
CONSTANTS
    MaxCalls = 2
    MaxTries = 2
    MaxFaults = 3
    None = None
    Handles = {h1, h2}
    Commands = {c1}
    Messages = {m1, m2}
    MaxKills = 1
    Callers = {w1, w2}
    RateLimit = 2
    Window = 2
    MaxTime = 5
INVARIANTS
    AnswersAreCurrent
    OneOwner
    Windowed
PROPERTIES
    CallersAnswered
    NotesEnd
