\* Two tools, three attempts and up to three chunks of an attempt; two processes
\* that share a credential file, one of which is administered; up to three models
\* for a request. Answers of up to three pieces, cut anywhere within four characters;
\* native text of up to two pieces; five items, or three
\* messages, of a history; four events of a process, in a message of four parts. Three
\* handlers of a chat's messages, and a log of three.
SPECIFICATION GatewaySpec
CONSTANTS
    Tools = {1, 2}
    MaxAttempts = 3
    MaxChunks = 3
    Processes = {p, q}
    Administered = {p}
    MaxTokens = 2
    MaxFaults = 1
    MaxCommands = 2
    None = None
    MaxModels = 3
    MaxFrames = 2
    MaxCancels = 2
    MaxHandlers = 3
    MaxMishaps = 1
    Caps = {3}
    MaxMatch = 5
    MaxPieces = 3
    MaxBlock = 30
    MaxDepth = 2
    MaxItems = 5
    MaxMessages = 3
    Ids = {1, 2}
    Indexes = {0, 1}
    MaxEvents = 4
    ShowResults = TRUE
    Providers = {"p", "q"}
    Models = {"a", "b"}
    Settings <- RouteSettings
    Names <- RouteNames
    AnswerLimits = {0, 2048}
    Thinking <- RouteThinking
    TextTail = 2
    Limit = 4
INVARIANTS
    ContractKept
    AccountKept
    EgressKept
    Routed
    MessagesKept
    RolesKept
    NativeCalls
    
    
