\* Two changes of the configuration and a gate that fails once; one request, one
\* admin operation and close() at the provider manager.
SPECIFICATION RuntimeSpec
CONSTANTS
    MaxChanges = 2
    MaxFailures = 1
    MaxRuns = 2
    None = None
    Requests = {r1}
    Ops = {o1}
    Closer = Closer
    Refresher = Refresher
    MaxGenerations = 2

    
PROPERTIES
    RequestsServed
    RetiredAreCleaned
    CallsReturn
