CONSTANTS
    ServerTools = {"look"}
    Reads = {}
    Writes = {"write"}
    Destructive = {}
    Unknown = {"invented"}
    NeverAllow = {}
    AlwaysAllow = {}
    AutoReads = FALSE
    AssumeYes = FALSE
    Errors = {"e"}
    MaxIterations = 2
    FailLimit = 2
    MaxAsks = 2
    MaxCalls = 3
    MaxPerAnswer = 2
    Faults = TRUE
    Lossy = TRUE
CHECK_DEADLOCK FALSE
SPECIFICATION Spec
INVARIANTS OnceAndAsTold
