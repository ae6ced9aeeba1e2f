CONSTANTS
    ServerTools = {"look"}
    Reads = {"read"}
    Writes = {"write", "locked"}
    Destructive = {"destroy"}
    Unknown = {"invented"}
    NeverAllow = {"locked"}
    AlwaysAllow = {"locked"}
    AutoReads = TRUE
    AssumeYes = FALSE
    Errors = {"e"}
    MaxIterations = 2
    FailLimit = 2
    MaxAsks = 2
    MaxCalls = 3
    MaxPerAnswer = 2
    Faults = FALSE
    Lossy = FALSE
SPECIFICATION FairSpec
INVARIANTS AllAnswered ExecutedIsAudited
PROPERTIES OperatorDecides HarnessReturns
CHECK_DEADLOCK FALSE
