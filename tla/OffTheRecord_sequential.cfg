CONSTANTS
    Sessions = {s1}
    Requests = {r1, r2, r3, r4}
    MaxHeld = 1
    MaxMsgs = 2
    Overlap = FALSE
SPECIFICATION Spec
SYMMETRY Symmetry
INVARIANTS ContextKept
PROPERTIES AbstractSpec
