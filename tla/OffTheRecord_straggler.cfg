CONSTANTS
    Sessions = {s1}
    Requests = {r1, r2, r3}
    MaxHeld = 1
    MaxMsgs = 2
    Overlap = TRUE
SPECIFICATION Spec
SYMMETRY Symmetry
INVARIANTS OffRecordLeavesNothing
