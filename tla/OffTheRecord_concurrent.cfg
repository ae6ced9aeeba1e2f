CONSTANTS
    Sessions = {s1, s2}
    Requests = {r1, r2, r3}
    MaxHeld = 1
    MaxMsgs = 1
    Overlap = TRUE
SPECIFICATION Spec
SYMMETRY Symmetry
INVARIANTS UnrecordedStaysUnrecorded PoolSound
