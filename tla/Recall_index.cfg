CONSTANTS
    m1 = m1
    m2 = m2
    m3 = m3
    s1 = s1
    s2 = s2
    nomic = nomic
    bge = bge
    Messages = {m1, m2}
    Sessions = {s1, s2}
    Home <- MCHome
    Bad = {m2}
    Models = {nomic, bge}
    Width <- MCWidth
    Batch = 2
    MaxAttempts = 2
    MaxTrouble = 2
SPECIFICATION FairSpec
INVARIANTS NothingErasedFound Accounted
PROPERTIES IndexedAtLast
CHECK_DEADLOCK FALSE
