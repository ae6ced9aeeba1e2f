CONSTANTS
    v1 = v1
    v2 = v2
    Jobs = {j1, j2}
    Revisions = {main, pinned}
    Versions = {v1, v2}
    Size <- OneSize
    Shards = {"shard1", "shard2"}
    Digests = TRUE
    MaxAttempts = 1
    MaxUploads = 0
SPECIFICATION Spec
SYMMETRY Symmetry
INVARIANTS ConvertedFromOne
CHECK_DEADLOCK FALSE
