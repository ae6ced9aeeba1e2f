CONSTANTS
    a = a
    b = b
    v1 = v1
    v2 = v2
    ModelFiles = {a, b}
    Name <- MCName
    Versions = {v1, v2}
    Size <- MCSize
    Undigested = {b}
    MaxAttempts = 2
    MaxNodeTrouble = 3

    Symbols = {s}
    Cycles = {timer, manual}
    Cap = 1
    ReviewRows = {r1, r2}
    Forecasts = {f1}
    Day = 2
    Windows <- MCWindows
    MaxReviewTrouble = 1

    Imports <- MCImports
    Exchange <- MCExchange
    Orders <- MCOrders
    Manual <- MCManual
    UploadTokens = {k1, k2}
    MaxUploads = 1
    MaxTradeTrouble = 1

    Catalog = {ssh}
    Customs = {p1}
    Switches = {w1, w2}
    MaxCanaryTrouble = 2

    Traps = {t1, t2}
    Cooldown = 2
    Secrets = {x1}
    MaxAlarmTrouble = 2

    Names = {home, gpu}
    Home = home
    Definitions = {d1, d2}
    Handlers = {h1, h2}
    Stale = 0
    MaxBackendTrouble = 2

    Seconds = 3
    KeptCopies = 2
    MaxBackupTrouble = 2

    Clients = {c1}
    Conversations = {n1}
    Seqs = {1, 2}
    Texts = {x, y}
    MaxArchiveTrouble = 1

    Routes = {q1, q2}
    MaxTasks = 2
    MaxLists = 2

    Agents = {law, firm}
    Papers = {x, y}
    Sessions = {m1}
    Uploads = {u1}
    MaxDocuments = 2

    Clerks = {g1, g2}
    Offers <- MCOffers
    ByHand <- MCByHand
    Periods <- MCPeriods
    LastDay = 2
    MaxRecords = 2
    MaxEntries = 3
    MaxBooksTrouble = 1

    Jobs = {j1, j2}
    Revisions = {main}
    Shards = {"shard"}
    Digests = TRUE
    MaxMoves = 1

    Machines = {"big"}
    Here = "here"
    Cards <- MCCards
    Ram <- MCRam
    Loads = {0, 3072}
    Weights = {40, 80}
    Contexts = {4, 16}
    FleetStale = 1
    HardwareTTL = 1
    KeepRaw = 2
    LastTick = 4
    MaxFitTrouble = 1

    Said = {1, 2, 3}
    TextLength <- MCLength
    Talks = {"t0", "t1", "t2", "t4"}
    Talk <- MCTalk
    Owner <- MCOwner
    Profile <- MCProfile
    NoAgent = ""
    Asked = {"q1"}
    Likeness <- MCLikeness
    Wording <- MCWording
    K = 2
    CandidateDepth = 3
    TopK = 2
    RecentTurns = 2
    Scale = 60
    Window <- MCWindow
    Fallback = 200
    MaxSearchTrouble = 1

    Subjects = {"fit"}
SPECIFICATION Spec
INVARIANTS
    QuietIsUnknown
CHECK_DEADLOCK FALSE
