\* The small components side by side, each on its own instance.
\* A behaviour ends when the bounded calls have been made.
CHECK_DEADLOCK FALSE
SPECIFICATION Spec
CONSTANTS
    bean1 = bean1
    bean2 = bean2
    job1 = job1
    daily = daily
    Callers = {c1, c2}
    JobNames = {job1}
    Beans = {bean1, bean2}
    NameOf <- TheJobs
    Plans = {daily, once, over}
    LoopPlans = {daily}
    PastPlans = {over}
    NoBean = NoBean
    NoPlan = NoPlan
    MaxJobCalls = 3
    Clients = {d1, d2}
    Services = {s1, s2}
    NoProvider = NoProvider
    NoService = NoService
    NoClient = NoClient
    CallerThreads = {t1, t2, t3}
    PERMITS = 2
    MaxDepth = 3
    MaxLimited = 5
    k1 = k1
    k2 = k2
    k3 = k3
    k4 = k4
    g1 = g1
    g2 = g2
    g3 = g3
    m1 = m1
    m2 = m2
    Workers = {w1, w2}
    Calls = {k1, k2, k3, k4}
    Fields = {g1, g2, g3}
    FieldOf <- TheFields
    Hashes = {m1, m2}
    HashOf <- TheHashes
    NoResult = NoResult
    NoKey = NoKey
    MaxNesting = 2
    MaxCached = 4
    MaxOutages = 1
    Readers = {r1, r2}
    Ids = {i1, i2}
    NoRow = NoRow
    MaxChanges = 1
    MaxGets = 2
    MaxFailed = 2
    Lengths = {0, 2}
    MaxMessages = 3
    Filters = {f1}
    NoFilter = NoFilter
    PageSize = 2
    MAX_SHOW_PAGE = 3
    Totals = {0, 3, 9}
    MaxRequests = 3
    MaxFileNum = 3
    CHECK_COUNT = 2
    MaxFiles = 2
    MaxStarts = 3
    Options = {o1, o2, o3}
    Falsy = {o3}
    Unknown = {u}
    MaxUses = 4
INVARIANTS TypeOK JobsAreTracked ProvidersAreKept PermitsAreConserved CacheIsSound BatchIsSound FramingIsSound TableShowsAsked PagerIsRight BoxesAreRight ImagesAreRight FormShowsValues
PROPERTIES LimitedCallsReturn UploadEnds FormIsFilled
