\* Tokens, JWT keys, the session directory, forgetting and the storage migration, each alone.
SPECIFICATION ServerSpec
CONSTANTS
    Tokens = {t1}
    Hashes = {h1, h2}
    Lifetimes = {0, 1}
    Admins = {a1, a2}
    Requests = {r1}
    MaxTime = 3
    NoHash = NoHash
    SigningKeys = {k1, k2}
    Threads = {th1, th2}
    CacheDuration = 1
    Horizon = 4
    NoKey = NoKey
    SpaceNames = {n1, n2}
    UserNames = {u1, u2}
    SessionNames = {s1}
    Callers = {c1}
    MaxStores = 2
    Nobody = Nobody
    Records = {1, 2, 3}
    HardAge = 2
    MaxDay = 3
    PassLimit = 2
    Policies <- SomePolicies
    Unset = Unset
    Keys = {w1, w2}
    Readers = {d1, d2}
    Servers = {v1, v2}
    MaxVersion = 2
    BatchSize = 1
    Overlaps = FALSE
    BulkOverlaps = FALSE
    FirstScanFails = FALSE
    None = None
INVARIANTS ServerTypeOK OnlyValidTokensAccepted ValidTokensWork WithdrawnKeysExpire PublishedKeysWork AnswersAreCovered CompleteMeansMigrated
PROPERTIES SessionsKeepApart ForgettingIsMonotone MigrationKeepsWrites
CHECK_DEADLOCK FALSE
