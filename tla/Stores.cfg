\* Seven parts, one at a time: two chats, two messages, five writes, logs compacted from
\* three lines on, failing writes; the others at the bounds their comments name.
SPECIFICATION StoresSpec
CONSTANTS
    Chats = {c1, c2}
    Messages = {m1, m2}
    NoEvent = NoEvent
    MaxWrites = 5
    CompactAt = 3
    Faults = {"write_error"}
    Folders = {"p"}
    Kinds = {"rule"}
    MaxOps = 4
    MaxRestarts = 1
    Paths = {"f1", "f2"}
    MaxClaims = 3
    MaxReleases = 2
    MaxCrashes = 1
    Transcripts = {"c1", "c2"}
    MaxLines = 2
    Readers = {1, 2}
    MaxReads = 3
    CacheMax = 1
    MaxSandboxCalls = 4
    MaxHubDeaths = 1
    Sources = {s1, s2}
    FirstLogs <- SeedLogs
    MaxMergeSessions = 2
    TotalChars = 24
    FloorChars = 8
    LineChars = 6
    SummaryChars = 7
    ForkLines = 2
    ForkChars = 13
    HeaderChars = 3
    OmittedChars = 2
    MaxJobs = 1
    MaxAdded = 1
    Spawned = {a1, a2}
    Foreign = {f1}
    NoAgent = NoAgent
    MaxNews = 3
    MaxRuns = 3
SYMMETRY Symmetry
INVARIANTS StoresTypeOK RestartRebuilds ActiveClaimsAreApart TranscriptsAreTold SandboxIsKept
PROPERTIES StoreKeepsPromise
CHECK_DEADLOCK FALSE
