\* One part at a time: pause requests, the event feed, the count pump, the lock file, chunks stored, texts cut, backups, pages.
CONSTANTS
    Slots = {s1, s2}
    MaxRequests = 3
    MaxFailures = 1
    Writers = {w1, w2}
    Sockets = {k1, k2}
    MaxEvents = 3
    FetchLimit = 2
    QueueSize = 1
    MaxRestarts = 1
    CDrives = {c1, c2}
    Concurrency = 1
    Daemons = {p1, p2}
    NoPid = NoPid
    MaxCrashes = 2
    Sessions = {t1, t2}
    MaxChunks = 2
    MaxUpserts = 3
    MaxSize = 4
    MaxLen = 6
    MaxParas = 2
    KeepDaily = 2
    KeepWeekly = 1
    MaxMinutes = 3
    Drives = {g1}
    Files = {f1, f2}
    NoDrive = NoDrive
    NoFile = NoFile
    MaxHead = 4
    PageSize = 1
    MaxRetries = 1
SPECIFICATION FairSpec
INVARIANTS Acknowledged FeedExact OneTask SerialStartsExclude LastWhole ChunksFit NothingSkipped NewestKept Mirrored
PROPERTIES CacheSettles FeedReaches AllCounted DaemonRuns
