\* Workers and the daemon die at any point; the database, the disk and files fail.
CONSTANTS
    Drives = {d1}
    Files = {f1}
    Workers = {w1, w2}
    NoDrive = NoDrive
    NoFile = NoFile
    NoWorker = NoWorker
    PoolSize = 1
    MaxHead = 1
    MaxDup = 1
    Ops = {}
    Faults = {"crash", "disk", "death", "db", "sheet"}
    Unsupported = {}
SPECIFICATION FairSpec
PROPERTIES BuildEnds
