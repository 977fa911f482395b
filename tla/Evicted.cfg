\* Workers too slow to heartbeat are evicted but live on.
CONSTANTS
    Drives = {d1}
    Files = {f1}
    Workers = {w1, w2}
    NoDrive = NoDrive
    NoFile = NoFile
    NoWorker = NoWorker
    PoolSize = 1
    MaxHead = 1
    MaxDup = 1
    Ops = {}
    Faults = {"api", "slow"}
    Unsupported = {}
SPECIFICATION Spec
SYMMETRY Symmetry
INVARIANTS ListExclusive IdleHoldsNoLock
