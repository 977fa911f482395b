\* One worker, no faults: builds end and the index catches up.
CONSTANTS
    Drives = {d1}
    Files = {f1}
    Workers = {w1}
    NoDrive = NoDrive
    NoFile = NoFile
    NoWorker = NoWorker
    PoolSize = 1
    MaxHead = 3
    MaxDup = 1
    Ops = {"pause"}
    Faults = {}
    Unsupported = {}
SPECIFICATION FairSpec
PROPERTIES EventuallyIndexed PauseSettles
