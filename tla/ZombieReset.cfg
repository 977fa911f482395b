\* A drive is reset while its finalize task is queued.
CONSTANTS
    Drives = {d1}
    Files = {f1}
    Workers = {w1}
    NoDrive = NoDrive
    NoFile = NoFile
    NoWorker = NoWorker
    PoolSize = 1
    MaxHead = 1
    MaxDup = 1
    Ops = {}
    Faults = {"crash"}
    Unsupported = {}
SPECIFICATION Spec
PROPERTIES ResetRestarts
