\* A rebuild requested while a listing runs.
CONSTANTS
    Drives = {d1}
    Files = {f1}
    Workers = {w1}
    NoDrive = NoDrive
    NoFile = NoFile
    NoWorker = NoWorker
    PoolSize = 1
    MaxHead = 2
    MaxDup = 1
    Ops = {"rebuild"}
    Faults = {}
    Unsupported = {}
SPECIFICATION Spec
INVARIANTS RebuildIsFull
