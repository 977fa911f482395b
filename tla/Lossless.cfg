\* One worker, Drive API errors, failing files and an unsupported one: no change is lost.
CONSTANTS
    Drives = {d1}
    Files = {f1, f2}
    Workers = {w1}
    NoDrive = NoDrive
    NoFile = NoFile
    NoWorker = NoWorker
    PoolSize = 1
    MaxHead = 2
    MaxDup = 2
    Ops = {"enable", "sync"}
    Faults = {"api", "file"}
    Unsupported = {f2}
SPECIFICATION Spec
INVARIANTS NoChangeLost
