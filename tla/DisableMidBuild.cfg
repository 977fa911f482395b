\* Disabling a drive while it is built.
CONSTANTS
    Drives = {d1}
    Files = {f1}
    Workers = {w1}
    NoDrive = NoDrive
    NoFile = NoFile
    NoWorker = NoWorker
    PoolSize = 1
    MaxHead = 2
    MaxDup = 1
    Ops = {"disable"}
    Faults = {}
    Unsupported = {}
SPECIFICATION Spec
PROPERTIES DisableCancels
