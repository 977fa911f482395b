\* The administrator acts on a drive at any point of its build.
CONSTANTS
    Drives = {d1}
    Files = {f1}
    Workers = {w1}
    NoDrive = NoDrive
    NoFile = NoFile
    NoWorker = NoWorker
    PoolSize = 1
    MaxHead = 2
    MaxDup = 1
    Ops = {"disable", "rebuild", "delete", "register"}
    Faults = {}
    Unsupported = {}
SPECIFICATION Spec
INVARIANTS PendingExact
PROPERTIES CursorSpec
