\* Two workers, duplicated list and finalize tasks.
CONSTANTS
    Drives = {d1}
    Files = {f1}
    Workers = {w1, w2}
    NoDrive = NoDrive
    NoFile = NoFile
    NoWorker = NoWorker
    PoolSize = 2
    MaxHead = 2
    MaxDup = 2
    Ops = {}
    Faults = {}
    Unsupported = {}
SPECIFICATION Spec
SYMMETRY Symmetry
INVARIANTS TypeOK ListExclusive
PROPERTIES CursorSpec
