\* Two users, two drives, one call beside two requests of administrators.
CONSTANTS
    Users = {u1, u2}
    Drives = {d1, d2}
    Calls = {c1}
    Slots = {s1}
    NoUser = NoUser
    NoDrive = NoDrive
SPECIFICATION Spec
SYMMETRY Symmetry
INVARIANTS ForeignOnlySummed NothingMissed ErrorsExplained GrantsOwned
