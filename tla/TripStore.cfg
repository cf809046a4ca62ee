\* CHECK_DEADLOCK: every behaviour ends at MaxVersion.
SPECIFICATION Spec
CONSTANTS
    Requests = {r1, r2}
    Uids = {u1, u2}
    Payloads = {a, b}
    Attempts = 2
    Days = {d1}
    DayNotes = {n0, n1}
    BlankNote = n0
    RowIds = {1, 2}
    MaxVersion = 3
    MaxDeletes = 1
SYMMETRY StoreSymmetry
CHECK_DEADLOCK FALSE
INVARIANTS TypeOK RowsAreAList SnapshotCurrent
