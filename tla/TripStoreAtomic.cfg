\* CHECK_DEADLOCK: every behaviour ends at MaxVersion.
SPECIFICATION Spec
CONSTANTS
    Requests = {r1, r2}
    Uids = {u1, u2, u3}
    Payloads = {a, b}
    Attempts = 2
    Days = {d1, d2}
    DayNotes = {n0, n1}
    BlankNote = n0
    RowIds = {1}
    MaxVersion = 5
    MaxDeletes = 0
SYMMETRY StoreSymmetry
CHECK_DEADLOCK FALSE
PROPERTY ImplementsAtomicTrip
