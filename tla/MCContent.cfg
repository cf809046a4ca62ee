\* CHECK_DEADLOCK: every component is bounded and comes to rest.
SPECIFICATION Spec
CONSTANTS
    x1 = x1
    x2 = x2
    y1 = y1
    y2 = y2
    z1 = z1
    z2 = z2
    spare = spare
    None = None
SYMMETRY Symmetric
INVARIANTS
    TracksKept PhotosKept  MigrationSound
PROPERTIES ContentSteps
CHECK_DEADLOCK FALSE
