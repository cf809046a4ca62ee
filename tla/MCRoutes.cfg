\* CHECK_DEADLOCK: every component is bounded and comes to rest.
SPECIFICATION Spec
CONSTANTS
    x1 = x1
    x2 = x2
    y1 = y1
    y2 = y2
    spare = spare
    None = None
SYMMETRY Symmetric
INVARIANTS
    RailDataSound RoutesSound DrawnSound
PROPERTIES RouteSteps
CHECK_DEADLOCK FALSE
