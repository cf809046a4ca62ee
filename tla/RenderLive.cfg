\* CHECK_DEADLOCK: the bounded jobs end and age out.
SPECIFICATION LiveSpec
CONSTANTS
    Jobs = {j1}
    Clients = {c1}
    Kinds = {"video", "preview", "poster"}
    VideoLimit = 1
    PreviewLimit = 1
    MaxCrashes = 2
    Mixed = FALSE
    NoJob = NoJob
CHECK_DEADLOCK FALSE
PROPERTIES RenderSettles GeometryGoes
