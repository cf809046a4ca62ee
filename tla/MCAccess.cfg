\* CHECK_DEADLOCK: every component is bounded and comes to rest.
SPECIFICATION Spec
CONSTANTS
    Slots = {x1, x2}
    Others = {y1, y2}
    Names = {z1, z2}
    Muts = {m1}
    Devices = {"d1", "d2", "d3"}
    Procs = {"api", "worker"}
    Columns = {1}
    Rows = {"r1", "r2"}
    Texts = {"a", "b"}
    Threads = {"b1", "b2", "b3"}
    Owner = "owner"
    Roles = {"editor", "co-owner"}
    MaxProfiles = 2
    MaxGrants = 2
    MaxTokens = 2
    MaxKeys = 2
    MaxKey = 2
    MaxWrites = 2
    MaxScripts = 2
    MaxVersion = 2
    MaxReqs = 2
    MaxEdits = 1
    MaxVisits = 2
    MaxChanges = 4
    MaxInvites = 2
    None = None
SYMMETRY Symmetric
INVARIANTS
    SignInSound LinkCut RecoverySound RotationSound RolesSound ServedCurrent
PROPERTIES AccessSteps
CHECK_DEADLOCK FALSE
