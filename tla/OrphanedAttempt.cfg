SPECIFICATION Spec
CONSTANTS
    Session = {s1}
    MultipartSession = {}
    Item <- OneItem
    ItemOf <- SameItem
    Worker = {w1}
    Purger = {p1}
    MaxAttempts = 1
    MaxDeletions = 1
    RequireMalwareScan = FALSE
    NoSession = NoSession
INVARIANTS
    ReleasedMeansNoBytes
CHECK_DEADLOCK FALSE
