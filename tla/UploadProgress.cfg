SPECIFICATION FairSpec
CONSTANTS
    Session = {s1}
    MultipartSession = {s1}
    Item <- OneItem
    ItemOf <- SameItem
    Worker = {w1}
    Purger = {p1}
    MaxAttempts = 3
    MaxDeletions = 2
    RequireMalwareScan = TRUE
    NoSession = NoSession
PROPERTIES
    AcceptedCompletionSettles
    AbandonedUploadReleased
    ImplementsContract
CHECK_DEADLOCK FALSE
