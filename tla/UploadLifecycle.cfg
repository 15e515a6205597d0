SPECIFICATION Spec
CONSTANTS
    Session = {s1, s2}
    MultipartSession = {s2}
    Item <- OneItem
    ItemOf <- SameItem
    Worker = {w1, w2}
    Purger = {p1}
    MaxAttempts = 2
    MaxDeletions = 1
    RequireMalwareScan = FALSE
    NoSession = NoSession
SYMMETRY Processes
CONSTRAINT Focus
INVARIANTS
    TypeOK
    RowsAgree
    CleanupNeverForgotten
    ProcessesAgree
    PublishedIntact
    OneCurrentVersion
PROPERTIES
    PublicationIsFinal
    CurrentSurvives
    ImplementsSafeContract
CHECK_DEADLOCK FALSE
