\* A file with two versions; a folder in a folder; one deletion attempt.
SPECIFICATION FairSpec
CONSTANTS
    a = a
    b = b
    f = f
    g = g
    h = h
    u = u
    v = v
    Root = Root
    NoItem = NoItem
    File = {a}
    Folder = {f, g}
    HomeOf <- Nested
    Version = {u, v}
    ItemOf <- Revisions
    Movable = {a, g}
    MaxDeletions = 1
INVARIANTS
    TypeOK
    ReadyStored
    LiveReadable
    RestoreProtects
PROPERTIES
    KeptVersionSurvives
    OnlyLateArrivals
    ExpiredTrashPurged
CHECK_DEADLOCK FALSE
