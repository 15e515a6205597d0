\* Two files in a folder, one of them never published.
SPECIFICATION Spec
CONSTANTS
    a = a
    b = b
    f = f
    g = g
    h = h
    u = u
    v = v
    Root = Root
    NoItem = NoItem
    File = {a, b}
    Folder = {f}
    HomeOf <- Flat
    Version = {u, v}
    ItemOf <- Siblings
    Movable = {}
    MaxDeletions = 1
INVARIANTS
    IntactTrashRestorable
CHECK_DEADLOCK FALSE
