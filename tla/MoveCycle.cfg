SPECIFICATION Spec
CONSTANTS
    i1 = i1
    i2 = i2
    i3 = i3
    r1 = r1
    r2 = r2
    n1 = n1
    n2 = n2
    Item <- Items
    Root = Root
    None = None
    Name <- Names
    Request <- Pair
    Creates <- Folders
INVARIANT Acyclic
CHECK_DEADLOCK FALSE
