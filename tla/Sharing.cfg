\* One component at a time, each with its own sets and bounds.
SPECIFICATION Spec
CONSTANTS
    i1 = i1
    i2 = i2
    q1 = q1
    q2 = q2
    docs = docs
    note = note
    Root = Root
    Nil = Nil
    Entry <- TwoEntries
    Name = {"a", "b"}
    Creates = {"ensure", "upload", "shortcut"}
    Request <- TwoRequests
    Granting <- OneFile
    Linking <- OneLink
    Inviting <- TwoInvitations
    User = {"ann", "bob"}
    Remarking <- OneComment
    Threading <- TwoComments
INVARIANTS
    OneTree
    AccessAgrees
PROPERTIES
    SettledNamesStayFree
    AccessNeedsAnOffer
    CommentsAreKept
CHECK_DEADLOCK FALSE
