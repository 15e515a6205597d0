\* One component at a time.
SPECIFICATION Spec
CONSTANTS
    l1 = l1
    l2 = l2
    l3 = l3
    e1 = e1
    e2 = e2
    Nil = Nil
    Login = {l1, l2, l3}
    Subject = {"ann", "bob"}
    Email = {e1, e2}
    User = {"u1", "u2", "u3"}
    SubjectOf <- Owner
    Caller = {k1, k2, k3}
    Limit = 2
    Window = 3
    MaxKeys = 2
    MaxTime = 4
    MaxAllowed = 5
    RequestKey = {"key"}
    Thing = {t1, t2}
    Op = {"star", "trash"}
    Server = {p1, p2}
    MaxCalls = 3
    Row = {1, 2, 3, 4}
    NameRange = {1, 2}
    Time = {1}
    View = {"folder", "search", "trash", "recent", "activity", "offset"}
    PageSize = {1, 2}
    MaxChanges = 1
    MaxExpiries = 1
SYMMETRY Interchangeable
INVARIANTS
    SessionsReachTheirHome
    WindowsHold
    OneEffectPerKey
    ShownExactlyOnce
PROPERTIES
    AnswersStand
CHECK_DEADLOCK FALSE
