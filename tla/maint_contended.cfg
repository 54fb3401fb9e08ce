CONSTANTS
    p1 = p1
    p2 = p2
    am0 = am0
    am1 = am1
    s1 = s1
    s2 = s2
    n1 = n1
    f1 = f1
    f2 = f2
    wide = wide
    Nobody = Nobody
    NoId = NoId
    NoNotice = NoNotice
    Members = {am0, am1}
    Primary = am0
    Procs = {p1, p2}
    Ids = {s1, s2}
    Notices = {}
    Files = {f1, f2}
    FileOf <- Separate
    Scopes = {wide}
    ScopeOf <- AllWide
    Unrelated <- Nothing
    Duration = 1
    Ops <- Contended
SYMMETRY Symmetric
SPECIFICATION Spec
INVARIANTS NoOverlap AdmissionHolds
PROPERTIES LockUsed
