CONSTANTS
    Users = {u1, u2}
    FirstAdmins = {u1, u2}
    Writers = {w1}
    Readers = {r1}
    Keys = {"active", "details"}
    None = None
SPECIFICATION Spec
SYMMETRY Sym
INVARIANTS
    TypeOK
    AnAdminRemains
    CachedListsCurrent
CHECK_DEADLOCK FALSE
