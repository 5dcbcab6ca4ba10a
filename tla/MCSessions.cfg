CONSTANTS
    Users = {u1}
    Clients = {c1, c2}
    Workers = {w1, w2}
    Tokens = {t1, t2, t3}
    Lines = {l1, l2}
    None = None
SPECIFICATION Spec
SYMMETRY Sym
INVARIANTS
    TypeOK
    RotationKeepsOneToken
    LogoutEndsSession
    SuspendedGetsNoToken
PROPERTIES
    OtherSessionsSurvive
