CONSTANTS
    Users = {u1, u2}
    FirstAdmins = {u1}
    Writers = {w1, w2}
    Readers = {}
    Keys = {}
    None = None
SPECIFICATION Spec
PROPERTIES
    DeleteSparesAdmins
CHECK_DEADLOCK FALSE
