CONSTANTS
    Requests = {r1}
    Tokens = {t1, t2}
    None = None
    Slots = {o1}
SPECIFICATION MCSpec
SYMMETRY Sym
CONSTRAINT Bounded
INVARIANTS
    AppTypeOK
    SpinnerMatchesWork
