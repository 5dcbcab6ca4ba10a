CONSTANTS
    Slots = {o1, o2}
SPECIFICATION MCSpec
SYMMETRY Sym
CONSTRAINT Bounded
INVARIANTS
    UndisturbedListCurrent
