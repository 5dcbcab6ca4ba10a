CONSTANTS
    Stations = {s1, s2}
    FirstStation = s1
    AskLimit = 2
    Nowhere = Nowhere
    Requests = {r1, r2}
    Tokens = {t1, t2}
    None = None
    Todos = {a}
    Updates = {p1, p2}
    NoTodo = NoTodo
    DayLength = 2
    LastMoment = 4
    Window = 2
    SpringForward = {1}
SPECIFICATION MCSpec
SYMMETRY Sym
CONSTRAINT Bounded
INVARIANTS
    QueueHasRefresh
    KickedForCause
    PlayButtonTruthful
    StatsTruthful
