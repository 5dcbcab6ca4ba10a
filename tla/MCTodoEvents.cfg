CONSTANTS
    Todos = {a, b}
    Workers = {w1, w2}
    Handlers = {h1, h2}
    MaxDay = 5
    MaxEvents = 5
    None = None
SPECIFICATION MCSpec
SYMMETRY Sym
CONSTRAINT Bounded
INVARIANTS
    TypeOK
    EventsAccountedFor
    CountedAtMostOnce
    StreakIsExact
    StreakNeverOverstated
