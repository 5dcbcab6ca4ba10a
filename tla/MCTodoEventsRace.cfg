CONSTANTS
    Todos = {a}
    Workers = {w1, w2}
    Handlers = {h1}
    MaxDay = 1
    MaxEvents = 2
    None = None
SPECIFICATION MCSpec
CONSTRAINT Bounded
INVARIANTS
    CountedOnceAlways
