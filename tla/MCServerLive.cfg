CONSTANTS
    Users = {u1}
    Clients = {c1}
    Workers = {w1, w2}
    Tokens = {t1, t2, t3}
    Lines = {l1}
    None = None
    Stations <- MCStations
    StreamOf <- MCStreamOf
    Titles = {"song", "news", "noise"}
    NoTitle = NoTitle
    Pending = Pending
    Unit = 2
    Limit = 14
    MaxChunk = 5
SPECIFICATION MCSpec
INVARIANTS
    IcyTypeOK
    InStep
    FirstTitleAnswered
    NothingOverlooked
PROPERTIES
    SuspensionEndsSessions
    ConnectedIsAnswered
