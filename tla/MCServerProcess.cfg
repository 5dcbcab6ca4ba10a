CONSTANTS
    Logs = {a, b, c, d}
    Movable = {a, b, c}
    Runs = {startup, schedule}
    BatchSize = 2
    Users = {u1}
    Timers = {m1, m2}
    None = None
    Delays <- MCDelays
SPECIFICATION FairProcessSpec
INVARIANTS
    ProcessTypeOK
    NoLogLost
    ArchivedOnce
    OneRunAtATime
    TimersMatchHandles
PROPERTIES
    ImplementsMove
    OldLogsArchived
    ImplementsStages
    ForceLogoutFollowsWarning
    PendingStageSettles
