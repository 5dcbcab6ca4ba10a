CONSTANTS
    Users = {u1, u2}
    Tabs = {t1, t2}
    Sockets = {s1, s2, s3}
    QueueLimit = 2
    None = None
SPECIFICATION GatewaySpec
SYMMETRY Sym
INVARIANTS
    GatewayTypeOK
    OnlineMatchesSockets
    AnnouncementsCurrent
    ExpiryAnnounced
