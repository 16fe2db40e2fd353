SPECIFICATION FairSpec
CONSTANTS
    Users = {u1}
    Plugs = {p1, p2}
    Requests = {r1, r2}
    MaxQueued = 1
    MaxActive = 1
    MaxRows = 2
    MaxSessions = 2
    MaxRestarts = 1
INVARIANTS
    QueueConsistent
PROPERTIES
    CancelSticks
    QueueDrains
