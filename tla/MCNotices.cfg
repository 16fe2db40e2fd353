SPECIFICATION NoticesSpec
CONSTANTS
    u1 = u1
    u2 = u2
    p1 = p1
    p2 = p2
    e1 = e1
    r1 = r1
    r2 = r2
    t1 = t1
    t2 = t2
    Drivers = {u1, u2}
    Plugs = {p1, p2}
    Endpoints = {e1}
    Callers = {r1, r2}
    Tasks = {t1, t2}
    Nobody = Nobody
    MaxSubs = 1
    Caps = {0, 1}
    MaxRows = 2
    MaxEvents = 4
CHECK_DEADLOCK FALSE
INVARIANTS
    AnsweredOnce
PROPERTIES
    OwedIsPaid
