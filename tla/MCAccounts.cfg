SPECIFICATION Spec
CONSTANTS
    w1 = w1
    w2 = w2
    p1 = p1
    p2 = p2
    Workers = {w1, w2}
    Passwords = {p1, p2}
    NoPassword = NoPassword
    AdminRequests <- MCAdminRequests
    MaxUsers = 2
    MaxLinks = 3
    MaxCodes = 1
    MaxEpoch = 4
    MaxJwts = 4
    MaxRequests = 5
    MaxTime = 1
    LinkTtl = 1
    CodeTtl = 1
    Budget = 1
    Window = 1
SYMMETRY Symmetry
CHECK_DEADLOCK FALSE
INVARIANTS
    LinksAndBudgetHold
    CredentialsCurrent
PROPERTIES
    RevokedStaysRevoked
