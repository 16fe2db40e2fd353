SPECIFICATION InvoicesSpec
CONSTANTS
    Sessions = {s1, s2}
    Cost <- MCCost
    Topups = {t1, t2}
    Amount <- MCAmount
    RefundCoins = {5}
    FeePct = 10
    MaxPayouts = 2
    MaxClock = 5
    Issuers = {i1, i2}
    NoSession = NoSession
SYMMETRY Symmetry
CHECK_DEADLOCK FALSE
INVARIANTS
    PayoutsConsistent
    PayoutsFoot
    NeverDrawnTwice
    InvoicesConsistent
PROPERTIES
    RegisterSpec
