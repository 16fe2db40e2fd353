SPECIFICATION Spec
CONSTANTS
    Users = {u1}
    Plugs = {p1}
    Sessions = {s1, s2}
    KwhLimits = {1}
    NoLimit = NoLimit
    Amounts = {1, 2}
    Rate = 1
    MinStart = 1
    MaxActive = 1
    PlugCap <- MCPlugCap
    Circuit = {p1}
    CircuitCap = 1
    MaxCoins = 2
    MaxEnergy = 2
    Events = {"publish_fails", "operator", "claw_back", "close_account"}
SYMMETRY Symmetry
INVARIANTS
    TypeOK
    ChargedOnceWithinHold
    ActiveCap
    WalletReconciled
PROPERTIES
    BillFrozen
    LimitsNeverForgive
