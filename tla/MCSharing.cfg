SPECIFICATION Spec
CONSTANTS
    Users = {u1, u2}
    Plugs = {p1, p2, p3}
    Sessions = {s1, s2}
    KwhLimits = {1}
    NoLimit = NoLimit
    Amounts = {2}
    Rate = 1
    MinStart = 1
    MaxActive = 2
    PlugCap <- MCPlugCap
    Circuit = {p1, p2}
    CircuitCap = 1
    MaxCoins = 2
    MaxEnergy = 1
    Events = {"cutoff_alarm"}
SYMMETRY Symmetry
INVARIANTS
    PlugExclusive
    CircuitWithinCapacity
PROPERTIES
    StartCovered
