SPECIFICATION FairSpec
CONSTANTS
    Plugs = {p1}
    Tasks = {t1, t2}
    MaxWire = 2
    MaxEvents = 2
INVARIANTS
    LinkConsistent
PROPERTIES
    ToldOnceTruly
    SparesRunning
    OrphanSwitchedOff
