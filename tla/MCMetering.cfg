SPECIFICATION MeteringSpec
CONSTANTS
    PersistEvery = 2
    RingSize = 2
    MaxEnergy = 3
    MaxTopic = 3
    MaxReboots = 1
CHECK_DEADLOCK FALSE
INVARIANTS
    MeteredWithinEnergy
    BilledInFull
