SPECIFICATION PricingSpec
CONSTANTS
    Tariffs = {t1}
    NoTariff = NoTariff
    MaxSessions = 2
    Prices = {0, 2}
    DefaultRate = 1
    Offered <- MCOffered
    DayLen = 2
    WeekLen = 2
    Durations = {2}
    MaxSlots = 2
    MaxEdits = 1
    MaxTime = 2
    MaxInFlight = 1
    MaxEnergy = 2
CHECK_DEADLOCK FALSE
CONSTRAINT OneOrTheOther
INVARIANTS
    ChargesThePrice
    SegmentsBilledWithinHold
    DisplayIsTrue
    LiveCostFollows
