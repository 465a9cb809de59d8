SPECIFICATION MCSpec
CONSTANTS
    Threads = {t1, t2, t3}
    Timer = Timer
    Events = {e1, e2, e3}
    BatchSize = 2
    None = None
    First <- Autumn
    MaxMonths = 8
INVARIANTS
    EventsAccounted
    RaisesOnlyInRace
    PartitionsAhead
PROPERTIES
    DeliverySpec
    OffStaysOff
    BufferDrains
CHECK_DEADLOCK FALSE
