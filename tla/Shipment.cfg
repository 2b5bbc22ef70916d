SPECIFICATION Spec
CONSTANTS
    u1 = u1
    u2 = u2
    None = None
    Devices = {u1}
    Journeys <- MCJourneys
    MaxTime = 3
    Misread = {2}
    Damageable = {u1}
    MaxManual = 1
    MaxOverrides = 1
CHECK_DEADLOCK FALSE
INVARIANTS
    LatestWins
    DevicesFollow
    HeardIsStatus
PROPERTIES
    CancelRestores
    WrittenOffStays
