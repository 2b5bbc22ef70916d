SPECIFICATION FairSpec
CONSTANTS
    Depth = 1
    Groups = {"SOUNDBOX", "COLLATERAL"}
    Shipped <- OriginalShipped
    InOrder = FALSE
    Holdable <- None
    Toggleable <- Child
    Overridable <- Child
    EditTo <- Extremes
    MaxToggles = 1
    MaxEdits = 0
    MaxOverrides = 1
CHECK_DEADLOCK FALSE
INVARIANTS
    OpenIsUnbatched
    ReplacedDeviceWrittenOff
PROPERTIES
    RevivedOnlyByWithdrawal
    DeliveredCaseCloses
