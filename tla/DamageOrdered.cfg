SPECIFICATION Spec
CONSTANTS
    Depth = 1
    Groups = {"SOUNDBOX", "COLLATERAL"}
    Shipped <- OriginalShipped
    InOrder = TRUE
    Holdable <- Child
    Toggleable <- Both
    Overridable <- Child
    EditTo <- Extremes
    MaxToggles = 1
    MaxEdits = 1
    MaxOverrides = 0
CHECK_DEADLOCK FALSE
INVARIANTS
    Inv
    CancelUndoesFlag
    DeactivatedIsNotLive
PROPERTIES
    CaseMovesForward
