\* Two sheets read at once: the cap of one parcel per dispatch id.
SPECIFICATION Spec
CONSTANTS
    d1 = d1
    d2 = d2
    d3 = d3
    u1 = u1
    u2 = u2
    a1 = a1
    a2 = a2
    f1 = f1
    f2 = f2
    None = None
    Dispatches = {d1, d2, d3}
    Group <- MCGroup
    Units = {u1, u2}
    Awbs = {a1, a2}
    Files = {f1, f2}
    MaxRows = 2
    MaxCorrections = 1
SYMMETRY MCSymmetry
INVARIANTS
    OneAwbPerDispatch
CHECK_DEADLOCK FALSE
