SPECIFICATION Spec
CONSTANTS
    f1 = f1
    f2 = f2
    k1 = k1
    k2 = k2
    i1 = i1
    i2 = i2
    i3 = i3
    i4 = i4
    i5 = i5
    v1 = v1
    v2 = v2
    n1 = n1
    n2 = n2
    None = None
    Files = {f1, f2}
    Keys = {k1, k2}
    Ids = {i1, i2, i3, i4, i5}
    Rows <- MCRows
    Corrections <- MCCorrections
    Manual <- MCManual
    Vpas = {v1, v2}
    Names = {n1, n2}
CHECK_DEADLOCK FALSE
INVARIANTS
    ClosedIsArchived
