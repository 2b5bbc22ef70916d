SPECIFICATION Spec
CONSTANTS
    d = d
    c = c
    r = r
    s1 = s1
    s2 = s2
    None = None
    Asgns = {d, c, r}
    Shpts = {s1, s2}
    Group <- MCGroup
    Facts <- Apart
    Last = 9
    Ingesters = {i1, i2}
    Tracked = {"SHIPMENT"}
SYMMETRY Symmetry
INVARIANTS
    OnlineIsRebuild
    CourierIsLatest
    DeliveredOnce
    WithdrawalsShow
