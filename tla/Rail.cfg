CONSTANTS
    tms = tms
    t1 = t1
    t2 = t2
    Facts = {1, 2, 3}
    Poison = {1}
    Hopeless = {2}
    Relays = {r1, r2}
    BatchSize = 2
    Groups = {tms}
    Members = {t1, t2}
    GroupOf <- TwoOfTms
    Levels = 1
    FromBeginning = TRUE
    Relay = Relay
    MaxRows = 2
    MaxCrashes = 1
    MaxThrows = 1
SPECIFICATION FairSpec
CHECK_DEADLOCK FALSE
INVARIANTS
    Inv
    NeverLost
PROPERTIES
    Delivered
    ImplementsFactDelivery
