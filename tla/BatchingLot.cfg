SPECIFICATION Spec
CONSTANTS
    a1 = a1
    a2 = a2
    a3 = a3
    bankA = bankA
    bankB = bankB
    None = None
    Asgns <- MCAsgns
    RequestOf <- TwoLegs
    BankOf <- MCBankOf
    BankLot <- NoOverride
    MaxCrashes = 0
    Holdable = {}
    Replacements = {a2}
    MinLot = 2
    MaxWait = 2
    Consumers = {c1, c2}
    Schedulers = {s1, s2}
    OpsTokens = {m1}
    Timers = {t1, t2, t3, t4, t5, t6, t7}
INVARIANTS
    DeadlineCovered
    NoFullLotLeftBehind
