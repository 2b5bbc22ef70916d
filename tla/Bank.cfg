SPECIFICATION Spec
CONSTANTS
    bank = bank
    member = member
    other = other
    r1 = r1
    r2 = r2
    None = None
    Banks = {bank}
    Codes = {bank, member, other}
    Names = {bank, member, other}
    Aggrs = {e1, e2, e3}
    Requests = {k1, k2, k3}
    RowFacts = {r1, r2}
    RowOf <- MCRowOf
SYMMETRY MCSymmetry
CHECK_DEADLOCK FALSE
INVARIANTS
    OneDefault
    CodeResolvesForGood
    DefaultBearsName
    
