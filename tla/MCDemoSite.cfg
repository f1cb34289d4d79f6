SPECIFICATION SiteSpec
CONSTANTS
    Missing = Missing
    Empty = Empty
    Runs = {r1, r2}
    Programs = {"server", "prepare", "demo"}
    Day = 365
    LastDay = 1095
INVARIANTS
    ServedAloneIsAccepted
    ClientsOfItSucceed
    SiteInv
SYMMETRY RunSymmetry
CHECK_DEADLOCK FALSE
