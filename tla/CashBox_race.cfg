SPECIFICATION Spec
CONSTANTS
    Reqs = {r1, r2}
    Openers = {r1}
    Methods = {"cash"}
    Baseline = 4
    SaleTotal = 2
    MaxShifts = 2
    MaxSales = 1
    MaxMoves = 2
    MaxRefunds = 1
    MaxClock = 5
INVARIANTS TypeOK CloseIsWhole PaidWithinMovements
PROPERTY ClosedForGood
CHECK_DEADLOCK FALSE
