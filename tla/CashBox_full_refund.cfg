SPECIFICATION Spec
CONSTANTS
    Reqs = {r1}
    Openers = {r1}
    Methods = {"cash"}
    Baseline = 4
    SaleTotal = 2
    MaxShifts = 1
    MaxSales = 1
    MaxMoves = 0
    MaxRefunds = 1
    MaxClock = 6
INVARIANT ExpectedIsDrawer
CHECK_DEADLOCK FALSE
