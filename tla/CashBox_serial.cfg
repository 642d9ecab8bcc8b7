SPECIFICATION Spec
CONSTANTS
    Reqs = {r1}
    Openers = {r1}
    Methods = {"cash", "card"}
    Baseline = 4
    SaleTotal = 2
    MaxShifts = 2
    MaxSales = 2
    MaxMoves = 2
    MaxRefunds = 2
    MaxClock = 14
INVARIANTS CashSaleAssigned FiguresAddUp BoxesInLine CountMatchesExpected
CHECK_DEADLOCK FALSE
