SPECIFICATION Spec
CONSTANTS
    Tills = {t1}
    Reqs = {r1, r2}
    Members = {}
    Orders = {}
    None = None
    LastDay = 2
    MaxBaskets = 2
    MaxEdits = 1
    MaxKeyless = 1
INVARIANTS NumbersDense BasketChargedOnce
PROPERTY ImplementsBook
SYMMETRY Interchangeable
CHECK_DEADLOCK FALSE
