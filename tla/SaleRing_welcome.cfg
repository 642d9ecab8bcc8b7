SPECIFICATION Spec
CONSTANTS
    Tills = {t1, t2}
    Reqs = {r1, r2}
    Members = {m1}
    Orders = {o1, o2}
    None = None
    LastDay = 1
    MaxBaskets = 1
    MaxEdits = 0
    MaxKeyless = 0
INVARIANT WelcomeSpentOnce
SYMMETRY Interchangeable
CHECK_DEADLOCK FALSE
