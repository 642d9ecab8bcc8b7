SPECIFICATION Spec
CONSTANTS
    Handlers = {p}
    Names = {"pam", "leanna"}
    Subs = {"s1", "s2"}
    SeedRow = "0001"
    SeedName = "pam"
    SeedSub = "s1"
    Fresh = {"f1"}
    Emps = {"e1", "e2"}
    Sales = {1, 2}
    None = None
INVARIANT SalesKept
CHECK_DEADLOCK FALSE
