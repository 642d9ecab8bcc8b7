SPECIFICATION Spec
CONSTANTS
    Users = {u1, u2}
    House = House
    Reqs = {r1, r2}
    Starter = 1
    Reward = 1
    DailyCap = 1
    MaxPrice = 1
    MaxOwed = 1
    MaxRequests = 4
    MaxGrants = 1
    LastDay = 2
INVARIANTS TypeOK Conserved DebtBounded StartersBounded RewardsCapped BoardDense
CHECK_DEADLOCK FALSE
SYMMETRY Interchangeable
