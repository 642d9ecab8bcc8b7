SPECIFICATION Spec
CONSTANTS
    h0 = h0
    h1 = h1
    h2 = h2
    r1 = r1
    r2 = r2
    r3 = r3
    Coin = 5
    MaxPrice = 2
    MaxLines = 3
    MaxTicket = 2
    MaxInputs = 1
    Limit = 2
    Products = {r1, r2, r3}
    Codes = {"ean", "box", "made_up"}
    Minted = {"made_up"}
    NoCode = "none"
    NoProduct = "nobody"
    Ops = {"update", "order", "po_status"}
    Quotes = {}
    POs = {r1, r2}
    MaxDeposit = 0
    MaxHours = 0
    Bookings = {r1, r2, r3}
    Appointments = {r1, r2}
    LastDay = 3
    People = {"pam", "ralph"}
    Sessions = {r1, r2, r3}
    Nobody = "nobody"
    Names = {"pam", "leanna"}
    Subs = {"s1", "s2", "s3"}
    SeedRow = "0001"
    SeedName = "pam"
    SeedSub = "s1"
    Fresh = {r3}
    Emps = {r1, r2}
    Sales = {1}
    None = "none"
    Baskets = {r1, r2, r3}
    Gifts = {r3}
    MaxCut = 1
INVARIANTS TypeOK NeverMore PaidAsAgreed BillsAddUp ChargedAsShown
           NothingTwice BooksBalance SoldAsFilled TriagedOnce
PROPERTIES ClearedWhenNonePending KeepsScanning
SYMMETRY Interchangeable
CHECK_DEADLOCK FALSE
