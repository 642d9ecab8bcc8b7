SPECIFICATION Spec
CONSTANTS
    Jobs = {j1, j2}
    Pulled = {j2}
    Tasks = {t1, t2}
    Handlers = {h1}
    Steps = 2
    MaxCrashes = 2
    MaxDrops = 1
    MaxPosts = 2
INVARIANTS TypeOK ChargedPerDelivery EarlyKillIsFree
PROPERTY PublishedEnds
CHECK_DEADLOCK FALSE
