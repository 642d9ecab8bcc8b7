SPECIFICATION Spec
CONSTANTS
    Jobs = {j1}
    Pulled = {j1}
    Tasks = {t1}
    Handlers = {h1, h2}
    Steps = 2
    MaxCrashes = 0
    MaxDrops = 0
    MaxPosts = 2
INVARIANT ChargedOnce
CHECK_DEADLOCK FALSE
