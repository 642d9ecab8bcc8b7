SPECIFICATION PoolSpec
CONSTANTS
    Users <- MCUsers
    Calls <- MCCalls
    Total = 3
    MinPerUser = 1
INVARIANTS PoolTypeOK WithinCapacity NoLostWakeup
PROPERTIES SharesConverge NoUserStarves
