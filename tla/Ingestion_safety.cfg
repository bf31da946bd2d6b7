SPECIFICATION MCSpec
CONSTANTS
    t1 = t1
    Buses = {b1}
    Trips = {t1, t2}
    NoTrip = NoTrip
    Stalls = FALSE
    MaxLog = 3
    MaxRestarts = 2
    Times = {1, 2}
    MaxBuffer = 2
    MaxMessages = 3
INVARIANTS IngestionInv OneOvertaker CacheInv CacheFollowsLog
PROPERTIES InactiveOnlyAfterReplay BufferDrains EventuallyReady
CHECK_DEADLOCK FALSE
