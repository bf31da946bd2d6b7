SPECIFICATION Spec
CONSTANTS
    Trips = {t1, t2}
    NoTrip = NoTrip
    Carried = {NoTrip}
    RedisFails = TRUE
    Times = {1}
    MaxLog = 4
    MaxIncidents = 1
    MaxPositions = 0
    MaxFailures = 2
SYMMETRY Symmetry
INVARIANTS StateFollowsLifecycle CaughtUpAgrees
CHECK_DEADLOCK FALSE
