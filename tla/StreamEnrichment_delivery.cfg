SPECIFICATION FairSpec
CONSTANTS
    Trips = {}
    NoTrip = NoTrip
    Carried = {NoTrip}
    RedisFails = FALSE
    Times = {1, 2}
    MaxLog = 0
    MaxIncidents = 0
    MaxPositions = 3
    MaxFailures = 2
INVARIANTS NothingLost LateNeverCleaned SnapshotIsNewest
PROPERTIES EventuallyCleaned
CHECK_DEADLOCK FALSE
