SPECIFICATION Spec
CONSTANTS
    EtaTrips = {t1, t2}
    EtaTimes = {1, 3}
    Window = 2
    Ttl = 1
    MaxFeatures = 3
    MaxRestarts = 1
    Buses = {b1}
    Extras = {"stationary"}
    StreakWindow = 1
    StreakLength = 2
    DlqWindow = 1
    DlqCount = 2
    DlqCooldown = 2
    LossThreshold = 0
    MinPings = 2
    Watched = {"PERSISTENT_OFF_ROUTE", "TRIP_NOT_STARTED_DEVICE_ACTIVE",
               "COMMUNICATION_LOSS"}
    MaxClock = 2
    MaxInputs = 3
    Clients = {c1, c2}
    MaxPositions = 2
    MaxAlerts = 1
    MaxConnects = 2
    MaxErrors = 1
    Devices = {d1}
    Settings = {"I", "H"}
    Kinds = {"good", "noBus", "notJson"}
    MaxConfigs = 2
    MaxMqttDrops = 1
    MaxEnds = 1
INVARIANTS
    EtaInv SnapshotKeepsUp AnomalyInv NotedIsAnnounced FeedInv ConfigInv
    RetainedIsNewest
CHECK_DEADLOCK FALSE
