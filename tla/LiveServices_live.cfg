SPECIFICATION FairSpec
CONSTANTS
    EtaTrips = {t1}
    EtaTimes = {1}
    Window = 2
    Ttl = 1
    MaxFeatures = 3
    MaxRestarts = 1
    Buses = {b1}
    Extras = {}
    StreakWindow = 1
    StreakLength = 2
    DlqWindow = 1
    DlqCount = 2
    DlqCooldown = 2
    LossThreshold = 0
    MinPings = 2
    Watched = {"COMMUNICATION_LOSS"}
    MaxClock = 1
    MaxInputs = 2
    Clients = {c1, c2}
    MaxPositions = 1
    MaxAlerts = 0
    MaxConnects = 2
    MaxErrors = 1
    Devices = {d1}
    Settings = {"I"}
    Kinds = {"good", "noBus", "notJson"}
    MaxConfigs = 2
    MaxMqttDrops = 1
    MaxEnds = 1
PROPERTIES EtaKeepsUp SilenceIsAnnounced QueuedIsSent ConfigsArrive
CHECK_DEADLOCK FALSE
