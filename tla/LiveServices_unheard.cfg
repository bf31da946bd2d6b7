SPECIFICATION FeedSpec
CONSTANTS
    Clients = {c1}
    MaxPositions = 1
    MaxAlerts = 1
    MaxConnects = 1
    MaxErrors = 0
PROPERTIES AlertsHeard
CHECK_DEADLOCK FALSE
