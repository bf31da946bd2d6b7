SPECIFICATION CrowdSpec
CONSTANTS
    Passengers = {w1}
    Scores = {10}
    Base = 80
    Reward = 2
    Penalty = 5
    Spread = 30
    WindowLen = 20
    Quorum = 5
    MaxTime = 1
    MaxReports = 1
    MaxCrashes = 1
    MaxFaults = 1
INVARIANTS
    ReportsAreAccepted
CHECK_DEADLOCK FALSE
