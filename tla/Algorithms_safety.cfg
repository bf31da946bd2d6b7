SPECIFICATION Spec
CONSTANTS
    Pairs <- TwoStops
    Distances = {0, 70}
    Apart = 35
    Speeds = {10, 50}
    Requests = {h1}
    MaxMoment = 1
    Models <- Forecasters
    Raises = Raises
    Absent = Absent
    Corrupt = Corrupt
    Unasked = Unasked
    Default = "xgboost"
    Weather = 200
    CacheSize = 1
    MaxTrainings = 2
    MaxAsked = 3
    MaxReboots = 1
    Senders = {b1, b2}
    Contents = {p, q}
    Intervals = {0, 1}
    MaxSkew = 1
    MaxAge = 1
    Remembers = 1
    MaxClock = 2
    MaxArrivals = 3
    MaxLives = 2
    Width = 2
    MaxLine = 4
    Journeys = {j1, j2}
    StopIds = {s1, s2}
    Areas = {{p, q}, {q}}
    Ttl = 1
    CleanupEvery = 2
    Never = Never
    MaxHour = 2
    MaxReadings = 3
    MaxAdded = 2
    w1 = w1
    w2 = w2
    Passengers = {w1, w2}
    Scores = {10, 90}
    Base = 80
    Reward = 30
    Penalty = 80
    Spread = 30
    WindowLen = 0
    Quorum = 2
    MaxTime = 1
    MaxReports = 3
    MaxCrashes = 1
    MaxFaults = 1
SYMMETRY Symmetry
INVARIANTS
    PredictionInv ValidatorInv GeometryInv DwellInv CrowdInv BlendWithinReports
CHECK_DEADLOCK FALSE
