SPECIFICATION FairSpec
CONSTANTS
    Trips = {t1}
    Buses = {b1, b2}
    Drivers = {d1}
    Requests = {r1, r2}
    NoBus = NoBus
    NoDriver = NoDriver
    NoReq = NoReq
    MaxSends = 1
    MaxCrashes = 1
PROPERTIES RequestsSettle
