SPECIFICATION Spec
CONSTANTS
    Trips = {t1}
    Buses = {b1}
    Drivers = {d1}
    Requests = {r1, r2}
    NoBus = NoBus
    NoDriver = NoDriver
    NoReq = NoReq
    MaxSends = 1
    MaxCrashes = 0
INVARIANT ArrivedWasStarted
