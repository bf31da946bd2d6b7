SPECIFICATION Spec
CONSTANTS
    Trips = {t1}
    Buses = {b1, b2}
    Drivers = {d1}
    Requests = {r1, r2, r3}
    NoBus = NoBus
    NoDriver = NoDriver
    NoReq = NoReq
    MaxSends = 2
    MaxCrashes = 1
SYMMETRY Symmetry
INVARIANTS LifecycleInv LogBackedByDatabase OneBusPerStart AcknowledgedIsLogged
PROPERTIES PromiseIsKept
