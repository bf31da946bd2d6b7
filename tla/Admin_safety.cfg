SPECIFICATION Spec
CONSTANTS
    Usernames = {u1, u2}
    Licenses = {l1, l2}
    MaxCalls = 3
    MaxFaults = 1
    Names = {"R", "S"}
    Files <- Twice
    MaxRoutes = 2
    MaxUploads = 3
    MaxDbErrors = 1
    Fleet = {b1}
    Days = {0}
    Dates = {7}
    MaxRequests = 3
    MaxUnanswered = 1
    Runs = {r1, r2}
    MinDays = 1
    MinRows = 1
    Retries = 1
    MaxHistory = 1
    MaxBuilds = 1
SYMMETRY Symmetry
INVARIANTS AccountsInv CatalogInv FleetInv RetrainingInv
CHECK_DEADLOCK FALSE
