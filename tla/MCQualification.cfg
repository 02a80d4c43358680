SPECIFICATION Spec
CONSTANTS
    Orders = {o1, o2}
    Recorders = {r1, r2}
    Deviating = {1}
    Days = {0, 1}
    Holidays = {}
    Required = 2
    ScanLimit = 4
    MaxSessions = 2
    MaxParallel = 3
    Accounts = {"a", "b"}
    Catalogs = {"h", "k"}
    None = None
INVARIANTS
    PassedIsProven
    RaceIsCaught
SYMMETRY Symmetry
CHECK_DEADLOCK FALSE
