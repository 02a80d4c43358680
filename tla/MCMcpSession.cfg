SPECIFICATION FairSpec
CONSTANTS
    Second = 2
    Lifetimes = {1, 2}
    Registrations = {"r1", "r2"}
    MaxTime = 3
    MaxAttempts = 1
    None = None
    Tasks = {"t1", "t2"}
    Owner = "owner"
    Tools = {"read"}
    Allowed = {"read"}
    MaxPages = 2
    MaxTools = 1
    MaxOps = 3
INVARIANTS
    LifetimeKept
PROPERTIES
    CredentialsSurvive
    CallsOnFreshDiscovery
    OperationsEnd
