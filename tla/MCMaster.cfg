SPECIFICATION FairSpec
CONSTANTS
    Window = 0
    Jobs = {"dispatch"}
    Slow = {"dispatch", "database", "reconciliation"}
    Faulty = {"execution"}
    Writes <- ReconcileWrites
CHECK_DEADLOCK FALSE
INVARIANTS
    LatchHalts
    LockCoversCallbacks
    NormalRestsOnEvidence
PROPERTIES
    NeverReplayed
    
    KillFileHonoured
