SPECIFICATION Spec
SYMMETRY MCSymmetry
CONSTANTS
    Env = "DEMO"
    p1 = p1
    p2 = p2
    t1 = t1
    t2 = t2
    Proposals = {p1, p2}
    Buys = {p1, p2}
    Cancellable = {}
    Reported = {}
    Queried = {}
    Tasks = {t1, t2}
    NoTask = NoTask
    Modes = {"AUTO"}
    Quantity = 1
INVARIANTS
    AdmissionSeesAllWrites
