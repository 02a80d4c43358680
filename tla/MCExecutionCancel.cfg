SPECIFICATION Spec
CONSTANTS
    Env = "LIVE"
    p1 = p1
    p2 = p2
    t1 = t1
    t2 = t2
    Proposals = {p1}
    Buys = {}
    Cancellable = {p1}
    Reported = {}
    Queried = {p1}
    Tasks = {t1}
    NoTask = NoTask
    Modes = {"AUTO"}
    Quantity = 2
PROPERTIES
    LatchBlocksWrites
