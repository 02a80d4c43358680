SPECIFICATION Spec
CONSTANTS
    Env = "LIVE"
    p1 = p1
    p2 = p2
    t1 = t1
    t2 = t2
    Proposals = {p1}
    Buys = {p1}
    Cancellable = {}
    Reported = {p1}
    Queried = {p1}
    Tasks = {t1}
    NoTask = NoTask
    Modes = {"RESEARCH", "APPROVAL"}
    Quantity = 1
INVARIANTS
    AtMostOnce
    DenialProvesNoWrite
    RowsComeFromBroker
PROPERTIES
    ControlsGovernWrites
