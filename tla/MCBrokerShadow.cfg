SPECIFICATION FairSpec
CONSTANTS
    Entries = {e1}
    Exits = {x1, x2}
    MaxFaults = 2
    NoProposal = NoProposal
    NoLedger = NoLedger
PROPERTIES
    ImplementsJournal
    ReconciledIsComplete
    ObservedChangeHalts
    Recovers
