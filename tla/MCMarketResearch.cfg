SPECIFICATION FairSpec
CONSTANTS
    Watch <- MCWatch
    OptionStreams = {"option"}
    QuotesOf <- MCQuotes
    MaxQuoteAge = 1
    MaxBaselineAge = 1
    MaxRecovery = 4
    MaxTime = 2
    MaxFaults = 2
    NoObs = NoObs
    Underlying = "equity"
    MaxRecords = 4
    StaleAfter = 1
    Lookback = 2
    PolicyAge = 1
    SkepticRequired = TRUE
INVARIANTS
    NoEventLost
    ChangesReported
    CursorProven
PROPERTIES
    EventsResearched
