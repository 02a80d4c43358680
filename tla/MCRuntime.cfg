CONSTANTS
    Keys <- MCKeys
    Instruments = {"i1", "i2"}
    Expiration <- MCExpiration
    InitialCash = 72
    DayLength = 4
    MaxQuoteAge = 1
    Candidates <- MCCandidates
    Fixture <- MCFixture
    Limits <- MCLimits
    ExitPolicy <- MCExitPolicy
    MaxFaults = 2
SPECIFICATION FairSpec
INVARIANTS JournalNeverAhead HealthyJournalIsComplete RestartIsAccepted RiskLimitsHold OutcomesAreFinal
           OutcomesTellProfit
 
