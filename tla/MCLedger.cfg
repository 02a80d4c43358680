CONSTANTS
    Keys = {p1, p2, p3, c1}
    CancelKeys = {c1}
    Instruments = {"i1", "i2"}
    Expiration <- MCExpiration
    InitialCash = 36
    DayLength = 2
    MaxQuoteAge = 1
    Terms <- MCTerms
    Feed <- MCFeed
    Settlements = {0, 24}
    Amounts = {12}
    MaxTime = 2
    MaxDeposits = 12
SPECIFICATION LedgerSpec
SYMMETRY Symmetry
INVARIANTS
    Solvent
    BooksBalance
    
