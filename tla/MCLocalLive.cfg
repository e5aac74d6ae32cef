\* Termination, under the scheduling of the program's own goroutines.
SPECIFICATION FairSpec
CONSTANTS
    TestOIDC = FALSE
    VerifyAttempts = 1
    Faults <- NoFault
    StaleChoices <- NoStale
    ForeignChoices <- NoForeign
PROPERTIES
    InterruptExits
    SetupSettles
