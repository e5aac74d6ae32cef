\* Expected to be violated: see the finding on CtrlCStopsGateways.
SPECIFICATION Spec
CONSTANTS
    TestOIDC = FALSE
    VerifyAttempts = 1
    Faults <- NoFault
    StaleChoices <- NoStale
    ForeignChoices <- NoForeign
INVARIANTS
    CtrlCStopsGateways
