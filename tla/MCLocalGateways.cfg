\* One session: the gateways, a port held by an earlier run, kills that fail.
SPECIFICATION Spec
CONSTANTS
    TestOIDC = FALSE
    VerifyAttempts = 1
    Faults <- KillFails
    StaleChoices <- IngestHeld
    ForeignChoices <- NoForeign
INVARIANTS
    HandleCoversWrapper
    OrderlyExitStopsWrappers
