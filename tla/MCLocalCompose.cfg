\* One session: the compose stack, the database up before, failing commands.
SPECIFICATION Spec
CONSTANTS
    TestOIDC = TRUE
    VerifyAttempts = 2
    Faults <- DockerOrLsof
    StaleChoices <- NoStale
    ForeignChoices <- DatabaseUp
INVARIANTS
    TypeOK
    ComposeRemembered
    OrderlyExitStopsCompose
    HandlerExitFreesPorts
    PanicOnlyAfterDeadline
PROPERTIES
    ForeignStackKept
