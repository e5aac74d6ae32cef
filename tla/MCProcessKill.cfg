\* Two calls, under the scheduling of their goroutines and timers.
SPECIFICATION FairSpec
CONSTANTS
    worker = worker
    killProcess = killProcess
    Killers <- TwoCalls
    Bounded <- Workers
    MaxKillRetries = 3
    Cancellable = TRUE
    PidReuse = TRUE
INVARIANTS
    TypeOK
    KillReportSound
    GivesUpOnlyAfterKill
    ForceNeedsReason
PROPERTIES
    ContractHolds
    EveryCallReturns
    ProcessEndsAtLast
