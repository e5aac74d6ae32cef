\* Two sessions, on every kind of server, with every set of databases.
SPECIFICATION FairSpec
CONSTANTS
    first = first
    second = second
    Sessions <- TwoSessions
    MaxWait = 2
    MaxRetries = 4
    Timeout = 5
    Faults <- AnyFault
INVARIANTS
    TypeOK
    CheckedIsUsable
    RerunGetsPastCreation
    SomeoneMigrates
    MigratedAsConfigured
PROPERTIES
    SessionsEnd
