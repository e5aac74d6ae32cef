\* Runs, cut short and repeated, with errors and deletions, on the six CRDs.
SPECIFICATION Spec
CONSTANTS
    requests = requests
    certificates = certificates
    challenges = challenges
    clusterissuers = clusterissuers
    issuers = issuers
    orders = orders
    CRDs <- TheCRDs
    Certificates <- Watched
    Faults <- AnyFault
SYMMETRY Interchangeable
INVARIANTS
    TypeOK
    CompleteOrMigrating
