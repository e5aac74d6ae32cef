\* A local cluster: images are loaded, and errors the code ignores happen.
SPECIFICATION Spec
CONSTANTS
    BuildOrder <- StreamingInBetween
    Found <- StreamingMissing
    Registry = FALSE
    Providers <- NoProvider
    Ingress = TRUE
    CertManager = FALSE
    Named = TRUE
    Switches = FALSE
    Ignored <- AnyError
    MaxVersion = 2
    MaxIssued = 2
INVARIANTS
    TypeOK
    OutdatedOnlyIfMissed
    CredentialsMatch
