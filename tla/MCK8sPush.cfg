\* A registry, and a second cluster in the kubeconfig.
SPECIFICATION Spec
CONSTANTS
    BuildOrder <- OneImage
    Found <- AllFound
    Registry = TRUE
    Providers <- AnyProvider
    Ingress = FALSE
    CertManager = TRUE
    Named = TRUE
    Switches = TRUE
    Ignored <- NoError
    MaxVersion = 2
    MaxIssued = 2
INVARIANTS
    RebuildCatchesUp
    StrayOnlyAfterSwitch
