\* Three commands over one table, with names that can be taken again.
SPECIFICATION Spec
CONSTANTS
    remover = remover
    maker = maker
    other = other
    tenantA = tenantA
    tenantB = tenantB
    api = api
    id1 = id1
    id2 = id2
    None = None
    Commands <- Three
    Offers <- SomeOffers
    Tenants <- TwoTenants
    Names <- OneName
    Ids <- TwoIds
    Recreate = TRUE
    LostReplies = TRUE
SYMMETRY Interchangeable
INVARIANTS
    TypeOK
    DeletedAsReported
    ToldSecretIsStored
PROPERTIES
    ContractHolds
