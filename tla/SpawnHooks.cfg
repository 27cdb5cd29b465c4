CONSTANTS
    ann = ann
    bob = bob
    nameA = nameA
    nameB = nameB
    Nobody = Nobody
    Users <- MCUsers
    Names <- MCNames
    NameOf <- OwnNames

SPECIFICATION FairSpec

INVARIANTS
    TypeOK
    EndpointServed
    LeakOnlyFromCleanup
    VolumeResolves

PROPERTIES
    ImplementsUserServer
    SpawnSettles
