CONSTANTS
    Tries = 3
    Modes <- AllModes

SPECIFICATION Spec

INVARIANTS
    TypeOK
    AdvertisesReachable

PROPERTY
    BringupEnds
