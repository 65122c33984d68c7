CONSTANT Packages <- MCPackages
SPECIFICATION MCSpec
INVARIANTS
    OwnedFilesStay
    UserConfigKept
    LeftoversGone
    UnpackingAtomic
    FileSound
PROPERTIES
    SalvageAfterCrash
    StoreSpec
