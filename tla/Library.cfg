CONSTANTS
    Keys <- SigKeys
    Packages <- SigPackages
    SignFlags <- SigFlags
    VSFlags <- SigDisabled
    MaxOps = 2
SPECIFICATION MCSpec
INVARIANTS
    DatabaseConsistent
    RebuildKeepsPackages
    HeaderKeepsValues
    SigningSound
    KeysKept
    FileTriggersSee
PROPERTIES
    RecordKeepsPackage
CHECK_DEADLOCK FALSE
