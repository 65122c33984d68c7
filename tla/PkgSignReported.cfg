CONSTANTS
    Keys <- SigKeys
    Packages <- SigPackages
    SignFlags <- SigFlags
    VSFlags <- SigDisabled
    MaxOps = 2
SPECIFICATION SignSpec
INVARIANT SigningReported
CHECK_DEADLOCK FALSE
