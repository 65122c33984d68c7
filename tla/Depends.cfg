CONSTANTS
    Packages <- MCPackages
    Name <- MCName
    Ver <- MCVer
    Universes <- MCUniverses
    MaxRequests = 3
SPECIFICATION MCSpec
INVARIANT CheckSound
INVARIANT RequestsAgree
CHECK_DEADLOCK FALSE
