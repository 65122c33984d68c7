CONSTANTS
    Packages <- MCPackages
    Name <- MCName
    Ver <- MCVer
    Universes <- MCUniverses
    MaxRequests = 3
SPECIFICATION UrlSpec
INVARIANT OnlyTemporaryRemoved
CHECK_DEADLOCK FALSE
