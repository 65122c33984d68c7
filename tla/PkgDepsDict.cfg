CONSTANTS
    Texts <- MCTexts
    MaxLines = 4
    Compatible = {"noarch", "x86_64"}
    Arch = "x86_64"
SPECIFICATION DepsSpec
INVARIANT FileDepsInPackage
CHECK_DEADLOCK FALSE
