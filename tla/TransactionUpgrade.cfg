CONSTANTS
    new = new
    old = old
    again = again
    gone = gone
    back = back
    NoElem = NoElem
    Order <- UpgradeOrder
    Kind <- MCKind
    DependsOn <- MCDependsOn
    Name <- MCName
    Reinstalled = {}
    FlagSets <- AllFlagSets
    Chroot = TRUE
SPECIFICATION RunSpec
INVARIANTS
    UpgradeKeepsAVersion
PROPERTIES
    ChangesUnderLocks
    ScriptletOrder
    Termination
