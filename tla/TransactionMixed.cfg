CONSTANTS
    new = new
    old = old
    again = again
    gone = gone
    back = back
    NoElem = NoElem
    Order <- MixedOrder
    Kind <- MCKind
    DependsOn <- MCDependsOn
    Name <- MCName
    Reinstalled = {again}
    FlagSets <- PlainFlagSets
    Chroot = FALSE
SPECIFICATION MCSpec
INVARIANTS
    TypeOK
    OutcomesAgree
    OrderSound
PROPERTIES
    FailedIsLeftAlone
    OrderEnds
