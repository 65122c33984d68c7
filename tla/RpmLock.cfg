CONSTANTS
    root1 = root1
    root2 = root2
    user = user
    TxnFile = TxnFile
    KeyFile = KeyFile
    Procs <- MCProcs
    Files <- MCFiles
    Access <- MCAccess
    Tty <- MCTty
    MaxNest = 3
    Starts = 4
SPECIFICATION MCSpec
INVARIANTS
    TypeOK
    WriterExcludes
    CallersBehave
    ChildrenHeard
    MacroScopes
PROPERTIES
    AllComplete
    ProgramsEnd
CHECK_DEADLOCK FALSE
