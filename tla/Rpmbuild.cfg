CONSTANTS
    Texts <- MCTexts
    MaxLines = 4
    Compatible = {"noarch", "x86_64"}
    Arch = "x86_64"
SPECIFICATION MCSpec
INVARIANTS
    LanguagesAgree
    SpecParsed
    FilesPackaged
    GeneratedDependenciesKept
    PackageDescribesItself
    BuildComplete
CHECK_DEADLOCK FALSE
