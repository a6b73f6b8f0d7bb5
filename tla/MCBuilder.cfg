SPECIFICATION Spec
CONSTANTS
    Upcase <- Upper
    Drives <- SomeDrives
    Host = "windows"
    Paths <- SomePaths
    Bases <- SomeBases
    OptionSets <- SomeOptions
    Patterns <- SomePatterns
    MaxRoots = 2
    MaxPatterns = 2
INVARIANTS TypeOK AcceptsExactly OneRootPerDirectory BindsAsWritten PeelingSpellsThePattern
\* build() returns and the builder is consumed.
CHECK_DEADLOCK FALSE
