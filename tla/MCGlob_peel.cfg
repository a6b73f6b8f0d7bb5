SPECIFICATION Spec
CONSTANTS
    Upcase <- Upper
    CodePoints <- Characters
    Patterns <- SmallPatterns
    Cases <- BothCases
    FileNames <- SmallNames
    MaxDepth = 2
INVARIANT PatternIsGospel
CHECK_DEADLOCK FALSE
