SPECIFICATION Spec
CONSTANTS
    Upcase <- Upper
    CodePoints <- Characters
    Patterns <- SmallPatterns
    Cases <- BothCases
    FileNames <- SmallNames
    MaxDepth = 2
INVARIANTS MatcherIsTheMeaning NoMatchIsPruned ViableIsTight PeelKeepsMatches
CHECK_DEADLOCK FALSE
