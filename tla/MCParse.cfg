SPECIFICATION Spec
CONSTANTS
    Pieces <- AllPieces
    Letters <- DriveLetters
    Dialects <- BothDialects
    MaxPieces = 5
INVARIANTS AcceptsNormalForms SegmentsAreIndependent SeparatorsAgree EveryNameCanBeWritten
\* A text is written up to its bound.
CHECK_DEADLOCK FALSE
