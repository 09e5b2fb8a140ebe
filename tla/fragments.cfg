SPECIFICATION Spec
INVARIANTS PiecesTile PiecesAreText LinesStayWhole FailsOnlyOnWideText
CONSTANTS
    MaxBytes = 6
    MaxLimit = 5
    Candidates <- ShortTexts
    Configs <- SmallConfigs
CHECK_DEADLOCK FALSE
