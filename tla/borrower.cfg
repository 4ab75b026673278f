CONSTANTS
    Lines = 2
    Hangover = 2
    Grace = 1
    MaxSkew = 1
    Endpointing = 1
    Splits = FALSE
    MaxPause = 1
    MaxReportDelay = 1
    MaxTime = 7
    MaxUtterances = 2
    MaxFinals = 1
    Nil = Nil
SPECIFICATION BSpec
INVARIANTS
    LinesAccounted
    TruthIsOwn
    JoinsOwnTurn
CHECK_DEADLOCK FALSE
