SPECIFICATION DiligentSpec
CONSTANTS
    MaxTurns = 1
    MaxProbes = 1
    Answers <- AllAnswers
    MaxSpeaks = 2
PROPERTIES
    ClosedCallEnds
CHECK_DEADLOCK FALSE
