\* Two turns, one probe and two times the borrower speaks: barge-ins, stalls, a
\* closing turn or strike, and a session that closes at any point.
SPECIFICATION FairSpec
CONSTANTS
    MaxTurns = 2
    MaxProbes = 1
    Answers <- MCAnswers
    MaxSpeaks = 2
INVARIANTS
    HeardIsTrue
    SegmentsAccounted
    DeadlineAlways
PROPERTIES
    EndingEnds
CHECK_DEADLOCK FALSE
