\* Three turns of a voice or text call; an evaluation job that scores the call and a turn,
\* and an operator who labels the call; two restarts.
SPECIFICATION Spec
CONSTANTS
    t1 = t1
    t2 = t2
    t3 = t3
    evaluation = evaluation
    label = label
    Turns <- ThreeTurns
    Recorders <- JobAndLabel
    InJob = {evaluation}
    Names <- Scored
    MaxPending = 2
    MaxRuns = 2
    MaxRestarts = 2
CONSTRAINT OneHalfMoves
INVARIANTS
    SpansOnce
    ScoresAccounted
CHECK_DEADLOCK FALSE
