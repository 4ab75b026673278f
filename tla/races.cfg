\* Two turns of one call against every signal, two server lifetimes, kills and
\* failed commits: who owns the turn, and what the call settles on.
SPECIFICATION Spec
CONSTANTS
    None = None
    Turns = {t1, t2}
    Procs = {p1, p2}
    Amounts = {a1}
    Calls <- VoiceAndSimulated
    Says = {"plain", "hold", "opt_out", "wrong_number", "dispute"}
    Replicated = FALSE
    Crashes = TRUE
SYMMETRY Symmetry
INVARIANTS
    StateStableWhileDeciding
    OneTruthPerTurn
    BooksMatchOutcome
    Inv
PROPERTIES
    TurnOutcomeFinal
CHECK_DEADLOCK FALSE
