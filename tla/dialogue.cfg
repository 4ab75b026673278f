\* Four turns of every kind of call on one server: the whole conversation, from
\* the greeting to a read-back, a refused recording and the second attempt, or to
\* words that override everything, before or after a signal has ended it.
SPECIFICATION Spec
CONSTANTS
    None = None
    Turns = {t1, t2, t3, t4}
    Procs = {p1}
    Amounts = {a1, a2}
    Calls <- AllCalls
    Says = {"plain", "opt_out"}
    Replicated = FALSE
    Crashes = FALSE
SYMMETRY Symmetry
INVARIANTS
    RowMatchesLedger
    ProtectedStatesUnlocked
PROPERTIES
    ImplementsPath
    PromiseWasHeard
CHECK_DEADLOCK FALSE
