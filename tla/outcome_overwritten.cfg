SPECIFICATION Spec
CONSTANTS
    None = None
    Turns = {t1}
    Procs = {p1}
    Amounts = {a1}
    Calls <- OnlySip
    Says = {"plain", "opt_out", "dispute"}
    Replicated = FALSE
    Crashes = FALSE
PROPERTIES
    OutcomeFinal
CHECK_DEADLOCK FALSE
