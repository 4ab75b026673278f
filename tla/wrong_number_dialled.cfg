CONSTANTS
    Actions = {a1}
    CallIds = {k1, k2}
    Workflows = {w1, w2}
    Kinds = {{w1}, {w2}}
    Servers = {s1}
    Clients = {c1}
    Placing = {s1}
    Cap = 2
    Patience = 1
    MaxFaults = 0
    None = None
SPECIFICATION Spec
PROPERTIES
    NoCallToBlockedNumber
CHECK_DEADLOCK FALSE
