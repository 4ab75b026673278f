\* Two loops, one without a trunk, and one request, on the workflows of one loan and type.
CONSTANTS
    Actions = {a1, a2}
    CallIds = {k1, k2, k3}
    Workflows = {w1, w2}
    Kinds = {{w1, w2}}
    Servers = {s1, s2}
    Clients = {c1}
    Placing = {s1}
    Cap = 2
    Patience = 1
    MaxFaults = 1
    None = None
SPECIFICATION FairSpec
INVARIANTS
    SchedulingInv
    OneCallAtATime
    CapRespected
PROPERTIES
    NoCallAfterOptOut
    ActionsSettle
CHECK_DEADLOCK FALSE
