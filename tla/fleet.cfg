\* Two calls for one slot, a sweeper, one job lost, a turn under way; another server's
\* sweeper is among the ways a call is closed.
SPECIFICATION FleetFairSpec
CONSTANTS
    Calls = {c1, c2}
    Servers = {s1}
    MaxJobs = 1
    Staleness = 1
    Unconfirmed = 3
    Limit = 2
    MaxCrashes = 1
    MaxClaims = 1
    Prompt = TRUE
INVARIANTS
    CeilingHeld
PROPERTIES
    ServedCallKept
    ClosedOnce
    DeadCallSwept
CHECK_DEADLOCK FALSE
