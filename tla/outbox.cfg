\* Two servers, a job that kills its server beside one that does not, and two
\* further losses.
SPECIFICATION FairSpec
CONSTANTS
    plain = plain
    poison = poison
    Jobs <- TwoJobs
    Poison = {poison}
    Servers = {s1, s2}
    Retries = 3
    Concurrency = 1
    Limit = 2
    MaxLosses = 2
    Timely = TRUE
INVARIANTS
    OutboxInv
PROPERTIES
    Implements
    EverySettles
CHECK_DEADLOCK FALSE
