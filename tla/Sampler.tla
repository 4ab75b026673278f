------------------------------- MODULE Sampler -------------------------------
(****************************************************************************)
(* The resource sampler of the load harness (load-test/src/resources.ts):   *)
(* processes come, work and go; a tick now and then sees those alive and    *)
(* how much CPU each has used; a slower loop polls the containers; at the   *)
(* end the ticks become CPU-seconds and memory per role, a busiest window   *)
(* and a per-core budget.                                                   *)
(*                                                                          *)
(* Every process holds one unit of memory, so the memory of a role at a     *)
(* tick is how many of its processes the tick saw.  Fractions are kept as   *)
(* pairs <<cpu, wall>>.                                                     *)
(****************************************************************************)
EXTENDS Integers, Sequences, FiniteSets, FiniteSetsExt, Functions

CONSTANTS
    Pids,        \* process ids the system hands out
    Commands,    \* what may run: records [words, is], see Classify
    Watched,     \* the containers asked for
    PidReuse,    \* whether an id is handed out again
    MaxTicks, MaxCpu,   \* bounds: ticks that land, CPU a process uses
    Gaps,        \* clock units between two ticks
    Target,      \* length of the steady-state minute, in clock units
    None

VARIABLES
    os,          \* per pid, the process: [cmd, cpu, alive]
    pids,        \* role given to each pid, None while unnamed or unclassified
    series,      \* the ticks: [t, cpu], cpu for the pids classified and seen
    markIndex,   \* the tick the load starts from, or None
    up,          \* containers that run
    cgroup,      \* CPU each container has used
    polling,     \* a poll of the containers is between docker ps and docker stats
    rows,        \* containerStats: [first, last] per container sampled
    closing,     \* stop() was called: None, "quiet", or "warned" of no container samples
    report,      \* what stop() returned
    books        \* what each process really used: [base, seen], at the mark and at its last tick

svars == <<os, pids, series, markIndex, up, cgroup, polling, rows, closing, report, books>>

------------------------------------------------------------------------------
WorkerRoles == {"worker-main", "worker-inference", "worker-job", "worker-launcher"}
ServerRoles == {"server", "server-launcher"}
Roles == WorkerRoles \cup ServerRoles \cup {"harness", "harness-borrower"}

\* A command line is the set of words it is recognised by; the first rule whose
\* words it has names it.
Rules == <<
    <<{"ipc_inference"}, "worker-inference">>, <<{"ipc_job"}, "worker-job">>,
    <<{"borrower"}, "harness-borrower">>, <<{"harness"}, "harness">>,
    <<{"corepack", "start:worker"}, "worker-launcher">>,
    <<{"corepack", "start:server"}, "server-launcher">>, <<{"corepack"}, None>>,
    <<{"tsx", "agent"}, "worker-launcher">>, <<{"tsx", "main"}, "server-launcher">>, <<{"tsx"}, None>>,
    <<{"root", "agent"}, "worker-main">>, <<{"apps/voice-worker/dist", "agent"}, "worker-main">>,
    <<{"root", "main"}, "server">>, <<{"apps/server/dist", "main"}, "server">>,
    <<{}, None>> >>

Classify(words) ==
    Rules[Min({i \in DOMAIN Rules : Rules[i][1] \subseteq words})][2]

\* No rule takes a command of the run for another; some it does not know.
ASSUME SamplerAssumptions ==
    /\ IsFiniteSet(Pids) /\ Gaps \subseteq Nat /\ Target \in Nat \ {0}
    /\ None \notin Nat \cup Roles \cup Commands
    /\ \A c \in Commands : Classify(c.words) \in {c.is, None}

------------------------------------------------------------------------------
NoProcess == [cmd |-> None, cpu |-> 0, alive |-> FALSE]
Alive == {p \in Pids : os[p].alive}
Ticks == Len(series)

SInit ==
    /\ os \in [Pids -> {NoProcess} \cup {[cmd |-> c, cpu |-> 1, alive |-> TRUE] : c \in Commands}]
    /\ pids = [p \in Pids |-> None]
    /\ series = <<>>
    /\ markIndex = None
    /\ up \in SUBSET Watched
    /\ (Alive # {} => up = {})
    /\ cgroup = [c \in Watched |-> 0]
    /\ polling = FALSE
    /\ rows = <<>>
    /\ closing = None
    /\ report = None
    /\ books = [p \in Pids |-> [base |-> 0, seen |-> 0]]

Spawn(p, c) ==
    /\ ~os[p].alive /\ (os[p].cmd = None \/ PidReuse)
    /\ up = {}
    /\ os' = [os EXCEPT ![p] = [cmd |-> c, cpu |-> 0, alive |-> TRUE]]
    /\ UNCHANGED <<pids, series, markIndex, up, cgroup, polling, rows, closing, report, books>>

Work(p) ==
    /\ os[p].alive /\ os[p].cpu < MaxCpu
    /\ os' = [os EXCEPT ![p].cpu = @ + 1]
    /\ UNCHANGED <<pids, series, markIndex, up, cgroup, polling, rows, closing, report, books>>

Exit(p) ==
    /\ os[p].alive
    /\ os' = [os EXCEPT ![p].alive = FALSE]
    /\ UNCHANGED <<pids, series, markIndex, up, cgroup, polling, rows, closing, report, books>>

ContainerWorks(c) ==
    /\ c \in up /\ cgroup[c] < MaxCpu
    /\ cgroup' = [cgroup EXCEPT ![c] = @ + 1]
    /\ UNCHANGED <<os, pids, series, markIndex, up, polling, rows, closing, report, books>>

\* ingest: a pid is named the first time it is seen, and keeps its role.
Named(p) == IF pids[p] # None THEN pids[p] ELSE Classify(os[p].cmd.words)

Ingest(gap) ==
    /\ report = None /\ Ticks < MaxTicks
    /\ pids' = [p \in Pids |-> IF p \in Alive THEN Named(p) ELSE pids[p]]
    /\ LET seen == {p \in Alive : pids'[p] # None}
       IN  /\ series' = Append(series, [t |-> IF Ticks = 0 THEN 0 ELSE series[Ticks].t + gap,
                                        cpu |-> [p \in seen |-> os[p].cpu]])
           /\ books' = [p \in Pids |->
                IF p \notin seen THEN books[p]
                ELSE [base |-> IF Ticks = 0 THEN os[p].cpu ELSE books[p].base, seen |-> os[p].cpu]]
    /\ UNCHANGED <<os, markIndex, up, cgroup, polling, rows, closing, report>>

\* mark: the load starts at the last tick that landed.
Mark ==
    /\ markIndex' = IF Ticks = 0 THEN 1 ELSE Ticks
    /\ books' = [p \in Pids |-> [base |-> books[p].seen, seen |-> books[p].seen]]
    /\ UNCHANGED <<os, pids, series, up, cgroup, polling, rows, closing, report>>

------------------------------------------------------------------------------
(* Containers: docker ps, then docker stats over every container asked for, *)
(* which fails when one of them does not exist.                             *)

PollContainers ==
    /\ closing = None /\ ~polling /\ Watched # {}
    /\ up # {}
    /\ polling' = TRUE
    /\ UNCHANGED <<os, pids, series, markIndex, up, cgroup, rows, closing, report, books>>

Row(c, usec) ==
    IF c \in DOMAIN rows
    THEN [first |-> IF rows[c].first = None THEN usec ELSE rows[c].first,
          last |-> IF usec = None THEN rows[c].last ELSE usec]
    ELSE [first |-> usec, last |-> usec]

PollStats(readable) ==
    /\ polling /\ report = None
    /\ polling' = FALSE
    /\ rows' = IF up # Watched THEN rows
               ELSE [c \in Watched |-> Row(c, IF c \in readable THEN cgroup[c] ELSE None)]
    /\ UNCHANGED <<os, pids, series, markIndex, up, cgroup, closing, report, books>>

------------------------------------------------------------------------------
(* What stop() makes of it.                                                 *)

\* cumulativeCpuByPid: what p has spent in the run by tick k, held once it is gone.
SeenBy(p, k) == {i \in 1..k : p \in DOMAIN series[i].cpu}
Baseline(p) == IF p \in DOMAIN series[1].cpu THEN series[1].cpu[p] ELSE 0
SpentAtTick(p, k) ==   \* mutant of Spent: a process that is gone has spent nothing
    IF p \in DOMAIN series[k].cpu THEN Max({0, series[k].cpu[p] - Baseline(p)}) ELSE 0
Spent(p, k) ==
    IF SeenBy(p, k) = {} THEN 0
    ELSE Max({0, series[Max(SeenBy(p, k))].cpu[p] - Baseline(p)})

CpuBetween(i, j, subset) ==
    SumFunction([p \in {q \in Pids : pids[q] \in subset} |-> Max({0, Spent(p, j) - Spent(p, i)})])

\* busiestCpuWindow: for each start the first tick Target later, the busiest of these.
Busier(w, v) == w.cpu * v.wall > v.cpu * w.wall
Window(i, j, subset) ==
    [cpu |-> CpuBetween(i, j, subset), wall |-> series[j].t - series[i].t, full |-> FALSE]
Windows(subset, from) ==
    LET reach(i) == {j \in i..Ticks : series[j].t - series[i].t >= Target}
    IN  {Window(i, Min(reach(i)), subset) : i \in {k \in from..(Ticks - 1) : reach(k) # {}}}

BusiestCpuWindow(subset, from) ==
    LET found == Windows(subset, from)
    IN  IF Ticks = 0 THEN [cpu |-> 0, wall |-> 0, full |-> TRUE]
        ELSE IF found = {} THEN [Window(from, Ticks, subset) EXCEPT !.full = TRUE]
        ELSE CHOOSE w \in found : \A v \in found : ~Busier(v, w)

Tree(subset, k) == Cardinality({p \in DOMAIN series[k].cpu : pids[p] \in subset})
Memory(subset) ==
    [peak |-> IF Ticks = 0 THEN 0 ELSE Max({Tree(subset, k) : k \in 1..Ticks}),
     idle |-> IF Ticks = 0 THEN 0 ELSE Tree(subset, 1)]

From == IF markIndex = None THEN 1 ELSE markIndex

MakeReport(warned) ==
    [samples |-> Ticks,
     cpu |-> [r \in Roles |-> IF Ticks = 0 THEN 0 ELSE CpuBetween(From, Ticks, {r})],
     wall |-> IF Ticks = 0 THEN 0 ELSE series[Ticks].t - series[From].t,
     memory |-> [s \in {WorkerRoles, ServerRoles} |-> Memory(s)],
     steady |-> [s \in {WorkerRoles, ServerRoles} |-> BusiestCpuWindow(s, From)],
     containers |-> rows,
     notes |-> (IF warned THEN {"no container samples"} ELSE {})
               \cup (IF Ticks = 0 THEN {"no samples"} ELSE {})]

\* perCoreBudget: the host's roles, or the containers when the host found nothing.
ContainerCpu(names) ==
    IF \E c \in names : rows[c].first = None \/ rows[c].last = None THEN None
    ELSE SumFunction([c \in names |-> rows[c].last - rows[c].first])

PerCoreBudget(rep, subset, names) ==
    LET cpu == SumFunction([r \in subset |-> rep.cpu[r]])
        steady == rep.steady[subset]
        named == names \cap DOMAIN rep.containers
        ccpu == ContainerCpu(named)
    IN  IF cpu <= 0 /\ named # {}
        THEN [basis |-> named, cpu |-> ccpu,
              cores |-> IF ccpu = None \/ rep.wall <= 0 THEN None ELSE <<ccpu, rep.wall>>]
        ELSE [basis |-> {}, cpu |-> IF cpu > 0 THEN cpu ELSE None,
              cores |-> IF rep.samples = 0 \/ steady.wall <= 0 \/ steady.cpu <= 0 THEN None
                        ELSE <<steady.cpu, steady.wall>>]

\* validateReport: names in the basis are joined by "+" and split at ",", so two
\* are read as one that has no row.
ReadBack(basis) == IF Cardinality(basis) > 1 THEN {"joined"} ELSE basis
ValidateReport(rep, budget) ==
    (IF rep.samples = 0 /\ "no samples" \notin rep.notes THEN {"unmeasured"} ELSE {})
    \cup {"no row" : c \in ReadBack(budget.basis) \ DOMAIN rep.containers}

\* stop: note what is missing, wait for the last tick, then report.
StopSampler ==
    /\ closing = None
    /\ closing' = IF Watched # {} /\ rows = <<>> THEN "warned" ELSE "quiet"
    /\ UNCHANGED <<os, pids, series, markIndex, up, cgroup, polling, rows, report, books>>

WriteReport ==
    /\ closing # None /\ report = None
    /\ report' = MakeReport(closing = "warned")
    /\ UNCHANGED <<os, pids, series, markIndex, up, cgroup, polling, rows, closing, books>>

Measured ==
    \/ \E p \in Pids, c \in Commands : Spawn(p, c)
    \/ \E p \in Pids : Work(p) \/ Exit(p)
    \/ \E c \in Watched : ContainerWorks(c)
    \/ \E gap \in Gaps : Ingest(gap)
    \/ PollContainers
    \/ \E readable \in SUBSET up : PollStats(readable)

------------------------------------------------------------------------------
\* What a role is charged is what its processes used between the load mark and
\* the last tick that saw each of them: a process that is gone keeps what it
\* spent, and none is charged to another role.
RolesCharged ==
    \A r \in Roles :
        report.cpu[r] = SumFunction([p \in {q \in Pids : os[q].cmd # None /\ os[q].cmd.is = r} |->
                                        books[p].seen - books[p].base])

\* The steady-state window lies within the load: it is as long as asked, or it is
\* the whole load and says so, and it holds no CPU the load did not spend.
WindowWithinLoad ==
    \A s \in {WorkerRoles, ServerRoles} :
        LET w == report.steady[s]
            load == SumFunction([r \in s |-> report.cpu[r]])
        IN  /\ w.cpu <= load /\ w.wall <= report.wall
            /\ IF w.full THEN w.cpu = load ELSE w.wall >= Target

\* The CPU and the window of a report are those of the load.
CpuAttributed == report # None => RolesCharged /\ WindowWithinLoad
==============================================================================
