------------------------------- MODULE Outbox -------------------------------
(***************************************************************************)
(* The post-call jobs of one or more finished calls, and the server loops   *)
(* that drain them (Outbox.ts, the outbox_jobs half of repos/scheduling.ts): *)
(* a job is claimed with a lease, worked on outside any transaction, and    *)
(* finished in one; a job whose server died is claimed again once its lease *)
(* is over, at the price of an attempt.                                     *)
(***************************************************************************)
EXTENDS Naturals, FiniteSets

CONSTANTS
    Jobs,         \* outbox_jobs rows
    Servers,      \* server processes; a restarted one is the same server with nothing in hand
    Poison,       \* jobs whose work kills the process that does it
    Retries,      \* retriesFor(jobType): 3, for a JUDGE 5
    Concurrency,  \* OUTBOX_CONCURRENCY
    Limit,        \* jobs claimed in one batch
    MaxLosses,    \* bound: how often a server is lost for another reason than a poison job
    Timely        \* no live server holds a job for as long as CLAIM_LEASE_MS

ASSUME RetriesAssumption == Retries \in Nat \ {0}
ASSUME BoundsAssumption == Concurrency \in Nat \ {0} /\ Limit \in Nat \ {0} /\ MaxLosses \in Nat
ASSUME PoisonAssumption == Poison \subseteq Jobs
ASSUME TimelyAssumption == Timely \in BOOLEAN

VARIABLES
    job,        \* the row: status, payload.retry_count, and whether its time has come
    work,       \* what a server's batch is doing about a job, and the count it claimed it with
    starts,     \* how often a job's work was begun
    processed,  \* OUTBOX_PROCESSED events of a job, with the scores written beside them
    losses

vars == <<job, work, starts, processed, losses>>

None == [at |-> "none", seen |-> 0]
InHand(s, j) == work[s][j].at # "none"
Working(s) == {j \in Jobs : work[s][j].at = "working"}

Init ==
    /\ job = [j \in Jobs |-> [status |-> "ABSENT", retry |-> 0, due |-> FALSE]]
    /\ work = [s \in Servers |-> [j \in Jobs |-> None]]
    /\ starts = [j \in Jobs |-> 0]
    /\ processed = [j \in Jobs |-> 0]
    /\ losses = 0

(* enqueuePostCall: once per call and job type, however often it is called. *)
Enqueue(j) ==
    /\ job[j].status = "ABSENT"
    /\ job' = [job EXCEPT ![j].status = "PENDING", ![j].due = TRUE]
    /\ UNCHANGED <<work, starts, processed, losses>>

(* available_at has come, or claimed_at is older than the lease.           *)
LeasedUnlessPending(j) == job[j].status # "PENDING"   \* mutant: any other status is reclaimed
LeasedNever(j) == FALSE   \* mutant: CLAIMED is read by nothing
Leased(j) == job[j].status = "CLAIMED"
HeldLive(j) == \E s \in Servers : InHand(s, j)
LeaseAlive(j) == Timely /\ HeldLive(j)

BackoffOver(j) ==
    /\ job[j].status = "PENDING" /\ ~job[j].due
    /\ job' = [job EXCEPT ![j].due = TRUE]
    /\ UNCHANGED <<work, starts, processed, losses>>

LeaseOver(j) ==
    /\ Leased(j) /\ ~job[j].due /\ ~LeaseAlive(j)
    /\ job' = [job EXCEPT ![j].due = TRUE]
    /\ UNCHANGED <<work, starts, processed, losses>>

(* claimDueJobs: one statement, rows another claim has locked are skipped;  *)
(* a batch is claimed only when the last one is through. A row taken over   *)
(* from a dead claim is charged an attempt (bumpRetryOnReclaim).            *)
ChargedForFree(j) == job[j].retry   \* mutant: a reclaim costs nothing
Charged(j) == job[j].retry + (IF job[j].status = "CLAIMED" THEN 1 ELSE 0)

(* claimed_at = now on every claim: the new lease has its whole length.     *)
ExpiredIfReclaimed(j) == job[j].status = "CLAIMED"   \* mutant: only the first claim is stamped
ExpiredAtClaim(j) == FALSE

Claim(s, batch) ==
    /\ \A j \in Jobs : ~InHand(s, j)
    /\ batch # {} /\ Cardinality(batch) <= Limit
    /\ \A j \in batch : job[j].due
    /\ job' = [j \in Jobs |-> IF j \in batch
                              THEN [status |-> "CLAIMED", retry |-> Charged(j),
                                    due |-> ExpiredAtClaim(j)]
                              ELSE job[j]]
    /\ work' = [work EXCEPT ![s] = [j \in Jobs |-> IF j \in batch
                                                   THEN [at |-> "queued", seen |-> Charged(j)]
                                                   ELSE @[j]]]
    /\ UNCHANGED <<starts, processed, losses>>

Spent(count) == count >= Retries

(* The statements of runOnce write the row by its id alone, whatever its    *)
(* status has become; the server is then done with the job.                 *)
Written(s, j, status, retry) ==
    /\ job' = [job EXCEPT ![j] = [status |-> status, retry |-> retry, due |-> FALSE]]
    /\ work' = [work EXCEPT ![s][j] = None]

(* The budget went on lost servers: given up before any work is done.       *)
GiveUp(s, j) ==
    /\ work[s][j].at = "queued" /\ Spent(work[s][j].seen)
    /\ Written(s, j, "FAILED", job[j].retry)
    /\ UNCHANGED <<starts, processed, losses>>

Begin(s, j) ==
    /\ work[s][j].at = "queued" /\ ~Spent(work[s][j].seen)
    /\ Cardinality(Working(s)) < Concurrency
    /\ work' = [work EXCEPT ![s][j].at = "working"]
    /\ starts' = [starts EXCEPT ![j] = @ + 1]
    /\ UNCHANGED <<job, processed, losses>>

(* processJobTx: the scores, DONE and OUTBOX_PROCESSED commit together.     *)
Finish(s, j) ==
    /\ j \in Working(s) \ Poison
    /\ Written(s, j, "DONE", job[j].retry)
    /\ processed' = [processed EXCEPT ![j] = @ + 1]
    /\ UNCHANGED <<starts, losses>>

(* The model call or the transaction fails. The failure is written in a     *)
(* statement of its own, with the count the batch was claimed with plus one. *)
Fail(s, j) ==
    /\ j \in Working(s) \ Poison
    /\ work' = [work EXCEPT ![s][j].at = "failed"]
    /\ UNCHANGED <<job, starts, processed, losses>>

Reschedule(s, j) ==
    /\ work[s][j].at = "failed"
    /\ LET retry == work[s][j].seen + 1
       IN  Written(s, j, IF Spent(retry) THEN "FAILED" ELSE "PENDING", retry)
    /\ UNCHANGED <<starts, processed, losses>>

(* The process dies, or a failure that cannot be written ends the tick:    *)
(* the whole batch is dropped, its rows stay CLAIMED.                      *)
Lose(s) == work' = [work EXCEPT ![s] = [j \in Jobs |-> None]]

Poisoned(s) ==
    /\ Working(s) \cap Poison # {}
    /\ Lose(s)
    /\ UNCHANGED <<job, starts, processed, losses>>

Lost(s) ==
    /\ losses < MaxLosses
    /\ \E j \in Jobs : InHand(s, j)
    /\ Lose(s)
    /\ losses' = losses + 1
    /\ UNCHANGED <<job, starts, processed>>

-----------------------------------------------------------------------------
JobStep(s, j) ==
    GiveUp(s, j) \/ Begin(s, j) \/ Finish(s, j) \/ Fail(s, j) \/ Reschedule(s, j)

Next ==
    \/ \E j \in Jobs : Enqueue(j) \/ BackoffOver(j) \/ LeaseOver(j)
    \/ \E s \in Servers, batch \in SUBSET Jobs : Claim(s, batch)
    \/ \E s \in Servers, j \in Jobs : JobStep(s, j)
    \/ \E s \in Servers : Poisoned(s) \/ Lost(s)

Spec == Init /\ [][Next]_vars

(* Time passes; every server keeps ticking and drains its batch; a poison   *)
(* job does kill.                                                          *)
Fairness ==
    /\ \A j \in Jobs : WF_vars(BackoffOver(j)) /\ WF_vars(LeaseOver(j))
    /\ \A s \in Servers :
        /\ WF_vars(\E batch \in SUBSET Jobs : Claim(s, batch))
        /\ \A j \in Jobs : WF_vars(JobStep(s, j))
        /\ WF_vars(Poisoned(s))

FairSpec == Spec /\ Fairness

-----------------------------------------------------------------------------
TypeOK ==
    /\ job \in [Jobs -> [status : {"ABSENT", "PENDING", "CLAIMED", "DONE", "FAILED"},
                         retry : Nat, due : BOOLEAN]]
    /\ work \in [Servers -> [Jobs -> [at : {"none", "queued", "working", "failed"}, seen : Nat]]]
    /\ starts \in [Jobs -> Nat]
    /\ processed \in [Jobs -> Nat]
    /\ losses \in Nat

(* The lease is a lock: a job in a live server's hands is in no other's, is *)
(* still CLAIMED, and its attempts are those it was claimed with, so that   *)
(* what that server will write is still true when it writes it.            *)
OneOwner ==
    \A s \in Servers, j \in Jobs : InHand(s, j) =>
        /\ job[j].status = "CLAIMED" /\ ~job[j].due
        /\ job[j].retry = work[s][j].seen
        /\ \A other \in Servers \ {s} : ~InHand(other, j)

(* A job's scores and its OUTBOX_PROCESSED event are written once, and then *)
(* it stays DONE: no failure, reclaim or second server undoes or redoes it. *)
DoneOnce == \A j \in Jobs : processed[j] = IF job[j].status = "DONE" THEN 1 ELSE 0

(* A job is worked on at most retriesFor times, so that one which kills its *)
(* server kills no more than that; and none is given up with budget left.   *)
AttemptsBounded ==
    \A j \in Jobs :
        /\ starts[j] <= Retries
        /\ job[j].status = "FAILED" => job[j].retry >= Retries

(* A charge for every attempt: what the bound above rests on.               *)
InProgress(j) == \E s \in Servers : work[s][j].at \in {"working", "failed"}
Abandoned(j) == job[j].status = "CLAIMED" /\ \A s \in Servers : ~InHand(s, j)
ChargedForEach ==
    \A j \in Jobs :
        /\ starts[j] <= job[j].retry + (IF InProgress(j) \/ Abandoned(j) \/ job[j].status = "DONE"
                                       THEN 1 ELSE 0)
        /\ InProgress(j) \/ job[j].status \in {"ABSENT", "PENDING"} => job[j].retry < Retries
DueIsOpen == \A j \in Jobs : job[j].due => job[j].status \in {"PENDING", "CLAIMED"}

(* The inductive invariant, of timely servers.                              *)
OutboxInv ==
    /\ TypeOK /\ OneOwner /\ DoneOnce /\ AttemptsBounded
    /\ ChargedForEach /\ DueIsOpen

(* The outbox implements the job ledger: claims, leases, losses, reclaims   *)
(* and failures that are tried again are none of its business, and every    *)
(* step that is leaves it as one of the ledger's own steps would.           *)
stageBar == [j \in Jobs |-> CASE job[j].status = "ABSENT" -> "absent"
                              [] job[j].status = "DONE"   -> "done"
                              [] job[j].status = "FAILED" -> "failed"
                              [] OTHER                    -> "open"]

Ledger == INSTANCE JobLedger WITH stage <- stageBar, tries <- starts, results <- processed

Implements == Ledger!Spec

(* Every enqueued job is settled, whatever servers were lost on the way.    *)
EverySettles ==
    \A j \in Jobs : job[j].status # "ABSENT" ~> job[j].status \in {"DONE", "FAILED"}
=============================================================================
