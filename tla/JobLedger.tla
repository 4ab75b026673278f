------------------------------ MODULE JobLedger ------------------------------
(***************************************************************************)
(* What the outbox promises of a post-call job, with no server, lease or    *)
(* batch in sight: a job that was enqueued is tried a bounded number of     *)
(* times, its results are written by one of those tries and never again,    *)
(* and a job that was settled stays as it is. Outbox implements this.       *)
(***************************************************************************)
EXTENDS Naturals

CONSTANTS Jobs, Retries

VARIABLES
    stage,    \* of each job: absent, open, done or failed
    tries,    \* how often its work was begun
    results   \* how often its results were written

ledger == <<stage, tries, results>>

Init ==
    /\ stage = [j \in Jobs |-> "absent"]
    /\ tries = [j \in Jobs |-> 0]
    /\ results = [j \in Jobs |-> 0]

Enqueue(j) ==
    /\ stage[j] = "absent"
    /\ stage' = [stage EXCEPT ![j] = "open"]
    /\ UNCHANGED <<tries, results>>

Try(j) ==
    /\ stage[j] = "open" /\ tries[j] < Retries
    /\ tries' = [tries EXCEPT ![j] = @ + 1]
    /\ UNCHANGED <<stage, results>>

Succeed(j) ==
    /\ stage[j] = "open" /\ tries[j] > 0
    /\ stage' = [stage EXCEPT ![j] = "done"]
    /\ results' = [results EXCEPT ![j] = 1]
    /\ UNCHANGED tries

(* A try that was paid for and lost its server before it began is a try     *)
(* less: a job may be given up with fewer tries than Retries.               *)
GiveUp(j) ==
    /\ stage[j] = "open"
    /\ stage' = [stage EXCEPT ![j] = "failed"]
    /\ UNCHANGED <<tries, results>>

Next == \E j \in Jobs : Enqueue(j) \/ Try(j) \/ Succeed(j) \/ GiveUp(j)

Spec == Init /\ [][Next]_ledger
==============================================================================
