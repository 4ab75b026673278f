------------------------------ MODULE MCLoadRun ------------------------------
(****************************************************************************)
(* Finite instances of LoadRun.  The sampler and the calls meet only at the *)
(* mark, the stop and the verdict, so two kinds of run are explored: one    *)
(* that places no call while processes and containers come, work and go, and*)
(* one that places calls on a host where only the sampler ticks.  A served  *)
(* voice call cut short comes back with one clean line; an amount is lost on*)
(* a call of one line that lost no other words.                             *)
(****************************************************************************)
EXTENDS LoadRun

ServerMain == [words |-> {"root", "main"}, is |-> "server"]
JobProcess == [words |-> {"ipc_job", "root"}, is |-> "worker-job"]
MCCommands == {ServerMain, JobProcess}

QuietHost == os = [p \in Pids |-> NoProcess] /\ up = {}

MCInit == Init /\ (IF plan = 0 THEN jobs.pending = 0 ELSE QuietHost)

CutShort == [lines |-> 1, lost |-> 0, amount |-> FALSE]
AmountLost == [CutShort EXCEPT !.amount = TRUE]

Slice ==
    plan > 0 =>
        /\ UNCHANGED <<os, cgroup, rows, polling>> /\ Len(series') <= 1
        /\ \A c \in Calls : turn[c] < Turns => heard'[c] \in {None, CutShort}
        /\ \A c \in Calls : heard'[c] \in {None, AmountLost} \/ ~heard'[c].amount

MCNext == Next /\ Slice

MCSpec == MCInit /\ [][MCNext]_vars /\ Fairness
==============================================================================
