------------------------------- MODULE MCCallLog -------------------------------
EXTENDS CallLog, TLC

(* A voice worker, a worker of before segment ids, the scenario runner.      *)
AllClients == {[named |-> TRUE, voice |-> TRUE], [named |-> FALSE, voice |-> TRUE],
               [named |-> FALSE, voice |-> FALSE]}
(* Beside its turns a call has at most three of: the nudge, two reports, the *)
(* shutdown.                                                               *)
ThreeAsides ==
    nudges + Cardinality(stranded) + Cardinality(Of("AGENT_TURN_PLAYOUT")) <= 3
VoiceWorker == {[named |-> TRUE, voice |-> TRUE]}
=============================================================================
