----------------------------- MODULE MCTelemetry -----------------------------
(***************************************************************************)
(* A small instance of Telemetry for TLC; its run also evaluates what        *)
(* MCMeasures and MCRules state of the rules a call is led and measured by. *)
(***************************************************************************)
EXTENDS Telemetry, MCRules

CONSTANTS t1, t2, t3, evaluation, label

ThreeTurns == {t1, t2, t3}
JobAndLabel == {evaluation, label}
Scored == [r \in JobAndLabel |-> IF r = evaluation THEN <<"funnel", "latency">> ELSE <<"label">>]

(* Spans and scores share nothing but the memory a restart empties, and each *)
(* property reads one of them: beside one half the other need not move.     *)
SpansAtRest == stage = [t \in Turns |-> "new"] /\ reported = {} /\ ~ended
ScoresAtRest == \A r \in Recorders : recorder[r] = Idle
OneHalfMoves == SpansAtRest \/ ScoresAtRest
==============================================================================
