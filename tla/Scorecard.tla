----------------------------- MODULE Scorecard -----------------------------
(***************************************************************************)
(* What is written of a call when it is over: the facts of its ledger, the   *)
(* judge's verdict, the scores both become, and what a window of calls says  *)
(* (evaluation.ts, judge.ts, scores.ts, the EVALUATION and JUDGE jobs,       *)
(* Quality.ts). The verdict on the read-backs is CallLog's. A ledger is the  *)
(* sequence of its events; "says" holds what of its payload a rule reads.    *)
(* What may be absent is a set with at most one member.                     *)
(***************************************************************************)
EXTENDS Integers, FiniteSets, Sequences, SequencesExt, FiniteSetsExt

Compliance == {"compliance.mini_miranda_first", "compliance.no_protected_before_rpc",
               "compliance.no_promise_without_readback"}
JUDGE_DIMENSIONS == {"task_completion", "compliance", "factual_accuracy",
                     "empathy_professionalism", "escalation_judgment"}
SCORE_NAME_BY_DIMENSION ==
    [d \in JUDGE_DIMENSIONS |->
        CASE d = "task_completion" -> "judge.task_completion"
          [] d = "compliance" -> "judge.compliance"
          [] d = "factual_accuracy" -> "judge.factual_accuracy"
          [] d = "empathy_professionalism" -> "judge.empathy_professionalism"
          [] d = "escalation_judgment" -> "judge.escalation_judgment"]

BooleanNames ==
    Compliance \cup {SCORE_NAME_BY_DIMENSION[d] : d \in JUDGE_DIMENSIONS} \cup
    {"call.right_party_verified", "call.voicemail", "judge.overall_pass", "judge.invalid_output",
     "tts.silent_playout", "latency.slo_pass", "harness.equivalence_pass", "human.overall_pass"}
NumericNames ==
    {"call.barge_in_count", "call.no_input_count", "call.degraded_turns", "call.tool_rejections",
     "call.agent_turns", "call.borrower_turns", "call.duration_ms", "stt.wer", "stt.wer_worst_line",
     "stt.entity_er", "tts.chars_per_second", "latency.response_ms", "turn.response_rate",
     "turn.yield_rate", "turn.yield_latency_ms", "turn.false_interrupt_rate",
     "turn.agent_interrupt_rate", "turn.selectivity", "turn.barge_in_t90", "scenario.pass_rate",
     "system.orphan_detect_ms"}
TURN_LEVEL_SCORE_NAMES == {"latency.response_ms", "stt.wer", "tts.silent_playout", "tts.chars_per_second"}

(* A bad producer fails where it writes.                                    *)
scoreRecordProblem(s) ==
    \/ s.name \notin BooleanNames \cup NumericNames
    \/ s.name \in BooleanNames /\ s.value \notin {0, 1}

numericScore(name, value, source) == [name |-> name, turn |-> {}, value |-> value, source |-> source]
booleanScore(name, pass, source) == numericScore(name, IF pass THEN 1 ELSE 0, source)

-----------------------------------------------------------------------------
(* evaluateCall.                                                           *)

OfType(ledger, type) == {i \in DOMAIN ledger : ledger[i].type = type}
Saying(ledger, type, what) == {i \in OfType(ledger, type) : what \in ledger[i].says}
First(places) == IF places = {} THEN {} ELSE {Min(places)}
Count(places) == Cardinality(places)

evaluateCall(ledger, readBack) ==
    LET agentTurns == OfType(ledger, "AGENT_TURN")
        voicemail == Saying(ledger, "AMD_RESULT", "MACHINE") # {}
        rpc == First(Saying(ledger, "STATE_TRANSITION", "RIGHT_PARTY_CONFIRMED"))
        started == IF OfType(ledger, "CALL_STARTED") # {} THEN First(OfType(ledger, "CALL_STARTED"))
                   ELSE First(DOMAIN ledger)
        rejected == OfType(ledger, "TOOL_REJECTED")
        facts ==
           [miniMirandaFirst |->
               IF voicemail THEN {} ELSE {\E i \in First(agentTurns) : "miranda" \in ledger[i].says},
            noProtectedBeforeRpc |->
               ~\E i \in Saying(ledger, "AGENT_TURN", "protected") : \A r \in rpc : i < r,
            noPromiseWithoutReadback |-> readBack,
            rightPartyVerified |-> rpc # {},
            voicemail |-> voicemail,
            bargeInCount |-> Count(OfType(ledger, "TURN_SUPERSEDED")),
            noInputCount |-> Count(OfType(ledger, "NO_INPUT")),
            degradedTurns |-> Count(Saying(ledger, "AGENT_TURN", "degraded")),
            toolRejections |-> [why \in UNION {ledger[i].says : i \in rejected} |->
                                   Count(Saying(ledger, "TOOL_REJECTED", why))],
            toolRejectionCount |-> Count(rejected),
            agentTurns |-> Count(agentTurns),
            borrowerTurns |-> Count(OfType(ledger, "USER_TURN_FINAL")),
            durationMs |-> {ledger[e].at - ledger[s].at :
                               <<s, e>> \in started \X First(OfType(ledger, "CALL_ENDED"))}]
    IN  [facts |-> facts,
         issues |-> {i \in {"MINI_MIRANDA_MISSING", "PROTECTED_CONTEXT_BEFORE_VERIFICATION", "PROMISE_WITHOUT_READBACK"} :
                        CASE i = "MINI_MIRANDA_MISSING" -> facts.miniMirandaFirst = {FALSE}
                          [] i = "PROTECTED_CONTEXT_BEFORE_VERIFICATION" -> ~facts.noProtectedBeforeRpc
                          [] OTHER -> readBack = {FALSE}}]

(* A fact without evidence is no score.                                    *)
evaluationScores(f) ==
    LET bool(name, values) == {booleanScore(name, v, "EVALUATOR") : v \in values}
        nums(name, values) == {numericScore(name, v, "EVALUATOR") : v \in values}
    IN  bool("compliance.mini_miranda_first", f.miniMirandaFirst)
        \cup bool("compliance.no_protected_before_rpc", {f.noProtectedBeforeRpc})
        \cup bool("compliance.no_promise_without_readback", f.noPromiseWithoutReadback)
        \cup bool("call.right_party_verified", {f.rightPartyVerified})
        \cup bool("call.voicemail", {f.voicemail})
        \cup nums("call.barge_in_count", {f.bargeInCount})
        \cup nums("call.no_input_count", {f.noInputCount})
        \cup nums("call.degraded_turns", {f.degradedTurns})
        \cup nums("call.tool_rejections", {f.toolRejectionCount})
        \cup nums("call.agent_turns", {f.agentTurns})
        \cup nums("call.borrower_turns", {f.borrowerTurns})
        \cup nums("call.duration_ms", f.durationMs)

(* The EVALUATION job also writes the call's latency verdict and the turns'  *)
(* synthesis, each as the rule that owns it found it.                       *)
EvaluationJob(facts, sloPass, ttsScores) ==
    evaluationScores(facts)
        \cup {booleanScore("latency.slo_pass", pass, "EVALUATOR") : pass \in sloPass}
        \cup {[name |-> s.name, turn |-> {s.turn}, value |-> s.value, source |-> "SYSTEM"] : s \in ttsScores}

-----------------------------------------------------------------------------
(* The judge: a verdict has every dimension, or it is none.                 *)

VerdictFields == JUDGE_DIMENSIONS \cup {"overall_pass", "confidence"}
decodeJudgeVerdict(raw) ==
    IF /\ VerdictFields \subseteq DOMAIN raw
       /\ \A d \in JUDGE_DIMENSIONS \cup {"overall_pass"} : raw[d] \in {"true", "false"}
       /\ raw["confidence"] = "in range"
    THEN {[d \in VerdictFields |-> raw[d]]}
    ELSE {}

judgeScores(verdict) ==
    {booleanScore(SCORE_NAME_BY_DIMENSION[d], verdict[d] = "true", "JUDGE") : d \in JUDGE_DIMENSIONS}
        \cup {booleanScore("judge.overall_pass", verdict["overall_pass"] = "true", "JUDGE")}

(* Two answers are asked for at most; an answer that is not JSON decodes as   *)
(* one without fields.                                                     *)
runJudge(answers) ==
    LET usable == {i \in 1 .. 2 : decodeJudgeVerdict(answers[i]) # {}}
    IN  IF usable = {} THEN [verdict |-> {}, attempts |-> 2]
        ELSE [verdict |-> decodeJudgeVerdict(answers[Min(usable)]), attempts |-> Min(usable)]

JudgeJob(judged) ==
    IF judged.verdict = {} THEN {booleanScore("judge.invalid_output", TRUE, "JUDGE")}
    ELSE UNION {judgeScores(v) : v \in judged.verdict}

-----------------------------------------------------------------------------
(* The window's report: calls are [outcome, ledger, scores], the outcome of a *)
(* call in progress being none.                                             *)

PerMille(n, of) == IF of = 0 THEN {} ELSE {(2000 * n + of) \div (2 * of)}

Voicemail(c) == Saying(c.ledger, "AMD_RESULT", "MACHINE") # {}
RightParty(c) == Saying(c.ledger, "STATE_TRANSITION", "RIGHT_PARTY_CONFIRMED") # {}
Promise(c) == Saying(c.ledger, "TOOL_RESULT", "record_promise_to_pay") # {}
Orphaned(c) == Saying(c.ledger, "CALL_CONTROL", "orphaned") # {}

funnel(calls) ==
    LET n(P(_)) == Cardinality({i \in DOMAIN calls : P(calls[i])})
        finished == n(LAMBDA c : c.outcome # {})
        connected == n(LAMBDA c : c.outcome # {} /\ c.outcome # {"NO_ANSWER"} /\ ~Voicemail(c))
        voicemail == n(LAMBDA c : Voicemail(c) \/ c.outcome = {"VOICEMAIL_LEFT"})
        right == n(RightParty)
    IN  [attempts |-> Len(calls), finished |-> finished, in_progress |-> Len(calls) - finished,
         connected |-> connected, voicemail |-> voicemail, right_party |-> right,
         promise_to_pay |-> n(Promise), callback_scheduled |-> n(LAMBDA c : c.outcome = {"CALLBACK_SCHEDULED"}),
         failed |-> n(LAMBDA c : c.outcome = {"FAILED"}), orphaned |-> n(Orphaned),
         rates |-> [contact |-> PerMille(connected, finished), right_party |-> PerMille(right, connected),
                    promise |-> PerMille(n(Promise), right), voicemail |-> PerMille(voicemail, Len(calls))]]

(* A name is summed up of the calls, never of the turns.                    *)
scoreSummaries(scores) ==
    LET ofCalls == SelectSeq(scores, LAMBDA s : s.turn = {})
        like(k) == SelectSeq(ofCalls, LAMBDA s : <<s.name, s.source>> = k)
        total(k) == FoldLeft(LAMBDA sum, s : sum + s.value, 0, like(k))
        passed(k) == Len(SelectSeq(like(k), LAMBDA s : s.value = 1))
    IN  [k \in {<<s.name, s.source>> : s \in ToSet(ofCalls)} |->
            [n |-> Len(like(k)), mean |-> PerMille(total(k), Len(like(k))),
             pass_rate |-> IF k[1] \in BooleanNames THEN PerMille(passed(k), Len(like(k))) ELSE {}]]

(* The judge and the operator's label meet on a call; each says yes if any of *)
(* its scores there does.                                                   *)
agreement(calls) ==
    LET labels(c) == {s \in c.scores : s.name \in {"judge.overall_pass", "human.overall_pass"} /\ s.turn = {}}
        said(i, source) ==
            LET values == {s.value : s \in {t \in labels(calls[i]) : t.source = source}}
            IN  IF values = {} THEN {} ELSE {Max(values)}
        judge(i) == said(i, "JUDGE")
        human(i) == said(i, "HUMAN")
        both == {i \in DOMAIN calls : judge(i) # {} /\ human(i) # {}}
        agreed == {i \in both : judge(i) = human(i)}
    IN  [judged |-> Cardinality({i \in DOMAIN calls : judge(i) # {}}),
         human_labelled |-> Cardinality({i \in DOMAIN calls : human(i) # {}}),
         both |-> Cardinality(both), agreed |-> Cardinality(agreed),
         rate |-> PerMille(Cardinality(agreed), Cardinality(both))]

(* A promised day is a day where the borrower lives; hours count from a UTC   *)
(* midnight.                                                               *)
localDay(hour, offset) == (hour + offset) \div 24
promiseStatus(day, hour, offset) ==
    IF day < localDay(hour, offset) THEN "OVERDUE"
    ELSE IF day = localDay(hour, offset) THEN "DUE_TODAY" ELSE "PENDING"

(* What is posted must be of the call's turns and well formed, or nothing of  *)
(* it is written.                                                          *)
postScores(turns, posted) ==
    IF \/ \E s \in posted : ~(s.turn \subseteq turns)
       \/ \E s \in posted : scoreRecordProblem(s)
    THEN {} ELSE posted
==============================================================================
