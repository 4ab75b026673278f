----------------------------- MODULE TurnTaking -----------------------------
(***************************************************************************)
(* Who gave way to whom (turnTaking.ts), and the scores a harness posts of   *)
(* a call (harness-scores.ts). A borrower event is [kind, start, end], a     *)
(* stretch of the agent's speech [start, end, cut], where cut is "yes", "no"  *)
(* or "unknown" for a stretch no playout was joined to; both come in the      *)
(* order they began. A rate is <<numerator, denominator>>; with nothing to    *)
(* count there is none.                                                    *)
(***************************************************************************)
EXTENDS Integers, FiniteSets, Sequences, SequencesExt, FiniteSetsExt
LOCAL INSTANCE Latency

YIELD_WINDOW_MS == 2000

Least(places) == IF places = {} THEN {} ELSE {Min(places)}
Latest(places) == IF places = {} THEN {} ELSE {Max(places)}
Within(e, s) == s.start <= e.start /\ e.start < s.end

(* The stretch an event landed in the middle of, and what stopped a stretch: *)
(* the last thing the borrower's side did while it played.                  *)
interrupted(events, e) == Least({s \in DOMAIN events.agent : Within(events.borrower[e], events.agent[s])})
proximateCause(events, s) == Latest({e \in DOMAIN events.borrower : Within(events.borrower[e], events.agent[s])})

Lines(events) == {e \in DOMAIN events.borrower : events.borrower[e].kind = "line"}
NonDirected(events) == DOMAIN events.borrower \ Lines(events)

(* The agent's answer begins after the event and before the borrower's next;  *)
(* of a stretch the event did not stop, what follows is no answer.          *)
replyTo(events, e) ==
    LET me == events.borrower[e]
        next == {b \in DOMAIN events.borrower : events.borrower[b].start > me.start}
        before(s) == \A b \in Least(next) : events.agent[s].start < events.borrower[b].start
        stopped(s) == events.agent[s].cut = "yes" /\ proximateCause(events, s) = {e}
    IN  IF \E s \in interrupted(events, e) : ~stopped(s) THEN {}
        ELSE Least({s \in DOMAIN events.agent : events.agent[s].start >= me.end /\ before(s)})

interruptions(events) == {e \in Lines(events) : interrupted(events, e) # {}}
YieldLatency(events, e) ==
    {events.agent[s].end - events.borrower[e].start : s \in interrupted(events, e)}
yields(events) ==
    {e \in interruptions(events) :
        /\ \A s \in interrupted(events, e) : events.agent[s].cut = "yes"
        /\ \A latency \in YieldLatency(events, e) : latency <= YIELD_WINDOW_MS}

duringAgentSpeech(events) ==
    {e \in NonDirected(events) : \E s \in interrupted(events, e) : events.agent[s].cut # "unknown"}
falseInterrupts(events) ==
    UNION {proximateCause(events, s) : s \in {t \in DOMAIN events.agent : events.agent[t].cut = "yes"}}
        \cap NonDirected(events)
ignored(events) == {e \in NonDirected(events) \ falseInterrupts(events) : replyTo(events, e) = {}}
talkedOver(events) ==
    {e \in Lines(events) : \E s \in DOMAIN events.agent :
        events.borrower[e].start < events.agent[s].start /\ events.agent[s].start < events.borrower[e].end}

rate(of, all) == IF all = {} THEN {} ELSE {<<Cardinality(of), Cardinality(all)>>}

turnTakingMetrics(events) ==
    LET lines == Lines(events)
        latencies == FlattenSeq([i \in DOMAIN events.borrower |->
                        IF i \in yields(events) THEN SetToSeq(YieldLatency(events, i)) ELSE <<>>])
    IN  [response_rate |-> rate({l \in lines : replyTo(events, l) # {}}, lines),
         yield_rate |-> rate(yields(events), interruptions(events)),
         yield_latency_ms |-> percentile(latencies, 50),
         false_interrupt_rate |-> rate(falseInterrupts(events), duringAgentSpeech(events)),
         agent_interrupt_rate |-> rate(talkedOver(events), lines),
         selectivity |-> rate(ignored(events), NonDirected(events)),
         unknown |-> Cardinality({s \in DOMAIN events.agent : events.agent[s].cut = "unknown"})]

(* A property of a sweep of interruptions, not of one call.                 *)
bargeInT90(speech) == percentile(speech, 90)

-----------------------------------------------------------------------------
(* The harness's scores. A measured line or reply carries the turn it was     *)
(* joined to, if any; an error rate is per ten thousand.                    *)

turnTakingScores(metrics) ==
    LET named == {"response_rate", "yield_rate", "yield_latency_ms", "false_interrupt_rate",
                  "agent_interrupt_rate", "selectivity"}
    IN  {<<"turn", n>> : n \in {m \in named : metrics[m] # {}}}

Measured(lines) == SelectSeq(lines, LAMBDA l : l.wer # {})
WerOf(l) == CHOOSE w \in l.wer : TRUE
summariseWer(lines) ==
    LET m == Measured(lines)
        total == FoldLeft(LAMBDA sum, l : sum + WerOf(l), 0, m)
    IN  IF m = <<>> THEN {}
        ELSE {[n |-> Len(m), mean |-> (2 * total + Len(m)) \div (2 * Len(m)),
               worst |-> Max({WerOf(m[i]) : i \in DOMAIN m})]}

(* What could not be joined is dropped: rows without a turn would fall on     *)
(* each other, and on the mean of the call.                                 *)
buildHarnessScores(equivalent, lines, replies) ==
    LET row(name, turn, value) == [name |-> name, turn |-> turn, value |-> value]
        perTurn(name, measured, value(_)) ==
            FlattenSeq([i \in DOMAIN measured |->
                IF measured[i].turn = {} THEN <<>> ELSE <<row(name, measured[i].turn, value(measured[i]))>>])
        summary == SetToSeq(summariseWer(lines))
    IN  <<row("harness.equivalence_pass", {}, IF equivalent THEN 1 ELSE 0)>>
        \o perTurn("stt.wer", Measured(lines), WerOf)
        \o FlattenSeq([i \in DOMAIN summary |->
              <<row("stt.wer", {}, summary[i].mean), row("stt.wer_worst_line", {}, summary[i].worst)>>])
        \o perTurn("latency.response_ms", replies, LAMBDA r : r.ms)

(* Entities: what was to be heard and what was lost, by kind, over all lines. *)
summariseEntities(lines) ==
    LET sum(field, kind) == FoldLeft(LAMBDA n, l : n + l[field][kind], 0, lines)
        Kinds == {"amount", "date", "name"}
        all(field) == FoldSet(LAMBDA k, n : n + sum(field, k), 0, Kinds)
    IN  [n |-> all("said"), errors |-> [k \in Kinds |-> sum("lost", k)], counts |-> [k \in Kinds |-> sum("said", k)],
         entity_er |-> IF all("said") = 0 THEN {} ELSE {<<all("lost"), all("said")>>}]
==============================================================================
