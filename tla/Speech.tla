------------------------------- MODULE Speech -------------------------------
(***************************************************************************)
(* What is said of the synthesis from outside (tts.ts, and its twins in SQL). *)
(* A turn's facts are its audio and characters, each a set with at most one *)
(* member, and whether its playout was silent. Rates are in hundredths of a *)
(* character per second.                                                   *)
(***************************************************************************)
EXTENDS Integers, FiniteSets, Sequences, SequencesExt, FiniteSetsExt

Superseded(events) == {e.turn : e \in {f \in ToSet(events) : f.type = "TURN_SUPERSEDED"}}
Unheard(e) == e.type = "AGENT_TURN_PLAYOUT" /\ e.interrupted /\ ~e.heard

(* In the domain: the turns of the unheard reports, as they are met.        *)
silentPlayoutTurnIds(events) ==
    FoldLeft(LAMBDA out, e : IF Unheard(e) /\ e.turn \notin Superseded(events) THEN out \cup {e.turn} ELSE out,
             {}, events)

(* In SQL: of a turn's row, and counted over the events of many calls.      *)
ttsSilent(events, turn) ==
    /\ \E i \in DOMAIN events : Unheard(events[i]) /\ events[i].turn = turn
    /\ ~\E i \in DOMAIN events : events[i].type = "TURN_SUPERSEDED" /\ events[i].turn = turn
ttsSilentPlayouts(calls) ==
    Cardinality({e.turn : e \in UNION {{f \in ToSet(calls[c]) : Unheard(f) /\ f.turn \notin Superseded(calls[c])} :
                                           c \in DOMAIN calls}})

-----------------------------------------------------------------------------

hasEvidence(t) == t.audioMs # {} \/ t.chars # {} \/ t.silent

(* Without audio there is no rate: not none per second.                     *)
charsPerSecond(t) ==
    {(2 * 100000 * c + a) \div (2 * a) : <<c, a>> \in {x \in t.chars \X t.audioMs : x[1] > 0 /\ x[2] > 0}}

ttsScores(turns) ==
    UNION {{[name |-> "tts.silent_playout", turn |-> t, value |-> IF turns[t].silent THEN 1 ELSE 0]}
               \cup {[name |-> "tts.chars_per_second", turn |-> t, value |-> r] : r \in charsPerSecond(turns[t])} :
           t \in {u \in DOMAIN turns : hasEvidence(turns[u])}}

(* Twice the median, which for an even number lies between the middle two.  *)
medianOf(sorted) ==
    IF sorted = <<>> THEN {}
    ELSE LET mid == Len(sorted) \div 2
         IN  {IF Len(sorted) % 2 = 1 THEN 2 * sorted[mid + 1] ELSE sorted[mid] + sorted[mid + 1]}

TTS_RATE_BASELINE_READINGS == 3
Distance(a, b) == IF a < b THEN b - a ELSE a - b
IsOutlier(rate, median2) == 10 * Distance(2 * rate, median2) > 4 * median2

ttsAggregate(turns) ==
    LET withRuntime == {t \in DOMAIN turns : hasEvidence(turns[t])}
        rated == {t \in withRuntime : charsPerSecond(turns[t]) # {}}
        rate == [t \in rated |-> CHOOSE r \in charsPerSecond(turns[t]) : TRUE]
        sorted == SortSeq([i \in 1 .. Cardinality(rated) |-> rate[SetToSeq(rated)[i]]], LAMBDA a, b : a < b)
        off(t) == {Distance(2 * rate[t], m) : m \in medianOf(sorted)}
        outliers == {t \in rated : Len(sorted) >= TTS_RATE_BASELINE_READINGS
                                    /\ \E m \in medianOf(sorted) : IsOutlier(rate[t], m)}
    IN  [turns |-> Cardinality(withRuntime),
         silentPlayouts |-> Cardinality({t \in withRuntime : turns[t].silent}),
         median2 |-> medianOf(sorted),
         outliers |-> SetToSortSeq(outliers, LAMBDA s, t : Max(off(s)) > Max(off(t)))]

TTS_OUTLIERS_SHOWN == 5
ttsReport(h) ==
    [outlier_count |-> Len(h.outliers),
     outliers |-> SubSeq(h.outliers, 1, Min({TTS_OUTLIERS_SHOWN, Len(h.outliers)}))]
==============================================================================
