------------------------------ MODULE Latency ------------------------------
(***************************************************************************)
(* What is said of a window's latency (percentile.ts, Queries.ts, and the   *)
(* SLO part of Quality.ts). A reading that may be missing is a set with at  *)
(* most one member; times are whole milliseconds.                          *)
(***************************************************************************)
EXTENDS Integers, FiniteSets, Sequences, SequencesExt, FiniteSetsExt

(* Nearest rank: a percentile is a reading somebody had, and of no readings  *)
(* there is none.                                                          *)
percentile(values, p) ==
    IF values = <<>> THEN {}
    ELSE {SortSeq(values, LAMBDA a, b : a < b)[Max({1, (p * Len(values) + 99) \div 100})]}

-----------------------------------------------------------------------------
(* The rows of the latency report.                                         *)

Components == {"eou_delay_ms", "transcription_delay_ms", "ttft_ms", "tts_ttfb_ms"}
MAX_PLAUSIBLE_MS == 300000

(* A reading below zero or of minutes is dropped, and counted.              *)
num(reading) == {n \in reading : 0 <= n /\ n <= MAX_PLAUSIBLE_MS}
Dropped(stored) == {c \in Components : num(stored[c]) # stored[c]}

TurnRow(stored) ==
    LET kept == [c \in Components |-> num(stored[c])]
        parts == {c \in Components : kept[c] # {}}
    IN  [c \in Components \cup {"total_ms"} |->
            IF c # "total_ms" THEN kept[c]
            ELSE IF parts = {} THEN {}
            ELSE {FoldSet(LAMBDA p, sum : sum + CHOOSE n \in kept[p] : TRUE, 0, parts)}]

turnRowsForMany(turns) ==
    [rows |-> [i \in DOMAIN turns |-> TurnRow(turns[i])],
     dropped |-> FoldLeft(LAMBDA sum, t : sum + Cardinality(Dropped(t)), 0, turns)]

Readings(rows, c) == FlattenSeq([i \in DOMAIN rows |-> SetToSeq(rows[i][c])])
Complete(row) == \A c \in Components : row[c] # {}

(* The total is taken of complete turns only: a simulated one has only ttft. *)
aggregateTurnRows(rows) ==
    LET pct(values) == [n |-> Len(values), p50 |-> percentile(values, 50), p95 |-> percentile(values, 95)]
    IN  [c \in Components \cup {"total_ms"} |->
            pct(Readings(IF c = "total_ms" THEN SelectSeq(rows, Complete) ELSE rows, c))]

-----------------------------------------------------------------------------
(* The verdicts.                                                           *)

sloComponentStatus(observed, target, minSample) ==
    IF observed.n = 0 \/ observed.p95 = {} THEN "not_measured"
    ELSE IF observed.n < minSample THEN "insufficient_sample"
    ELSE IF \E p95 \in observed.p95 : p95 > target THEN "breach"
    ELSE "pass"

sloVerdict(statuses) ==
    IF "breach" \in statuses THEN "breach"
    ELSE IF "pass" \in statuses THEN "pass" ELSE "insufficient"

sloFrom(latency, targets, minSample) ==
    LET status == [c \in DOMAIN latency |-> sloComponentStatus(latency[c], targets[c], minSample)]
        verdict == sloVerdict({status[c] : c \in DOMAIN latency})
    IN  [verdict |-> verdict, pass |-> verdict = "pass",
         measured |-> [c \in DOMAIN latency |->
                          IF status[c] \in {"insufficient_sample", "not_measured"} THEN {} ELSE latency[c].p95],
         breaches |-> {c \in DOMAIN latency : status[c] = "breach"},
         insufficient |-> {c \in DOMAIN latency : status[c] = "insufficient_sample"}]

(* One call is judged by its slowest turn, and not at all if nothing was     *)
(* measured.                                                               *)
callSloVerdict(rows, targets) ==
    LET readings(c) == UNION {rows[i][c] : i \in DOMAIN rows}
        breached == {c \in Components : \E n \in readings(c) : n > targets[c]}
        measured == FoldSet(LAMBDA c, sum : sum + Len(Readings(rows, c)), 0, Components)
    IN  [pass |-> IF measured = 0 THEN {} ELSE {breached = {}}, breached |-> breached, measured |-> measured]
==============================================================================
