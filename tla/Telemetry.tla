------------------------------ MODULE Telemetry ------------------------------
(***************************************************************************)
(* What one server tells Langfuse of one call (Tracing.ts, Scores.ts): the   *)
(* parts of a turn's span, which arrive in any order and wait for each other *)
(* in memory, and the scores, written to Postgres and mirrored in batches.   *)
(***************************************************************************)
EXTENDS Naturals, FiniteSets, SequencesExt

CONSTANTS
    Turns,
    Recorders,    \* who records scores: outbox jobs, operators and harnesses
    InJob,        \* the recorders whose writes are in an outbox job's transaction
    Names,        \* of a recorder: the scores it records, in order
    MaxPending,   \* MAX_PENDING_TURNS
    MaxRuns,      \* bound: how often a recorder records
    MaxRestarts   \* bound: restarts of the server

ASSUME ShapeAssumption ==
    /\ InJob \subseteq Recorders /\ DOMAIN Names = Recorders
    /\ \A r \in Recorders : Names[r] \in Seq(ToSet(Names[r]))
ASSUME CapsAssumption == MaxPending \in Nat \ {0}

VARIABLES
    voice,      \* a voice call: its latencies come by turn_metrics
    stage,      \* of a turn: new, deciding, recorded or failed
    reported,   \* turns whose turn_metrics have come
    ended,      \* the call has its outcome
    pending,    \* the Map of half-known turns; ahead: the older ones
    spans,      \* how many spans a turn was exported as
    recorder,   \* what a recorder is doing
    rows,       \* conversation_scores: the committed value of a recorder's score, 0 for none
    buffer,     \* pendingScores: score and value
    batch,      \* of a recorder: the ingestion request it is waiting for
    mirror,     \* Langfuse: the scores it was told of
    reports,    \* scores whose loss was counted as a provider error
    lostTurns, lostScores,   \* histories: what was in memory when the server stopped
    restarts

turnVars == <<voice, stage, reported, ended, pending, spans>>
scoreVars == <<recorder, rows, buffer, batch, mirror, reports>>
vars == <<turnVars, scoreVars, lostTurns, lostScores, restarts>>

Idle == [at |-> "idle", left |-> <<>>, run |-> 0]
Score == UNION {{r} \X ToSet(Names[r]) : r \in Recorders}
NoSlots == [t \in {} |-> {}]

Init ==
    /\ voice \in BOOLEAN
    /\ stage = [t \in Turns |-> "new"]
    /\ reported = {} /\ ended = FALSE
    /\ pending = NoSlots
    /\ spans = [t \in Turns |-> 0]
    /\ recorder = [r \in Recorders |-> Idle]
    /\ rows = [k \in Score |-> 0]
    /\ buffer = {}
    /\ batch = [r \in Recorders |-> {}]
    /\ mirror = {} /\ reports = {}
    /\ lostTurns = {} /\ lostScores = {} /\ restarts = 0

-----------------------------------------------------------------------------
(* Spans.                                                                  *)

(* slot(): found, or made as the youngest.                                  *)
Slot(t) ==
    IF t \in DOMAIN pending THEN pending[t]
    ELSE [ahead |-> DOMAIN pending,
          said |-> FALSE, superseded |-> FALSE, generation |-> FALSE, latency |-> FALSE]
Overflow == Cardinality(DOMAIN pending) = MaxPending

(* What is evicted to make room for t: the oldest, or nothing.              *)
Evicted(t) ==
    IF t \notin DOMAIN pending /\ Overflow
    THEN {u \in DOMAIN pending : pending[u].ahead = {}} ELSE {}

WithoutNone(slots, T) == slots   \* mutant: emit forgets to delete
Without(slots, T) == [t \in DOMAIN slots \ T |-> [slots[t] EXCEPT !.ahead = @ \ T]]

(* emit(): the slots of T leave the map; those with a turn become its span. *)
Emit(slots, T) ==
    /\ pending' = Without(slots, T)
    /\ spans' = [t \in Turns |->
          IF t \in T \cap DOMAIN slots /\ slots[t].said THEN spans[t] + 1 ELSE spans[t]]

(* A turn's slot is written; the slots of T then go out.                    *)
Put(t, slot, T) ==
    Emit([u \in DOMAIN pending \cup {t} |-> IF u = t THEN slot ELSE pending[u]], Evicted(t) \cup T)

BeginTurn(t) ==
    /\ stage[t] = "new" /\ ~ended
    /\ stage' = [stage EXCEPT ![t] = "deciding"]
    /\ UNCHANGED <<reported, ended, pending, spans>>

(* The model's answer, when the stream is through.                          *)
Generation(t) ==
    /\ stage[t] = "deciding" /\ ~Slot(t).generation
    /\ Put(t, [Slot(t) EXCEPT !.generation = TRUE], {})
    /\ UNCHANGED <<stage, reported, ended>>

(* T2 is through, or found the turn superseded. A turn that ends a text      *)
(* call releases the call's turns with it; a voice call waits for metrics.  *)
Recorded(t, superseded, ends) ==
    /\ stage[t] = "deciding" /\ ~(superseded /\ ends)
    /\ Put(t, [Slot(t) EXCEPT !.said = TRUE, !.superseded = superseded],
           IF ends /\ ~voice THEN Turns ELSE IF superseded \/ Slot(t).latency THEN {t} ELSE {})
    /\ stage' = [stage EXCEPT ![t] = "recorded"]
    /\ ended' = (ended \/ ends)
    /\ UNCHANGED reported

TurnFails(t) ==
    /\ stage[t] = "deciding"
    /\ stage' = [stage EXCEPT ![t] = "failed"]
    /\ UNCHANGED <<reported, ended, pending, spans>>

(* recordTurnMetrics: for any turn of the call, before or after the rest.   *)
TurnLatency(t) ==
    /\ voice /\ stage[t] # "new" /\ t \notin reported
    /\ Put(t, [Slot(t) EXCEPT !.latency = TRUE], IF Slot(t).said THEN {t} ELSE {})
    /\ reported' = reported \cup {t}
    /\ UNCHANGED <<stage, ended>>

(* finalizeTracingIfEnded: a signal or a second strike ends the call.       *)
SignalEnds ==
    /\ ~ended
    /\ ended' = TRUE
    /\ Emit(pending, Turns)
    /\ UNCHANGED <<stage, reported>>

TurnStep ==
    /\ \/ \E t \in Turns : BeginTurn(t) \/ Generation(t) \/ TurnFails(t) \/ TurnLatency(t)
       \/ \E t \in Turns, superseded, ends \in BOOLEAN : Recorded(t, superseded, ends)
       \/ SignalEnds
    /\ UNCHANGED <<voice, scoreVars, lostTurns, lostScores, restarts>>

-----------------------------------------------------------------------------
(* Scores.                                                                 *)

(* Each run of a recorder measures afresh, so its value is the run's number. *)
Start(r) ==
    /\ recorder[r].at = "idle" /\ recorder[r].run < MaxRuns
    /\ recorder' = [recorder EXCEPT ![r] = [at |-> "writing", left |-> Names[r], run |-> @.run + 1]]
    /\ UNCHANGED <<rows, buffer, batch, mirror, reports>>

(* upsert, then tracing.score. A job's row is not committed yet.            *)
Upsert(r) ==
    /\ recorder[r].at = "writing" /\ recorder[r].left # <<>>
    /\ LET score == <<r, Head(recorder[r].left)>>
           value == recorder[r].run
       IN  /\ rows' = IF r \in InJob THEN rows ELSE [rows EXCEPT ![score] = value]
           /\ buffer' = buffer \cup {<<score, value>>}
    /\ recorder' = [recorder EXCEPT ![r].left = Tail(@)]
    /\ UNCHANGED <<batch, mirror, reports>>

(* A statement fails: what the recorder had buffered stays there, unsent.   *)
UpsertFails(r) ==
    /\ recorder[r].at = "writing" /\ recorder[r].left # <<>>
    /\ recorder' = [recorder EXCEPT ![r].at = "idle", ![r].left = <<>>]
    /\ UNCHANGED <<rows, buffer, batch, mirror, reports>>

(* flushScores: everything buffered, whoever buffered it, in one request.   *)
FlushScores(r) ==
    /\ recorder[r].at = "writing" /\ recorder[r].left = <<>>
    /\ batch' = [batch EXCEPT ![r] = buffer]
    /\ buffer' = {}
    /\ recorder' = [recorder EXCEPT ![r].at = IF buffer = {} THEN "flushed" ELSE "sending"]
    /\ UNCHANGED <<rows, mirror, reports>>

(* langfuseIngestionProblems: the rejected scores, or all if nothing came.  *)
ProblemsSwallowed(sent, taken) == {}   \* mutant: the SDK's flush resolves whatever happened
Problems(sent, taken) == sent \ taken

Answer(r) ==
    /\ recorder[r].at = "sending"
    /\ \E taken \in SUBSET batch[r] :
        /\ mirror' = mirror \cup taken
        /\ reports' = reports \cup Problems(batch[r], taken)
    /\ batch' = [batch EXCEPT ![r] = {}]
    /\ recorder' = [recorder EXCEPT ![r].at = "flushed"]
    /\ UNCHANGED <<rows, buffer>>

(* recordMany returns. A job commits its scores with its DONE, or fails in  *)
(* a later statement and loses them, to be worked on again.                 *)
Return(r) ==
    /\ recorder[r].at = "flushed"
    /\ recorder' = [recorder EXCEPT ![r].at = "idle"]
    /\ \/ rows' = [k \in Score |-> IF k[1] = r THEN recorder[r].run ELSE rows[k]]
       \/ r \in InJob /\ rows' = rows
    /\ UNCHANGED <<buffer, batch, mirror, reports>>

ScoreStep ==
    /\ \E r \in Recorders :
        Start(r) \/ Upsert(r) \/ UpsertFails(r) \/ FlushScores(r) \/ Answer(r) \/ Return(r)
    /\ UNCHANGED <<turnVars, lostTurns, lostScores, restarts>>

-----------------------------------------------------------------------------
(* The server stops and another one starts with empty memory. A clean stop  *)
(* exports the turns it holds, but sends no scores; a crash does neither. A *)
(* request under way may have arrived.                                      *)
Waiting == {t \in DOMAIN pending : pending[t].said}
InMemory == buffer \cup UNION {batch[r] : r \in Recorders}

Restart(clean) ==
    /\ restarts < MaxRestarts
    /\ restarts' = restarts + 1
    /\ Emit(IF clean THEN pending ELSE NoSlots, Turns)
    /\ stage' = [t \in Turns |-> IF stage[t] = "deciding" THEN "failed" ELSE stage[t]]
    /\ recorder' = [r \in Recorders |-> [recorder[r] EXCEPT !.at = "idle", !.left = <<>>]]
    /\ lostTurns' = lostTurns \cup (IF clean THEN {} ELSE Waiting)
    /\ lostScores' = lostScores \cup InMemory
    /\ buffer' = {}
    /\ batch' = [r \in Recorders |-> {}]
    /\ \E arrived \in SUBSET Recorders : mirror' = mirror \cup UNION {batch[r] : r \in arrived}
    /\ UNCHANGED <<voice, reported, ended, rows, reports>>

Next == TurnStep \/ ScoreStep \/ \E clean \in BOOLEAN : Restart(clean)

Spec == Init /\ [][Next]_vars

-----------------------------------------------------------------------------
(* Every decided turn is exported once or waits for it, whichever of its    *)
(* parts came first and whatever released it; only a crash loses one. A     *)
(* turn that waits, waits for its latency (Tracing.turn, turnLatency).      *)
SpansOnce ==
    \A t \in Turns :
        /\ stage[t] = "recorded" =>
              spans[t] + (IF t \in Waiting THEN 1 ELSE 0) = IF t \in lostTurns THEN 0 ELSE 1
        /\ stage[t] # "recorded" => spans[t] = 0 /\ t \notin Waiting
        /\ t \in Waiting => ~pending[t].latency /\ ~pending[t].superseded

(* No committed score is lost without a trace: Langfuse was told of it, is  *)
(* being told, will be with the next flush, or its loss was counted as a    *)
(* provider error; only a server that stops forgets one (Scores, flushScores). *)
ScoresAccounted ==
    \A k \in Score : rows[k] # 0 =>
        <<k, rows[k]>> \in mirror \cup reports \cup lostScores \cup InMemory

(* "Postgres is written before Langfuse is mirrored, so [...] a failed write *)
(* claims nothing" (Scores.ts): what Langfuse was told, the ledger held. It  *)
(* is not so in a job, whose transaction commits after the flush.           *)
FailedWriteClaimsNothing ==
    (\A r \in Recorders : recorder[r].at = "idle") => \A sent \in mirror : rows[sent[1]] # 0

(* "Every path that ends a call must release the turns the tracer is still  *)
(* holding" (Orchestrator.ts): once a call is over, its turns settled and    *)
(* its metrics in, none waits.                                              *)
ReleasedAtEnd ==
    ended /\ (\A t \in Turns : stage[t] # "deciding") =>
        Waiting = {}
==============================================================================
