# Feather-Lite in TLA+

Feather-Lite places debt-collection calls. A voice worker (or the console) sends each
borrower turn to a control plane, a decider (scripted, or a language model) proposes an
answer, a tool or a move, and the control plane decides what is done and records it in
PostgreSQL. Around it are the loops that place and place again calls, work off what a call
leaves behind, and hang up calls nobody serves; a telemetry mirror; and a load harness that
judges the whole. This directory models those parts, checks them with TLC on small instances,
and proves the most important properties with TLAPS for every instance.

Paths below are relative to `src/packages/` or `src/apps/`. `PROJECT.json` gives the source lines of
every definition, the properties of every run with a mutation each must catch, and the
hazards of the code line by line.

## The system

| Part | State | Operations | Talks to |
|---|---|---|---|
| State machine, tool matrix (`domain/stateMachine.ts`, `tools.ts`) | none (tables) | `transition`, `overrideTransition`, `forcedTransition`, `validateToolCall` | orchestrator, tool executor |
| Orchestrator (`services/Orchestrator.ts`) | `conversations`, `conversation_turns`, `conversation_events` | `processTurn` (T1, decide, T2), `processNoInput`, `processSignal`, `releaseStrandedTurn` | deciders, tool executor, finalizer |
| Tool executor, finalizer (`services/ToolExecutor.ts`, `CallFinalizer.ts`) | the same rows, borrower, contact point, attempt, workflow | eight tools, the fully-heard guard, `finalize` | scheduling, outbox |
| Event log and its readers (`domain/replay.ts`, `segments.ts`, `transcript.ts`, `evaluation.ts`) | folds of `conversation_events` | `applyEvent`, `buildTranscript`, `evaluateCall` | tool executor, context, outbox |
| Deciders (`services/scripted`, `llm`) | none | a text or a stream of deltas to a decision | orchestrator |
| Turn runner (`control-plane/http/TurnRunner.ts`) | per process: live turns, their frames and subscribers, claimed turns | create, attach, emit, retain, release at shutdown | orchestrator, HTTP |
| HTTP surface (`http/app.ts`, `rateLimit.ts`, `handlers.ts`) | buckets, a day's budget | bearer check, limits, readiness | everything behind it |
| Outbox (`services/Outbox.ts`, `repos/scheduling.ts`) | `outbox_jobs` | enqueue, claim with a lease, work, retry, give up | finalizer, judge, scores |
| Scheduled actions, call start (`services/Scheduling.ts`, `Workflow.ts`, `VoiceSessions.ts`) | `scheduled_actions`, `workflow_executions`, `call_attempts` | create, cancel, claim, prepare, dispatch, `startCall` | media plane |
| Sweeper (`services/Sweeper.ts`) | none | find stale calls, ask the media plane, hang up | orchestrator |
| Voice worker (`voice-worker/src`) | per process: admitted jobs; per call: speeches, segment ledger, silence clock | admit, beat, speak, report what was heard, nudge, hang up | control plane, media server |
| Telemetry, scores, quality (`services/Tracing.ts`, `Scores.ts`, `Quality.ts`, `Queries.ts`) | half-known turns, buffered scores, `conversation_scores` | record, merge, export, flush, report | Langfuse, outbox |
| Load harness (`load-test`, `voice-worker/src/tracer`) | ticks, latencies, transcripts, verdicts | mint, drain, drive, sample, judge | all of the above |

What is hard here:

- **Three-phase turns.** A turn is claimed in a transaction (T1), decided outside any (a model
  call of up to twenty seconds), and committed in a second one (T2). Between the two, other
  turns supersede it, signals end the call, servers stop.
- **Several writers.** Turns, playout reports, answering-machine results, hang-ups, nudges,
  telemetry and the sweeper write the same row; most lock it, some do not.
- **Re-sends.** A client repeats a turn until it is answered, to the same server or another, and
  attaches to a stream at any moment.
- **Double books.** Every change is written as an event and as a row update, by hand; several
  readers search the log for "the read-back" by rules of their own.
- **Leases.** Background work is claimed by stamping a row, and taken over when the stamp is old.
- **Half knowledge.** What was heard of a line, whether a call is still served, which turn a
  latency or a transcript belongs to, are put together from reports that are late, lost, or
  stamped by another clock.

## Modules

Protocols, each with its state, its actions, and an `MC` module for its instance where it needs one:

| Module | Models | Proofs |
|---|---|---|
| `StateMachine` | the tables, and what each decider can answer in each state | used by the next |
| `CallPath` | what a conversation promises to whoever reads its row | |
| `Conversation` | one call: turns, signals, tools, finalization, server lifetimes; implements `CallPath` | `ConversationProofs` |
| `TurnRunner` | who reads which frames of a turn, and the claims a shutdown gives back | `TurnRunnerProofs` |
| `CallLog` | the event log as a sequence, and the four readers of its read-backs | `CallLogProofs` |
| `VoiceCall` | one call in the worker: speeches, segments, silence, the ways it ends | `WorkerProofs` |
| `Fleet` | admission, heartbeats and the orphan sweep | `WorkerProofs` |
| `Scheduling` | the calls of one borrower: `startCall`, the scheduler loops, the operators | `SchedulingProofs` |
| `JobLedger` | what the outbox promises of a job | |
| `Outbox` | post-call jobs and the servers that drain them; implements `JobLedger` | `OutboxProofs` |
| `Telemetry` | the spans of turns and the mirror of scores | `TelemetryProofs` |
| `LoadRun`, `Sampler` | a load run from its gates to its exit code, over the resource sampler (composed: `LoadRun` extends `Sampler`) | `HarnessProofs` |
| `Borrower` | the fake borrower, and the joins of its measures with the ledger | `HarnessProofs` |

Rules that keep no state of their own, as operators, checked over bounded inputs by assumptions that TLC
evaluates:

| Modules | Rules | Checked in |
|---|---|---|
| `Transcripts`, `Latency`, `Speech`, `Scorecard`, `TurnTaking` | word and entity errors; percentiles, stages, service levels; synthesis rates and silent playouts; facts, verdicts, scores, the funnel, agreement; yields and interruptions | `MCMeasures` |
| `Utterances`, `ScriptedDecider`, `Scenarios` | overrides, hold requests, listening noises; the scripted decider with its dates, amounts and hours; the scenario suite played with its assertions | `MCRules` |
| `Gate`, `ModelStream`, `Disclosure`, `Policies`, `Seed` | limiter, bearer, readiness; the model's tools, stream, retry and errors; what of an account is shown and masked; contact hours, holds, silence windows, configuration; demonstration data | `MCBoundaries` |

How they meet. The outcomes, `workflowStatusFor` and the outcomes that are dialled again are
defined once, in `StateMachine`: `Conversation` has what leads to an outcome, `Scheduling` what follows
from it for the borrower's other calls, `Outbox` what is left to do. `TurnRunner` is what stands
between a client and `Conversation`'s turn; it keeps of the database the row of a turn, the slot
and whether the call is over. `CallLog` is `Conversation` with one turn at a time and the log kept in
order. `VoiceCall` is the client of both: it reads the frames `TurnRunner` sends and writes the
reports `CallLog` reads. `Fleet` has the calls from outside, as the sweeper sees them.
`Scenarios` plays `Utterances` and `ScriptedDecider` against the tables of `StateMachine`, and `Seed` plays
`Scenarios` under `Policies`; the five measure modules are what `Telemetry`, `LoadRun` and `Borrower` deliver to.

### Conversation

A database transaction is one step: each locks the `conversations` row first (`lockOrFail`), so
transactions of one call do not interleave. Whatever happens outside a transaction is a step
of its own: the read of the last disposition, the two statements of the hold branch, the
decision, `turn_metrics`, each release at shutdown.

| State | Code |
|---|---|
| `row` | the `conversations` columns the protocol reads |
| `turn` | `conversation_turns`: text class, status, `result->>'disposition'` (`null`: no result, `none`: a result without one) |
| `order` | turns by `started_at`, which is the order of first claims |
| `ledger` | `replay(events)`: each operator of the event fold is one case of `applyEvent` |
| `lines`, `superseded`, `replies`, `readBack`, `lastRead`, `playout` | what the properties need of the events: `USER_TURN_FINAL`, `TURN_SUPERSEDED`, `AGENT_TURN` and its read-back segment, `AGENT_TURN_PLAYOUT` |
| `crm` | attempt and workflow status, pending scheduled actions, post-call jobs, borrower restrictions, recorded promise |
| `proc`, `run` | server lifetimes, and where the fiber of a turn is in `processTurn` |

| Action | Code |
|---|---|
| `T1Answered`, `T1Attach`, `AttachTimeout`, `T1Claim` | the outcomes of `runT1` and of the attach loop |
| `ReadDisposition`, `FinishWait`, `ReleaseWait` | the hold branch |
| `T2...` | one action per way the second transaction can end: claim lost, three overrides, no decision, a refused tool, each tool, each kind of move |
| `RunFails` | a statement fails on the database; the transaction rolls back and the claim stays |
| `NoInput`, `Playout`, `AmdMachine`, `AmdHuman`, `NoAnswer`, `Hangup`, `TurnMetrics` | the signals; `Hangup(TRUE)` is the sweeper's |
| `Boot`, `Shutdown`, `ReleaseStranded`, `Exit`, `Kill` | server lifetimes, with `releaseClaimedAtShutdown` statement by statement |

The model's decider may call any tool and make any of its pseudo moves in any state; the
scripted one keeps to its table. A tool call with arguments its schema refuses is a
nondeterministic rejection. A turn's words are a class: an override rule matches them, they
ask to hold, or neither. A tool id is represented by the turn that used it.

Abstracted: `respond`, `held` and `resume` are one disposition, because `lastDisposition`
compares with `wait` only; the hold for playout before T1 changes no state; a re-send carries
the text of the first send; `opening_played` and `barge_in` append an event nothing here
reads; amounts stand for amount and date; a poll of an attached run stays possible as long as
its process lives (retention is in `TurnRunner`).

### CallPath

What the console, the scheduler and the jobs after a call read of it: five columns (`state`, `unlocked`, `proposal`,
`outcome`, `promised`) and seven steps, with no turn, claim, event or server in sight. A call goes from
`GREETING` by `Verify`, `Identify`, `Propose` and `Decline`; it ends once, by `Promise`, which records the amount on the table, or
by `End`, whose guards say in which states an outcome can be reached. `Amend` is there because of a fault of the code: a turn that
was being decided when a signal ended the call replaces that outcome when its words override everything (`OutcomeFinal` below).
The abstract specification says how far this goes: nothing an override left, and nothing a turn settled, is replaced, and no other
column moves.

`Conversation` maps to it by its row and the promise in the books (`Path == INSTANCE CallPath WITH ...`). T1, holds, claims,
supersedes, playout reports, strikes, crashes and shutdowns are stutters; two transitions within a commit are one step.
TLC checks the property `ImplementsPath` and `ImplementsCallPath` proves it.

### TurnRunner

One conversation. An entry and the fibre it belongs to are named by the request that created them;
`live` is the index by turn id, `frames`, `subscribers`, `done` and `started` the fields of an entry,
`claimed` the map a shutdown interrupts, `client`, `attached` and `inbox` what each request sees, and
`row`, `slot`, `over` what the runner depends on in the database. `said` is a history: every frame an entry
has broadcast.

| Action | Code |
|---|---|
| `Attach`, `Create` | `run`: a turn id that is in the index or not; the frames so far are replayed and the subscriber added in one synchronous step |
| `FibreStep` | the daemon: T1 with its ways to fail, deltas, the commit, the lasting frames, the end |
| `ClientStep`, `Disconnect` | a request that waits for `started`, then reads its queue to the end; a client that leaves |
| `Evict` | retention after the end |
| `ShutdownBegins`, `Interrupt`, `ShutdownReleases` | the finalizer: interrupt what is claimed, wait, release |

A frame is its type. Deltas are dropped from the buffer at the end (`Lasting`), as in the code. An
entry dropped after `MAX_LIFETIME` while it still runs is left out.

### CallLog

`log` is `conversation_events` in `sequence_no` order; `stranded` remembers the turns a shutdown released; a turn speaks in segments that a client reports
(by segment, or by turn if it is an old client, or not at all); `rows` says whether the server that writes is
one from before segment ids, so that a `Deploy` leaves both kinds of row in one log. Four readers each
find "the read-back" in it: `readBackVerdict` (the guard), `unreportedNonInterruptible` (the query behind
the hold before T1), `readBackSegmentBefore` with `evaluateCall` (the auditor), and `buildTranscript`
with `heardFromLedger` (the prompt). Actions: `T1`, then one of `Wait`, `Reply`, `Decline`, `Propose`, `Record`,
`Refuse`, `RecordInvalid`; `NoInput`; `Playout`, at any time and in any order; `Release`, a clean shutdown in the middle of a turn.
Its line stays in the log with neither a reply nor `TURN_SUPERSEDED`, and the turn may be sent again (`SentAgain`), which appends the
line a second time. So the next prompt does show the line nobody answered, or shows it twice, and nothing in `transcript.ts` can tell;
`PromptFaithful` says that this, and a line met with silence, are the only cases. The transcript is the log at the positions that are
kept, in their order. A prompt takes its last hundred lines (`slice(-100)` in the orchestrator); the model has calls of fewer lines.

### VoiceCall

| State | Code |
|---|---|
| `speech` | every line given to the framework, in order: its kind, turn, whether it may be cut, where it is, what was heard |
| `open`, `turns`, `reports`, `metered`, `stalls` | `SegmentLedger` and what it has reported |
| `audio` | lines whose synthesis metrics have come |
| `streams` | the frames a turn is still to read, and whether it is read at all |
| `agentListening`, `userListening`, `armed`, `probes`, `nudges`, `spoke` | the silence clock |
| `endRequested`, `waiting`, `drained`, `room` | `endCall`, its wait for tracked speeches, and the room |

Its environment is the framework (plays one speech at a time; synthesises, stalls, cuts, closes the session at
any point), the borrower (speaks over anything, mumbles) and the server (answers a turn by one of `Answers`, a set
of frame sequences, or refuses it). Actions are grouped as who takes them: `Plays`, `Streams`, `Ends`, `Asks`
and the borrower's. Metrics of a line and its item may come in either order. The hang-up is one try: when deleting the room fails,
`agent.ts:155` logs it and never tries again, and the room is "kept" (`HangUp`). The two requests before it have no timeout of their
own; the model has each settle, as Node's `fetch` gives up on a silent server after five minutes.

### Fleet

`job`, `admitting` and `abandoned` are the worker's admission control; `call`, `age` and `seen` the rows the sweeper's
query reads; `batch` and `asked` where a sweeper is between its query, the question to the media plane
and the hang-up, which are separate steps. Time is counted in heartbeats. Beats may be lost,
a launch may be lost or come after the worker has stopped to wait, the media plane may not answer; other
servers' sweeps and a hang-up by signal are `Closed`, which leaves a turn under way as it is. A turn is claimed while the call is
open (`TurnClaims`) and committed later (`TurnCommits`), whatever has become of the call by then: if it overrides, a call that has
ended, or was swept, is "revised". The names that `VoiceCall` has too are prefixed (`FleetInit`,
`FleetNext`, `FleetSpec`), because one module proves things about both; so are those of `Borrower` (`BInit`, `BNext`, `BSpec`).

### Outbox and JobLedger

A row is its status, `payload.retry_count`, and whether its time (`available_at`, or
`claimed_at` plus the lease) has come; `BackoffOver` and `LeaseOver` let time pass. `work[s][j]` is
what server `s` does about job `j` and the count it claimed it with, which is the count the code
writes back. A failure and the statement that records it are two steps, a finished job one
(`processJobTx` is a transaction). A server lost, or a failure that cannot be written, drops the
whole batch; a restarted server is the same server with nothing in hand. `Poison` jobs kill the
server that works on them.

`JobLedger` knows no server: a job is absent, open, done or failed, is tried at most so many times,
and has its results written once. `Outbox` maps to it by `stageBar` (PENDING and CLAIMED are both open), the number
of starts and the number of writes (`Ledger == INSTANCE JobLedger WITH ...`); claims, leases, losses and
reclaims are stutters. TLC checks the property `Implements`, and `ImplementsLedger` proves it.

`Timely` is an assumption, not code: that no live server holds a job for `CLAIM_LEASE_MS`. The
comment at `repos/scheduling.ts:10` gives it as the reason for the five minutes. A batch of
twenty jobs is stamped at once and worked on four at a time, so it is an assumption about how
slow the judge may be; the run and the theorems are about the system where it is true.

### Scheduling

`startCall` is a transaction, but what it checks is in several tables and only the borrower row is
locked; every other read sees what has been committed by then. So it is modelled statement by
statement: `StartLock` (the lock and the borrower's status), `StartRead` (the contact point),
`StartCheck` (attempts, open conversations, callbacks, local time, and the answer of
`evaluatePreCall`), then the inserts and the commit. The reads of `StartCheck` are one step because
only the end of a call can fall between them, and while a call is open the start is refused
whatever the other reads say.

| State | Code |
|---|---|
| `borrower` | `borrowers.opt_out_status`; validity and consent of her one contact point |
| `lock` | the `FOR UPDATE` of `lockBorrower` |
| `calls` | `conversations` with their attempts: status, origin, workflow. `HUNG_UP`: ended by a signal with a turn still claimed; `OVERRULED`: open in a workflow that an earlier call has ended |
| `actions` | `scheduled_actions`: status, type, workflow, `retry_count`, the channel in the payload, and whether `scheduled_for` or the lease has come |
| `workflow` | `workflow_executions.status`; the workflows of one loan and type are one member of `Kinds`, of which a start takes the open one or inserts another (`Opened`) |
| `caller` | per loop: the batch `claimDue` returned (`seen`: as it was then) and where it is with one of its actions; per request: where it is |
| `faults` | counts crashes, failed transactions, leases outlived and turns late to commit, up to `MaxFaults` |

| Action | Code |
|---|---|
| `TimeComes`, `LeaseOver` | time passes |
| `ClaimDue` | `claimDue` of `repos/scheduling.ts`: due PENDING rows, and CLAIMED rows whose lease is over |
| `Followup`, `Unplaceable` | `prepare` for a human follow-up; a voice call without a trunk |
| `StartLock`, `StartRead`, `StartCheck` | `startCall` up to its decision, by a loop or by an operator |
| `StartByHand`, `RefuseByHand` | its commit or its refusal for an operator |
| `StartByAction`, `RefuseAction`, `StartFails` | the same within `prepare`: the call, a retry the next morning, a cancellation |
| `OptOut`, `OptOutNumber`, `WrongNumber`, `CallbackScheduled`, `Redial`, `ToHuman`, `Settled` | what a call's end does to the borrower, her actions and the workflow; of them `OptOut`, `WrongNumber` and `ToHuman` also a second time (`EndsAgain`), when the turn that was late to commit overrides |
| `ActionDispatched`, `SessionDispatched`, `SessionFails` | the dispatch of an agent or a dial, after the commit, and the clean-up of `VoiceSessions` |
| `Fails`, `Reschedule` | the error branch of `runOnce`: the action is put off by id |
| `Crash` | the process is lost with what it had in hand; its locks go |

A call that ended twice is the finding of `outcome_overwritten` from the outside: an operator may have placed a second call in the workflow
between the two ends, and the late one completes the workflow under it (`setWorkflowStatus` asks for nothing). `OpenCallsRun`
therefore says that the workflow of an open call runs unless it was overruled so; the borrower is on the line of one call only, in
either case (`OneCallAtATime`).

Abstracted: one borrower with one number; one frequency window (attempts do not age out of it);
an agent's or a person's part in a call, of which the outcome is left; nothing tells retry counts
apart beyond the bound of retries, so they stop there; the origin of an ended call is forgotten; a
new row has the next unused id.

### Telemetry

`pending` is the map of turns half known, oldest first and at most `MaxPending` long; the parts of a turn (the
generation, the record with its superseded flag, the voice latency) come in any order and are exported together when
the last one is there, when the turn is evicted, or when its call is released (`Emit`); of each that waits `ahead` says which
came before it. `lostTurns` and `lostScores` are histories: what was in a memory that a crash emptied. Recorders of scores
write statement by statement, mirror what they wrote from the buffer they share (`FlushScores`, `Answer` with the
scores Langfuse refused), and commit (`Return`), before the mirror or, inside a job, after it. A
restart empties both halves of the memory; a clean one exports the spans first.

### LoadRun, Sampler, Borrower

`LoadRun` is tier 1 (typed turns, closed loop or soak) and tier 2 (voice calls placed by a forked child) in one
module, by `mode`: gates, the reference call, minting in batches, the wait for the backlog, the load, the sampler's
report, a verdict for each call against the reference, the exit code. Of a voice call that was served it keeps how many lines were scored
and how many of them lost words (`Hearings`): the gate on words is a percentile over all those lines together, not over calls. Turns
the harness gave up on are still committed by
the server (`Commit`). `Sampler`, which it extends, has processes that come, work and go between ticks, a second loop
over the containers, the marks of the load, and CPU charged to a role by the counters of the pids it saw.
`Borrower` counts time in audio frames: the agent's stretches, the live onset detector, the script's lines, transcripts
that come late, and after the call the post-hoc detector and the joins by time, across a clock skew.

### The rule modules

Each operator has the name of its function. Data are reduced to what a rule tells apart: a text is a sequence of
words and marks (`Utterances`, `Transcripts`) or of classified blocks (`Disclosure`), a stream is a sequence of chunks
of fragments (`ModelStream`), a time is a count of half hours in a zone that may shift once (`Policies`). Where a
parser would scan digits, the words carry their value and the enumerations (`Figures`, `IsoDates`) say which values are
looked at. They use RECURSIVE operators and folds freely, and no theorem is stated about them.

## Runs

All runs pass, except `outcome_overwritten`, which ends in the violation it is there to show.

| Run | Instance | Shows |
|---|---|---|
| `dialogue` | four turns, one server, all four kinds of call, words that override everything, two amounts | `RowMatchesLedger`: replaying the log gives the row. `ProtectedStatesUnlocked`: nothing of the account before the right party confirmed. `PromiseWasHeard`: a promise was read back as recorded, and heard. `ImplementsPath`: the row goes along `CallPath` |
| `races` | two turns with all special words, two server lifetimes that do not overlap, kills and failed commits | `StateStableWhileDeciding`, `OneTruthPerTurn`: who holds a claim is alone, and a turn is answered once. `BooksMatchOutcome`, `TurnOutcomeFinal`: the books end as the call did. `Inv`, the invariant of the proofs |
| `outbox` | two servers, a poison job and a plain one, budget 3, two further losses, fairness | `OutboxInv`, `Implements` (the job ledger), `EverySettles`; and the assumptions of `MCBoundaries` |
| `redial` | two loops, one of them without a trunk, one operator, three calls, two workflows of one loan, a cap of two, one retry, one fault, fairness | `SchedulingInv`, `OneCallAtATime`, `CapRespected`, `NoCallAfterOptOut`, `ActionsSettle` |
| `turn_stream` | three requests over two turn ids, one delta, one fault, a shutdown, fairness | `RunnerInv`; `StreamFaithful`: who attaches, whenever, gets each frame once and in order; `ShutdownFreesSlot`; `EveryRequestAnswered` |
| `call_log` | three lines, a nudge, two reports, a shutdown, every kind of client and decider, a deploy | `AuditAgrees`, `HoldWatchesReadBack`: auditor and hold mean the read-back the guard armed; `PromptFaithful`: the transcript in the prompt is in order but for what a shutdown stranded, without the superseded, and shows the cut it is told of |
| `voice_call` | two turns, a probe, the borrower speaking twice, fairness | `HeardIsTrue`: what is reported heard was played with sound and not cut; `SegmentsAccounted`: each segment is reported once; `DeadlineAlways`: a quiet call has a timer running or a probe out; `EndingEnds`: a call the worker ends gets as far as the one try to hang up |
| `fleet` | two calls, one slot, one sweeper, one lost job, one turn under way, fairness | `CeilingHeld`; `ServedCallKept`; `ClosedOnce`: the outcome of a closed call is replaced by nobody but the turn claimed before it closed, once; `DeadCallSwept` |
| `load_run` | three modes, none or two calls of two turns, three ticks, two processes and a container | `PassIsTrue`: exit 0 means that every call ended right and at most one scored line in twenty lost words; `CpuAttributed`: CPU is charged to who used it; `RunEnds` |
| `borrower` | two lines, two stretches of agent audio, clocks that agree or are a frame apart, seven frames | `LinesAccounted`: every line of a call that did not fail is measured or listed as unanswered, and of one that failed all but the last; `JoinsOwnTurn`, `TruthIsOwn`: a measure is joined to its own turn, a report to its own stretch |
| `telemetry` | three turns and a map of two, a job and an operator writing scores, two restarts | `SpansOnce`: a decided turn is exported once, and whole while it can be; `ScoresAccounted`: a committed score is mirrored, buffered, counted as a problem, or was in the memory a stop lost; and the assumptions of `MCMeasures` and `MCRules` |
| `outcome_overwritten` | one turn of a phone call with override words | `OutcomeFinal` is violated, see below |

Bounds, and why they are enough. Four turns are the shortest call that confirms the party, proposes,
is refused the recording and records it; words that override everything end it wherever it is, or amend what a signal left; two turns and a signal are enough for every race, since
a claim is held by one turn and taken by one other. A budget of three with two losses reaches
every way the charges can mix. Three calls and a cap of two let the cap, an open call and an opt-out
each refuse a start; two actions and two loops let an action be claimed twice and a callback
stand beside a retry; one fault is enough for a lease to be outlived by its holder, for a crash
between `prepare` and dispatch, for a failed write, or for a turn that commits after its call was ended and another was placed. Two
workflows of one loan let a start find the open one or insert another. Three requests over two turn ids let one create,
one attach at any moment and one supersede. In `call_log` three lines are a read-back, a refusal that repeats it
and a recording, or a line stranded by the one shutdown, sent again, and the next. A served voice call has one scored line or nineteen, at most one
of them bad: two such calls are twenty lines, of which one may be, and tell the rule over lines from one over calls. In `fleet` two calls for one slot make the second wait, and one turn under way can
commit on either side of the close; the three beats between `Staleness` and `Unconfirmed`
separate the two windows. In `voice_call` two turns let a reply be cut by the next. Three ticks give the
sampler a base, a load and an end. A line of the borrower is longer than the grace and the clocks' difference together (`SpeakEnds`: seconds
of audio against 250 ms), so two lines and the turn of the second just fit into seven frames of `borrower.cfg`, as do two stretches of the
agent and their late reports. Turn ids, lifetimes and amounts are interchangeable, so the safety
runs of `Conversation` use symmetry; the runs with liveness properties do not.
Beside its turns a call of `call_log.cfg` has at most three of the nudge, the two reports and the shutdown (the CONSTRAINT `ThreeAsides`).
`telemetry.cfg` has a CONSTRAINT,
`OneHalfMoves`: spans and scores share nothing but the memory a restart empties, and each property reads one half, so
beside one half the other need not move. Deadlock is not checked, because calls end, servers go down and jobs settle.

By hand, and larger than a run: `races.cfg` with `Turns = {t1, t2, t3}`, `Calls <- OnlySip`, `Says = {"plain"}`,
`Replicated = TRUE`, `Crashes = FALSE` passes `Inv` and `TurnOutcomeFinal` for servers that do overlap.

The rule modules' bounds: amounts are whole dollars and hours on the hour; texts are all sequences of the
vocabulary up to the length an assumption names; `Gate` has a window of two units and four buckets; streams have two
fragments to a call; a text to be masked has up to three of its eighteen blocks; a clock shifts once, at
two in the morning.

Fairness:

- `Outbox`: time passes, servers keep ticking (`Schedule.spaced`) and drain what they claimed, and a poison job does kill.
- `Scheduling`: time passes and the loops tick in the same way; a loop goes through what it claimed and dispatches
  it (its wait for the borrower row is strongly fair, because PostgreSQL serves those who wait for a row lock in turn), and
  a request that has begun to start a call gets to its end. Nothing says that a call ends or that an operator starts one.
- `TurnRunner`: the runtime goes on scheduling every fibre and every waiting request. No client has to come or stay.
- `VoiceCall`: `WF_vars(Next)` only, the least there is. `EndingEnds` holds without anybody in particular
  being prompt, as every step of an ending call brings it nearer to the hang-up. That the hang-up works is not assumed.
- `Fleet`: time passes and sweepers sweep; the media plane may never answer again.
- `LoadRun`: timeouts and timers fire and the harness goes on. `RunEnds` assumes in so many words
  that the child is heard of (`ChildIsHeard`), which the code does not ensure (below).

## Where the code and what is said of it disagree

One run of the project ends in a violation: `outcome_overwritten` (`OutcomeFinal`). T2 of a turn with override
words finalizes again a call that a signal has ended meanwhile (`services/Orchestrator.ts:344`), though
`domain/stateMachine.ts:89` says "Terminal states admit nothing."

The other statements below are defined in the modules under the names given. They are not runs; each is
reproduced by putting it in the place of the properties of the cfg named.

| Statement | Instance | What the code does |
|---|---|---|
| PROPERTY `SupersededIsOver` (`Orchestrator.ts:156`) | `races.cfg` | the hold branch writes DONE over SUPERSEDED |
| INVARIANT `HoldsAnswered` (`Orchestrator.ts:223`): a second consecutive hold is answered | `races.cfg` | the first hold's disposition is read before it is written |
| INVARIANT `OneLinePerTurn` (`Orchestrator.ts:154`): a re-send never appends the line twice | `races.cfg` | it does after a shutdown released the claim |
| INVARIANT `NoSilentLoss` (`http/TurnRunner.ts:79`): no claim is cleared under a run about to commit | `races.cfg` with the constants of overlapping servers given above | a server that only attached to the turn clears it |
| PROPERTY `NoCallToBlockedNumber` (`SPEC.md:1329`) | `wrong_number_dialled.cfg` | `startCall` reads the number before it counts open conversations, and the number is written without the borrower lock |
| PROPERTY `ClosedCallEnds` (`docs/adr/0002`: `end_call` becomes a hang-up) | `call_left_open.cfg` | a barge-in cancels the stream whose last frame is `end_call`; nothing else hangs up |
| INVARIANT `AuditNeverAlarms` (`domain/evaluation.ts:91`: `false` means the guard did not hold) | `call_log.cfg` | a recording refused by its schema counts as a repeated read-back, and a heard promise is flagged |
| INVARIANT `StallsCounted` (`voice-worker/src/segment-ledger.ts:41`) | `voice_call.cfg` | a turn whose every line stalled is closed without a note when its last line is delivered after its numbers |
| INVARIANT `FailedWriteClaimsNothing` (`services/Scores.ts:1`) | `telemetry.cfg` | EVALUATION and JUDGE flush to Langfuse inside the transaction that may still fail |
| INVARIANT `ReleasedAtEnd` (`Orchestrator.ts:601`: every path that ends a call releases its turns) | `telemetry.cfg` | a voice call ended by a turn never finalizes its trace; turns recorded after a signal's end stay |

Five further disagreements are steps of the models, and the properties say how far they go: a shutdown leaves a line in the prompt that
`domain/transcript.ts:66` means to keep out (`PromptFaithful`); the hang-up is tried once (`EndingEnds`); a late override ends a call again, after
a sweeper (`ClosedOnce`) or under a newer call of the workflow (`OpenCallsRun`); and a borrower's call that fails drops the reply it
waits for (`scripted-call.ts:632`), in neither list, against "Recorded rather than dropped" (`scripted-call.ts:344`), while the latencies
it had measured still count in the fleet's percentiles (`LinesAccounted`).

Rules whose comment and code part. Each is an assumption that states what the code does, named in brackets, or a remark
on the definition:

- **Tools and prompts.** `end_call` is offered in three states and `request_human` in one from which `ADJACENCY` has no such
  edge: the move is refused and the turn degrades (`OfferedButRefused`). The last failure of a model call is reported as a
  retry though none follows (`LastFailureIsNoRetry`); a truncated answer is taken for a whole one (`CutOffIsWhole`).
- **What was said.** "No, that's not right" to a read-back confirms it (`NotRightConfirms`, `scripted/decide.ts:109`); "call me
  again" alone is an opt-out (`CallMeAgainOptsOut`); "the day after tomorrow" is tomorrow (`DayAfterTomorrowIsTomorrow`);
  "the 31st" may be no date at all (`DayOfMonthMayBeNone`); yeah, right and ok are both answers and noises that are
  talked over, against `backchannel.ts:17` (`AnswersAmongNoises`).
- **Masking.** Part of an identifier after a money word stays (`PartOfAnIdentifierIsKept`), an amount among a tool call's
  arguments stays (`AmountOfACallIsKept`), and a share is masked as if it were money, since `%\b` needs a word after
  it (`ShareTakenForAmount`).
- **Limits and readiness.** The bucket that goes when the map is full is the first seen, not the oldest window
  (`FirstSeenIsForgotten`, `rateLimit.ts:8`); a probe that times out answers like one that fails (`ProbeTimeoutUnnamed`).
- **Memory, time and configuration.** Promises older than five calls are forgotten, and the prompt's count of calls stops at
  five (`MemoryOfEndedCalls`); a contact hour asked for at eight sharp is the next day's, against `time.ts:15` (`AtEightIsTomorrow`); blank
  LiveKit keys configure a media plane (`BlankKeysConfigure`); seeding cut short within a borrower is never made good
  (`CutShortStaysShort`).
- **Measures.** A stretch whose cut is unknown counts in the denominators it is said to be excluded from
  (`UnknownIsStillCounted`, `turnTaking.ts:70`); one cut may be both a yield and a false interruption (`CutBookedTwice`);
  the funnel can report more right parties than calls answered (`SilentRightParty`).
- **Harness.** A forked borrower killed by a signal, or exiting 0 without results, hangs the run
  (`fake-borrower-fleet.ts:166`; `RunEnds` assumes otherwise). A pid used twice within a load is charged to the wrong process
  (`PidReuse = TRUE` refutes `CpuAttributed`). A pause of just the hangover is one stretch to
  the live onset detector and two to the post-hoc one, which then reads the line's report as the second's (`MaxPause = Hangover`
  refutes `TruthIsOwn`). Transcripts split in two, or a latency of a line that became
  no turn, may be joined to another's turn (`Splits = TRUE`), and a report later than the hangover less the grace to the next stretch
  (a larger `MaxReportDelay` refutes `TruthIsOwn`).

## Proofs

All theorems hold for any sets of turns, servers, requests, amounts, calls, jobs and actions, with the assumptions the
modules name (SQL NULL is no turn, amount or outcome; flags are Boolean; the budget is
positive; the calls that can be counted against the cap are finitely many; loops and operators are
different callers; the sweeper's long window is not the shorter one; a load run plans a number of calls of a number of lines;
bounds are numbers; no rule of the sampler takes a command for another), for the outbox `Timely`, for three theorems of
`ConversationProofs` that server processes do not overlap, and for three of `HarnessProofs` with hypotheses given below.

`ConversationProofs` proves `Inv` inductive, one lemma per action. The properties alone are
not: `Inv` adds that

- strikes are below the limit while the call is open (`StrikesLeft`), for the strikes' type;
- under the model's decider a call never rests in `VERIFYING_IDENTITY` (`OnlyScriptedVerifies`) and an
  unlocked call never rests before the account states (`UnlockedForGood`), which with
  `AskedWhileOpen` excludes an account state without the unlock;
- a turn that settles the call gives back its claim in the same commit (`SettledReleased`), so no
  other turn's T2 can finalize again after it: `TurnOutcomeFinal`;
- the proposal on the row is the one read back last (`ReadBackIsLast`): `PromiseWasHeard`;
- nothing is scheduled while the call is open (`NothingPendingYet`): `BooksMatchOutcome`.

A second invariant, `TurnInv`, is about the claim: a run that has claimed its turn holds the slot or the ledger says it was
superseded (`HeldOrSuperseded`); who holds the slot has not been answered (`HolderUnanswered`); a superseded turn
is settled (`SupersededSettled`); and the state of an open call is the one its holder was asked in (`AskedInState`). With them go
`AnsweredOnce` (`OneTruthPerTurn`) and `AskedAndJudgedAlike` (`StateStableWhileDeciding`). Both need `~Replicated`: a run that is only attached to
its turn is stranded on a stopping server as if it had claimed it, and would give back a claim another server holds
(`NoSilentLoss` above).

`ImplementsCallPath` is the refinement. One lemma for each kind of commit says what it does to the five columns: nothing, one step
along an edge (`Moves`), a tool's step, an end, an end a second time; the actions are then instances of them. The guards
of `CallPath` come from the tables and the invariants: the state a tool works in from the eligibility table, the
state a move is taken from from `AskedInState`, an outcome that is only replaced where `Amend` allows it from
`SettledReleased`. It needs `~Replicated` for the moves: where servers overlap, a move the model
made of a state that another server's turn has since left may still be heard, and can enter `CONFIRMING_OUTCOME` with nothing on the
table.

`TurnRunnerProofs` proves `RunnerInv`, `StreamFaithful` and `ShutdownFreesSlot` inductive together. Three lemmas, one for each way a
fibre speaks (a frame, the end with its lasting frames, a refusal), show that the view of all clients is kept; they do not
depend on what the fibre does to the database, so each step of a fibre is one of them and a few facts about rows and slot.
`BufferExact` says what the buffer of an entry is in terms of what it has said, so what a late client
replays and what an early one has read are the same frames. `SlotOwned` (the slot belongs to a turn whose fibre runs, has
failed, or was stopped) gives the shutdown's theorem.

`CallLogProofs` proves `IInv` inductive, and the three properties from it. `Types`, `Phases` and `TurnsSoFar` say which turns the
log knows and what each has written; `Named` that a segment names one line of the log, old rows without segments included, and
`ReportedOnce` that a line is reported once. `Armed` is the heart: the proposal of the row is the reading of the last line that is
not to be interrupted, so that each search of the log, whichever end it starts from, comes to it. `Recorded` says what the log held when a promise was
recorded, which the auditor finds again because later entries are not looked at; `Answered` that a turn that stands and is over has an
answer, was met with silence, or was stranded by a shutdown. The transcript and the auditor are functions of log positions, so that
appending an entry is one lemma for each reader and not an induction.

`TelemetryProofs` proves `SpanInv` for the spans and `ScoreInv` for the scores. Spans: a turn is exported by the step that takes it from
the map, whichever step that is, and an eviction takes the first of the order `ahead` gives; so a turn recorded is waiting or
exported, never both. Scores: `WrittenKept` says that whatever a recorder has written in its run is at Langfuse, in memory, counted as a problem or lost, from
before it is committed; `SendersDone` that only who waits for an answer has a request under way, so that no flush overwrites one. The two halves share only the
restart, and a lemma for each kind of step is enough.

`WorkerProofs` is about the voice worker. For `VoiceCall` it proves `VoiceInv` inductive. The three properties need each other: a
report is true because only an open segment is reported and an open segment is not yet heard (`ReportsOnce`); a segment is reported once because a speech that is
over is never played again (`SpokenHasText`) and a turn has one reply (`LinesOfTurns`); and a line played to its end that was
reported unheard is one the end of the call did not wait for (`ReportsWaited`). The steps come in kinds: a step
does to the ledger one of four things (nothing, open, report, drain), and of the lines either one moves on or a new one is
given to the framework. A lemma for each kind shows what is kept, and each step is one of them. `ClockRuns` gives the deadline.

For `Fleet` the invariant has two halves. `WorkerInv`: a job awaited is among the admitted, and the union of admitted and
active jobs, which is what `inFlight` counts, is within the ceiling; a count that missed the overlap, or counted it twice, would not
be inductive. `SweeperInv`: whoever was told "absent" is at a call that has not been attended ever since. From them `CeilingNeverPassed`,
`ServedCallsKept` and `ClosedForGood`. In the last, a closed call changes
only by the commit of a turn claimed before, and none is claimed after.

`HarnessProofs` is about the test harness: whether what it says of a run or a call can be believed.

- *The verdict* (`PassesAreTrue`). `RunInv` is `LedgerInv` (the server has committed no more turns of a call than were posted, one
  less while the last is being decided) and `VerdictInv` (a call found correct was started, its ledger is the reference's, and it
  can change no more). The exit code is 0 only in `Finish`; that at most one scored line in twenty lost words, of all served calls
  together, is the arithmetic of `Rank` over the two sets of lines.
- *The CPU* (`CpuIsAttributed`). `SampleInv` says that clocks and counters in the series only grow, that the books agree with the
  series (`BooksInv`: what was seen of a process is its counter at the last tick that has it, and the base is that of the tick
  the load starts from), that a process is named once and rightly, and that the report was written when the series was what it
  is. The sums are the difficulty: `SumFunction` adds up in an order that CHOOSE picks. `AnyOrderAdds` shows that the order does not
  matter, by a least subset at which it would; from it come the few facts that are needed: a larger term makes a larger sum
  (a window within the load), kinds can be summed one by one (roles into a tree), and zeros may be left out
  (processes that no tick named). A busiest window exists because `Busier` is an order where no window has length zero. The
  hypothesis is that the system does not hand out a process id again during the run (`~PidReuse`); where it does, the run refutes the property.
- *The lines* (`LinesAreAccounted`). `ScriptInv`: each line is measured, unanswered or pending, and stands in one of the three
  lists once (`BookInv`), and transcript rows follow the lines (`WerInv`). Nothing is pending when the script ends; a failure
  gives no such promise.
- *The joins* (`ScoresJoinTheirTurns`). The join knows only times, of two clocks; `JoinInv` says where they lie: a turn begins after
  its line and before the next (`TimesInv`, `TurnsInv`), and a measurement is taken at its line's end (`MeasuresInv`). A measurement whose turn is there
  finds it first in its window, and no other takes it. The hypotheses are that lines become turns when they are spoken out (`~Splits`), and that the clocks
  are no further apart than the endpointing delay.
- *The playout truth* (`TruthIsOfTheLine`). `HeardInv` says where the frames of a line and its report lie (`SaidInv`, `LoudInv`,
  `PlayoutInv`). A stretch starts with a line because pauses are shorter than the hangover; the report found in its window
  is the line's own because reports come before the next stretch can begin, on clocks within a frame, the length of the shortest line.
  The three bounds are the hypotheses; a longer pause or a later report refutes the property.

`SchedulingProofs` proves `SchedulingInv` inductive, again with one lemma per action and conjunct
it can disturb. One call at a time does not follow from the check alone, since the check and the
insert are different statements. `LockHeld` (whoever is between the statements of `startCall` holds
the borrower row) and `ReadsHold` (what it has read as a refusal is recorded, and a condition that
refuses and was absent when read is still absent: only a start that holds the lock can make it
true) carry the reads to the insert, and give `OneCallAtOnce`, `CapHolds` and, with the lock on the
opt-out's write, `OptOutsHold`. `ClaimsHold` (until something goes wrong, the rows of a batch
are CLAIMED, not due, and in one loop's hands) is what the lease is for; the calls' safety does not need it. The ways a call ends, or ends again,
differ in what they do to the borrower and her actions; `EndFacts` says once what all of them do to the calls and the workflow, and
each is then an instance.

`OutboxProofs` proves `OutboxInv` inductive. The argument: a job in a live server's hands is
CLAIMED and not due, so nobody else can claim it (`OneOwner`); hence what the holder writes by id
is still true (`DoneOnce`); and every attempt begun is either charged to `retry_count` or is the one
in progress or abandoned (`ChargedForEach`), while an attempt is begun only below the budget
(`AttemptsBounded`). `ImplementsLedger` goes from it to the refinement: under the mapping, an enqueue, a begin, a finish
and a giving-up are the ledger's four actions, guarded as the ledger guards them because of `DoneOnce` and `AttemptsBounded`, and
every other step leaves the mapped variables alone; `Begun` (what a server works on or has failed at was begun)
is the one fact it needs beyond `OutboxInv`.

Model-checked only:

- liveness (`EverySettles`, `ActionsSettle`, `EveryRequestAnswered`, `EndingEnds`, `DeadCallSwept`, `RunEnds`): fairness and ENABLED are out
  of the prover's reach;
- everything in the rule modules, which use recursive operators.

By hand as well: with clean shutdowns only, a claim is always given back (`ClaimReleased`), on `races.cfg` with
`SPECIFICATION FairSpec`, `Calls <- OnlySimulated`, `Says = {"plain", "hold"}`, `Crashes = FALSE` and without its symmetry.

## Not modelled

- **Schemas and wording.** `contracts/src/api.ts` and most of `errors.ts` describe requests and responses; they keep no state, and
  what a refused schema leads to is in the models. The text of scripts and prompts is left out, except where a rule matches it.
- **Reads for the console.** Queries that list, page or format; of `Queries.ts` and `Quality.ts` the numbers are modelled
  (`Latency`, `Speech`, `Scorecard`), not the SQL that fetches their rows.
- **Console, deployment, migrations, database client.** Clients and carriers of the protocols above.
- **Lint rules** (`tools/oxlint`). They take no part in the running system.
- **Audio.** Recognition, synthesis, end-of-turn prediction and degraded sound are the environment of `VoiceCall` and `Borrower`.
- **Counters, gauges, profiler, table statistics, memory slopes, argument parsing, printed reports.** No decision reads them.
- **Most of configuration.** Which parts are turned on, and by which blanks, is in `Policies`; numbers and defaults are constants.

Left out of what is modelled, and what could be added: attempts that age out of the frequency window and several borrowers
(`Scheduling`); an entry of the turn runner that outlives `MAX_LIFETIME`; a timed outbox that would say for which speeds of the
judge `Timely` holds; sweeps over more silent calls than one batch holds, where the oldest are read again and again; an abstract
specification of a turn's stream that `TurnRunner` refines as `Conversation` refines `CallPath`.
