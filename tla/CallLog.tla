-------------------------------- MODULE CallLog --------------------------------
(***************************************************************************)
(* The event log of one call and its readers.  Conversation.tla says who may *)
(* write when; here the order of the rows is kept, because the readers go by *)
(* it: the fully-heard guard, the query behind the hold, the post-call       *)
(* auditor and the transcript each find "the read-back" or "the reply" in    *)
(* the log by a rule of their own.  A turn speaks in segments, and a client  *)
(* reports what was heard of each one (or, an older client, of the turn).    *)
(***************************************************************************)
EXTENDS Naturals, Sequences, FiniteSets, FiniteSetsExt, SequencesExt

CONSTANTS
    MaxTurns,    \* bound: borrower lines of the call, a turn sent again counted again
    MaxNudges,   \* bound: no-input nudges of the call
    MaxReports,  \* bound: playout reports of the call
    MaxReleases, \* bound: turns a shutdown of the server strands
    Deciders,    \* the deciders to explore, of "scripted" and "openai"
    Clients,     \* the clients to explore, see Clientele
    None         \* JSON undefined, SQL NULL

Turns == 1..MaxTurns
Opening == 0
(* The segment built from deltas is named by the turn; a say has its own id. *)
Implicit(t) == t
Minted(t) == MaxTurns + t
SegmentIds == 0..(2 * MaxTurns)

(* named: a voice worker. unnamed: a worker of before segment ids, on voice,  *)
(* or the scenario runner, simulated; both report a turn once.               *)
Clientele == [named : BOOLEAN, voice : BOOLEAN]
ASSUME Bounds == MaxTurns \in Nat /\ MaxNudges \in Nat /\ MaxReports \in Nat
                 /\ MaxReleases \in Nat
ASSUME Explored ==
    /\ Deciders \subseteq {"scripted", "openai"}
    /\ Clients \subseteq {c \in Clientele : c.named => c.voice}
    /\ None \notin SegmentIds /\ None \notin BOOLEAN
    /\ None \notin [turn : Turns, segment : SegmentIds]

VARIABLES
    decider, client,
    rows,        \* "old" while the rows are written by a server of before segment ids
    log,         \* conversation_events, in sequence_no order
    phase,       \* DISCUSSING_PAYMENT, CONFIRMING_OUTCOME or COMPLETED
    proposal,    \* pending_proposal: the turn and the segment that read it back
    active,      \* the turn between its T1 and its T2
    spoken,      \* segments the borrower's side has been given and not reported
    waited,      \* turns met with silence
    stranded,    \* turns whose claim a shutdown released
    nudges

vars == <<decider, client, rows, log, phase, proposal, active, spoken, waited, stranded, nudges>>

Of(type) == {i \in DOMAIN log : log[i].type = type}
Event(type, t) == [type |-> type, turn |-> t]
Segment(id, mode) == [id |-> id, mode |-> mode]

-----------------------------------------------------------------------------
(* segments.ts: what a turn said, and whether a report is about a segment.   *)
segmentsOf(e) ==
    IF e.segments # <<>> THEN e.segments
    ELSE IF e.turn = None THEN <<>> ELSE <<Segment(e.turn, e.mode)>>

playoutMatchesSegment(p, s) ==
    IF p.segment = None THEN p.turn = s.turn ELSE p.segment = s.segment

Reports(s) == {log[i] : i \in {j \in Of("AGENT_TURN_PLAYOUT") : playoutMatchesSegment(log[j], s)}}

(* ToolExecutor.ts: may the promise be recorded?                             *)
readBackVerdict(s) ==
    IF \E p \in Reports(s) : p.interrupted THEN "interrupted"
    ELSE IF (\E p \in Reports(s) : p.heard # None) \/ ~client.voice THEN "heard"
    ELSE "unconfirmed"

-----------------------------------------------------------------------------
(* repos/conversation.ts: the latest line the borrower had to hear that      *)
(* nobody has reported yet, which the next turn is held for.  The SQL joins  *)
(* each AGENT_TURN with its segments, or with one row of NULLs.              *)
SegmentRows ==
    UNION {LET e == log[i] IN
           IF e.segments = <<>> THEN {[seq |-> i, turn |-> e.turn, segment |-> e.turn, mode |-> e.mode]}
           ELSE {[seq |-> i, turn |-> e.turn, segment |-> s.id, mode |-> s.mode] : s \in ToSet(e.segments)}
           : i \in Of("AGENT_TURN")}
Unreported ==
    {r \in SegmentRows :
        /\ r.mode = "non_interruptible" /\ r.turn # Opening /\ r.segment # None
        /\ ~\E i \in Of("AGENT_TURN_PLAYOUT") :
              IF log[i].segment # None THEN log[i].segment = r.segment ELSE log[i].turn = r.turn}
OldestUnreported ==   \* mutant: ORDER BY sequence_no ASC
    IF Unreported = {} THEN None
    ELSE LET r == CHOOSE r \in Unreported : \A q \in Unreported : r.seq <= q.seq
         IN  [turn |-> r.turn, segment |-> r.segment]
unreportedNonInterruptible ==
    IF Unreported = {} THEN None
    ELSE LET r == CHOOSE r \in Unreported : \A q \in Unreported : r.seq >= q.seq
         IN  [turn |-> r.turn, segment |-> r.segment]

-----------------------------------------------------------------------------
(* evaluation.ts: the read-back a recorded promise rested on is the first    *)
(* agent line after the latest anchor before the record.                     *)
AnchorsOnProposal == Of("propose_promise_to_pay")   \* mutant: a repeated read-back is no anchor
readBackAnchors == Of("propose_promise_to_pay") \cup Of("TOOL_REJECTED")
readBackSegmentBefore(seq) ==
    LET anchors == {i \in readBackAnchors : i < seq}
        lines == {i \in Of("AGENT_TURN") : i < seq /\ \E a \in anchors : a = Max(anchors) /\ a < i}
    IN  IF lines = {} THEN None
        ELSE LET e == log[Min(lines)]
                 segments == segmentsOf(e)
                 firm == {k \in DOMAIN segments : segments[k].mode = "non_interruptible"}
                 readBack == IF firm = {} THEN 1 ELSE Min(firm)
             IN  IF e.turn = None THEN None ELSE [turn |-> e.turn, segment |-> segments[readBack].id]

ReportsBefore(seq) ==
    LET s == readBackSegmentBefore(seq) IN IF s = None THEN {} ELSE Reports(s)
evaluateCall ==
    LET promises == Of("record_promise_to_pay")
        checked == {i \in promises : ReportsBefore(i) # {}}
    IN  [promisesChecked |-> Cardinality(checked),
         promisesWithoutPlayout |-> Cardinality(promises \ checked),
         noPromiseWithoutReadback |->
             IF checked = {} THEN None
             ELSE \A i \in checked : \A p \in ReportsBefore(i) : ~p.interrupted]

-----------------------------------------------------------------------------
(* transcript.ts: the lines of the call, as the prompt wants them or whole,  *)
(* each at its sequence_no.  A line that was cut is replaced by what the     *)
(* borrower heard of it, part by part.                                       *)
WasSuperseded(t) == \E i \in Of("TURN_SUPERSEDED") : log[i].turn = t
PlayoutsOf(t) == {i \in Of("AGENT_TURN_PLAYOUT") : log[i].turn = t}
HeardParts(t) == [i \in {j \in PlayoutsOf(t) : log[j].heard # None} |-> log[i].heard]
Interrupted(t) == \E i \in PlayoutsOf(t) : log[i].interrupted
Entry(e) ==
    IF e.type = "USER_TURN_FINAL" THEN [speaker |-> "BORROWER", turn |-> e.turn]
    ELSE [speaker |-> "AGENT", turn |-> e.turn, interrupted |-> Interrupted(e.turn),
          heard |-> IF Interrupted(e.turn) THEN HeardParts(e.turn) ELSE <<>>]
TranscriptKeepingAll(excludeSuperseded) ==   \* mutant: the option is ignored
    [i \in Of("USER_TURN_FINAL") \cup Of("AGENT_TURN") |-> Entry(log[i])]
buildTranscript(excludeSuperseded) ==
    [i \in {j \in Of("USER_TURN_FINAL") : ~(excludeSuperseded /\ WasSuperseded(log[j].turn))}
           \cup Of("AGENT_TURN") |-> Entry(log[i])]

(* Orchestrator.ts: what the decider is told the borrower heard of the last  *)
(* line, None if it was not cut.                                             *)
heardFromLedger ==
    LET lines == {i \in Of("AGENT_TURN") : log[i].turn \notin {None, Opening}}
        cuts == {i \in Of("AGENT_TURN_PLAYOUT") :
                    lines # {} /\ log[i].turn = log[Max(lines)].turn /\ log[i].interrupted}
    IN  IF cuts = {} THEN None ELSE [turn |-> log[Max(cuts)].turn, text |-> log[Max(cuts)].heard]

-----------------------------------------------------------------------------
(* The writers.                                                              *)
AgentTurn(t, mode, segments) ==
    [type |-> "AGENT_TURN", turn |-> t, mode |-> mode, segments |-> segments]

(* The call once the right party is on the line; the opening was played.     *)
Init ==
    /\ decider \in Deciders /\ client \in Clients
    /\ rows \in {"old", "new"} /\ (rows = "old" => ~client.named)
    /\ log = <<AgentTurn(Opening, "non_interruptible", <<>>)>>
    /\ phase = "DISCUSSING_PAYMENT" /\ proposal = None /\ active = None
    /\ spoken = {} /\ waited = {} /\ stranded = {} /\ nudges = 0

Report(s, how) ==
    [type |-> "AGENT_TURN_PLAYOUT", turn |-> s.turn,
     segment |-> IF client.named THEN s.segment ELSE None,
     heard |-> IF how = "silent" THEN None ELSE s.segment,
     interrupted |-> how # "full"]
StillUnreported(s) ==
    {u \in spoken : IF client.named THEN u.segment # s.segment ELSE u.turn # s.turn}

(* A worker's playout signal, in any order with the other rows.              *)
Playout ==
    /\ client.voice
    /\ Cardinality(Of("AGENT_TURN_PLAYOUT")) < MaxReports
    /\ \E s \in spoken, how \in {"full", "cut", "silent"} :
        /\ log' = Append(log, Report(s, how))
        /\ spoken' = StillUnreported(s)
    /\ UNCHANGED <<decider, client, rows, phase, proposal, active, waited, stranded, nudges>>

(* What a turn that loses its claim may have been heard to say: its deltas.  *)
LeftSpoken ==
    {{}} \cup (IF active # None /\ decider = "openai"
              THEN {{[turn |-> active, segment |-> Implicit(active)]}} ELSE {})

(* The next turn, or one sent again whose row is still RUNNING: a shutdown   *)
(* released its claim and it was neither superseded nor settled since.       *)
Taken == {log[i].turn : i \in Of("USER_TURN_FINAL")}
IsNext(t) == t \notin Taken /\ (t = 1 \/ t - 1 \in Taken)
SentAgain(t) ==
    /\ t \in stranded \ (waited \cup {active})
    /\ ~WasSuperseded(t) /\ ~\E i \in Of("AGENT_TURN") : log[i].turn = t

(* T1. On voice it supersedes a turn in the way; a client without a signal   *)
(* reports with its request.                                                 *)
T1(t) ==
    /\ phase # "COMPLETED"
    /\ Cardinality(Of("USER_TURN_FINAL")) < MaxTurns
    /\ IsNext(t) \/ SentAgain(t)
    /\ active # None => client.voice
    /\ \E s \in {None} \cup spoken, how \in {"full", "cut", "silent"}, left \in LeftSpoken :
        /\ s # None => ~client.voice
        /\ s = None => how = "full"
        /\ log' = log \o (IF active = None THEN <<>> ELSE <<Event("TURN_SUPERSEDED", active)>>)
                      \o (IF s = None THEN <<>> ELSE <<Report(s, how)>>)
                      \o <<Event("USER_TURN_FINAL", t)>>
        /\ spoken' = (IF s = None THEN spoken ELSE StillUnreported(s)) \cup left
    /\ active' = t
    /\ UNCHANGED <<decider, client, rows, phase, proposal, waited, stranded, nudges>>

(* A request to hold: the turn is settled with no line of its own.           *)
Wait ==
    /\ active # None
    /\ waited' = waited \cup {active}
    /\ active' = None
    /\ UNCHANGED <<decider, client, rows, log, phase, proposal, spoken, stranded, nudges>>

(* T2: the tool's row, then the reply, of what was streamed and what is said. *)
Commit(tool, streamed, says) ==
    LET segments == (IF streamed THEN <<Segment(Implicit(active), "interruptible")>> ELSE <<>>) \o says
        mode == IF \E s \in ToSet(says) : s.mode = "non_interruptible"
                THEN "non_interruptible" ELSE "interruptible"
    IN  /\ active # None
        /\ log' = log \o tool
                      \o <<AgentTurn(active, mode, IF rows = "new" THEN segments ELSE <<>>)>>
        /\ spoken' = spoken \cup
              (IF rows = "new" THEN {[turn |-> active, segment |-> s.id] : s \in ToSet(segments)}
               ELSE {[turn |-> active, segment |-> active]})
        /\ active' = None
        /\ UNCHANGED <<decider, client, rows, waited, stranded, nudges>>

Say(mode) == <<Segment(Minted(active), mode)>>
ReadBackOf(t) == [turn |-> t, segment |-> IF rows = "new" THEN Minted(t) ELSE t]
Streams == IF decider = "openai" THEN BOOLEAN ELSE {FALSE}

(* A plain reply, or a fallback line the server says.                        *)
Reply ==
    /\ \/ Commit(<<>>, TRUE, <<>>)
       \/ Commit(<<>>, FALSE, Say("interruptible"))
    /\ UNCHANGED <<phase, proposal>>

Decline ==
    /\ phase = "CONFIRMING_OUTCOME"
    /\ Commit(<<>>, TRUE, <<>>)
    /\ phase' = "DISCUSSING_PAYMENT" /\ proposal' = None

Propose ==
    /\ phase = "DISCUSSING_PAYMENT"
    /\ \E streamed \in Streams :
          Commit(<<Event("propose_promise_to_pay", active)>>, streamed, Say("non_interruptible"))
    /\ phase' = "CONFIRMING_OUTCOME" /\ proposal' = ReadBackOf(active)

Record ==
    /\ phase = "CONFIRMING_OUTCOME" /\ proposal # None
    /\ readBackVerdict(proposal) = "heard"
    /\ \E streamed \in Streams :
          Commit(<<Event("record_promise_to_pay", active)>>, streamed, Say("non_interruptible"))
    /\ phase' = "COMPLETED" /\ proposal' = None

(* The guard refuses: the read-back is repeated and its new segment armed.   *)
Refuse ==
    /\ phase = "CONFIRMING_OUTCOME" /\ proposal # None
    /\ readBackVerdict(proposal) # "heard"
    /\ \E streamed \in Streams :
          Commit(<<Event("TOOL_REJECTED", active)>>, streamed, Say("non_interruptible"))
    /\ proposal' = ReadBackOf(active)
    /\ UNCHANGED phase

(* The schema or the state refuses the model's record_promise_to_pay (say,   *)
(* confirmed = false): the rejection is logged and nothing is re-armed.      *)
RecordInvalid ==
    /\ decider = "openai"
    /\ Commit(<<Event("TOOL_REJECTED", active)>>, TRUE, <<>>)
    /\ UNCHANGED <<phase, proposal>>

(* The silence clock: a line that belongs to no turn.                        *)
NoInput ==
    /\ phase # "COMPLETED" /\ nudges < MaxNudges
    /\ log' = Append(log, AgentTurn(None, "interruptible", <<>>))
    /\ nudges' = nudges + 1
    /\ UNCHANGED <<decider, client, rows, phase, proposal, active, spoken, waited, stranded>>

(* TurnRunner.ts: the server shuts down cleanly. The turn is interrupted and *)
(* its claim released, and nothing is appended: its line stays in the log    *)
(* with neither a reply nor a TURN_SUPERSEDED.                               *)
Release ==
    /\ active # None /\ active \notin stranded /\ Cardinality(stranded) < MaxReleases
    /\ \E left \in LeftSpoken : spoken' = spoken \cup left
    /\ stranded' = stranded \cup {active}
    /\ active' = None
    /\ UNCHANGED <<decider, client, rows, log, phase, proposal, waited, nudges>>

(* The server is replaced by one that names segments, in the middle of calls; *)
(* the old one released what it had claimed.                                 *)
Deploy ==
    /\ rows = "old" /\ active = None
    /\ rows' = "new"
    /\ UNCHANGED <<decider, client, log, phase, proposal, active, spoken, waited, stranded, nudges>>

Next ==
    \/ Playout \/ Wait \/ Reply \/ Decline \/ Propose \/ Record \/ Refuse \/ RecordInvalid
    \/ NoInput \/ Release \/ Deploy
    \/ \E t \in Turns : T1(t)

Spec == Init /\ [][Next]_vars

-----------------------------------------------------------------------------
(* Every variable keeps its type; a proposal is armed while it is confirmed. *)
TypeOK ==
    /\ phase \in {"DISCUSSING_PAYMENT", "CONFIRMING_OUTCOME", "COMPLETED"}
    /\ active \in Turns \cup {None}
    /\ spoken \subseteq [turn : Turns, segment : SegmentIds]
    /\ waited \cup stranded \subseteq Turns
    /\ proposal = None <=> phase # "CONFIRMING_OUTCOME"
    /\ proposal # None => proposal \in [turn : Turns, segment : SegmentIds]

(* evaluation.ts audits the fully-heard guard from the log alone, and "false *)
(* means the guard did not hold": with a decider whose arguments pass their  *)
(* schema it finds no fault with a promise the guard let through, and on a   *)
(* voice call it could check every one.                                      *)
AuditAgrees ==
    decider = "scripted" =>
        /\ evaluateCall.noPromiseWithoutReadback # FALSE
        /\ client.voice => evaluateCall.promisesWithoutPlayout = 0

(* The hold looks where the guard will look: while the armed read-back is    *)
(* unreported, the query returns that segment, whatever older read-backs,    *)
(* nudges or rows without segments the log holds; once it is reported the    *)
(* query returns no part of that reading.                                    *)
HoldWatchesReadBack ==
    proposal # None =>
        IF Reports(proposal) = {} THEN unreportedNonInterruptible = proposal
        ELSE unreportedNonInterruptible # proposal

(* A superseded turn leaves no orphan line in the prompt: it shows two       *)
(* borrower lines in a row only where the first was met with silence, or a   *)
(* shutdown released its turn (Orchestrator.ts:773), of which the log keeps  *)
(* the line and no mark transcript.ts could drop it by. And the cut the      *)
(* prompt tells the decider about is one its transcript shows, however       *)
(* turns, reports, nudges and shutdowns interleave. It is about calls whose  *)
(* transcript fits the hundred lines a prompt takes (ContextBuilder.ts).     *)
Follows(lines, i, j) == i < j /\ ~\E k \in DOMAIN lines : i < k /\ k < j
PromptInOrder(lines) ==
    \A i, j \in DOMAIN lines :
        Follows(lines, i, j) /\ lines[i].speaker = "BORROWER" /\ lines[j].speaker = "BORROWER" =>
            lines[i].turn \in waited \cup stranded
PromptShowsCut(lines, cut) ==
    cut # None /\ cut.text # None =>
        \E i \in DOMAIN lines :
            /\ lines[i].speaker = "AGENT" /\ lines[i].turn = cut.turn
            /\ lines[i].interrupted /\ \E k \in DOMAIN lines[i].heard : lines[i].heard[k] = cut.text
PromptFaithful ==
    active # None =>
        PromptInOrder(buildTranscript(TRUE)) /\ PromptShowsCut(buildTranscript(TRUE), heardFromLedger)

(* What evaluation.ts says of every decider: the turn the auditor finds is   *)
(* the turn the guard armed.                                                 *)
AuditNeverAlarms == evaluateCall.noPromiseWithoutReadback # FALSE
=============================================================================
