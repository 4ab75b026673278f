------------------------------ MODULE VoiceCall ------------------------------
(***************************************************************************)
(* One call in the voice worker: the lines it speaks, the ledger that turns *)
(* what was heard into playout reports, the silence clock, and the ways the *)
(* call ends.                                                              *)
(*                                                                         *)
(* A speech is a line given to the framework; they are played one at a      *)
(* time, in the order they were created, and a speech is named by its       *)
(* place in that order.  A segment has the name of the speech that says it. *)
(* The framework (speech queue, synthesis, barge-in, session close) and the *)
(* control plane (what a turn or a probe is answered) are the environment.  *)
(***************************************************************************)
EXTENDS Naturals, Sequences, FiniteSets

CONSTANTS
  MaxTurns,   \* a bound on the borrower's turns
  MaxProbes,  \* a bound on the probes the control plane answers
  MaxSpeaks,  \* a bound on how often the borrower starts to speak
  Answers     \* the frames a turn may be answered with, after its text

ASSUME Assumptions == MaxTurns \in Nat /\ MaxProbes \in Nat /\ MaxSpeaks \in Nat
Frames == {"soft", "firm", "turn_end", "hang_up", "error", "refused"}
ASSUME AnswersAssumption == Answers \subseteq Seq(Frames) \ {<<>>} /\ <<"refused">> \in Answers

TurnIds == 1..MaxTurns

VARIABLES
  phase,     \* "dialing", "talking", "voicemail" or "closed"
  speech,    \* every line given to the framework, in order
  audio,     \* the speeches whose tts_metrics have arrived
  open,      \* SegmentLedger.segments, in the order they were opened
  turns,     \* SegmentLedger.turns: what is noted of each open turn
  streams,   \* the frame stream of each turn, and the server's side of it
  over,      \* the control plane has given the call an outcome
  agentListening, userListening, armed, probes, nudges, spoke,
  endRequested, waiting, drained,
  room,      \* "open", "deleted", or "kept": deleting it was tried, and failed
  reports,   \* history: the playout reports, in order
  metered,   \* history: how often the numbers of a turn were reported
  stalls     \* history: the turns reported to the provider log as mute

ledger  == <<open, turns, reports, metered, stalls>>
silence == <<agentListening, userListening, armed, probes, nudges, spoke>>
ending  == <<endRequested, waiting, drained, room>>
vars == <<phase, speech, audio, streams, ledger, silence, ending, over>>

Speeches  == DOMAIN speech
Line(kind, t, soft) ==
  [kind |-> kind, turn |-> t, soft |-> soft, st |-> "queued", heard |-> "none"]
NoStream == [attached |-> FALSE, rest |-> <<>>, text |-> FALSE,
             answered |-> FALSE, late |-> FALSE, reply |-> 0]
NoTurn   == [open |-> FALSE, audio |-> FALSE, cut |-> FALSE]
Begun    == {t \in TurnIds : streams[t].reply # 0}
NextTurn == Cardinality(Begun) + 1

Init ==
  /\ phase = "dialing" /\ speech = <<>> /\ audio = {}
  /\ open = <<>> /\ turns = [t \in TurnIds |-> NoTurn]
  /\ streams = [t \in TurnIds |-> NoStream]
  /\ over = FALSE
  /\ agentListening = FALSE /\ userListening = TRUE /\ armed = FALSE
  /\ probes = 0 /\ nudges = 0 /\ spoke = 0
  /\ endRequested = FALSE /\ waiting = {} /\ drained = FALSE
  /\ room = "open" /\ reports = <<>>
  /\ metered = [t \in TurnIds |-> 0] /\ stalls = {}

-----------------------------------------------------------------------------
(* The silence clock: every caller means "restart". *)

Armed(ended, agent, user) == ~ended /\ agent /\ user

Note(agent, user) ==   \* noteAgentListening, noteUserListening
  /\ agentListening' = agent
  /\ userListening' = user
  /\ armed' = Armed(endRequested, agent, user)

-----------------------------------------------------------------------------
(* The segment ledger. *)

Place(i) == CHOOSE k \in DOMAIN open : open[k] = i
Without(i) ==   \* Map.delete
  [k \in 1..(Len(open) - 1) |-> IF k < Place(i) THEN open[k] ELSE open[k + 1]]

HeardAsItem(i, interrupted) == ~interrupted   \* mutant of Heard

\* A stalled synthesis arrives looking played in full: it is reported unheard.
Heard(i, interrupted) == ~interrupted /\ i \in audio

Report(i, full) == [segment |-> i, full |-> full]

\* close: the segment goes, and a turn still open notes that it was cut.
Closing(ts, i, full) ==
  LET t == speech[i].turn
  IN  IF ts[t].open /\ ~full THEN [ts EXCEPT ![t].cut = TRUE] ELSE ts

\* closeTurn, for every open turn of a set: its numbers go out, once.
CloseTurns(ts, set) ==
  LET closed == {t \in set : ts[t].open}
  IN  /\ turns' = [t \in TurnIds |-> IF t \in closed THEN NoTurn ELSE ts[t]]
      /\ metered' = [t \in TurnIds |->
                       metered[t] + (IF t \in closed THEN 1 ELSE 0)]
      /\ stalls' = stalls \cup {t \in closed : ~ts[t].audio /\ ~ts[t].cut}

\* deliver, by the id of the speech that is current when its item arrives.
Deliver(i, interrupted) ==
  IF \E k \in DOMAIN open : open[k] = i
    THEN LET full == Heard(i, interrupted)
         IN  /\ open' = Without(i)
             /\ turns' = Closing(turns, i, full)
             /\ reports' = Append(reports, Report(i, full))
             /\ UNCHANGED <<metered, stalls>>
    ELSE UNCHANGED ledger

BeginTurn(t) ==
  LET fresh == [turns EXCEPT ![t] = [NoTurn EXCEPT !.open = TRUE]]
  IN  CloseTurns(fresh, TurnIds \ {t}) /\ UNCHANGED <<open, reports>>

Opened(i) == open' = Append(open, i) /\ UNCHANGED <<turns, reports, metered, stalls>>

\* drain: what is still open was never heard, and every turn is closed.
Drain ==
  LET mute == [t \in TurnIds |->
                 IF turns[t].open /\ \E k \in DOMAIN open : speech[open[k]].turn = t
                   THEN [turns[t] EXCEPT !.cut = TRUE] ELSE turns[t]]
  IN  /\ open' = <<>>
      /\ reports' = reports \o [k \in DOMAIN open |-> Report(open[k], FALSE)]
      /\ CloseTurns(mute, TurnIds)

-----------------------------------------------------------------------------
(* How the call ends. *)

\* Only the lines of turns are tracked: the opening and the nudges are not.
Tracked == {i \in Speeches : speech[i].kind \in {"reply", "say", "fallback"}
                              /\ speech[i].st # "over"}

EndCall ==   \* idempotent
  /\ endRequested' = TRUE
  /\ armed' = FALSE
  /\ waiting' = IF endRequested THEN waiting ELSE Tracked
  /\ UNCHANGED <<drained, room, agentListening, userListening, probes, nudges, spoke>>

SettledAtOnce == TRUE   \* mutant of Settled
Settled == \A i \in waiting : speech[i].st = "over"   \* Promise.allSettled

EndDrains ==   \* then the last reports,
  /\ endRequested /\ ~drained /\ Settled
  /\ drained' = TRUE
  /\ Drain
  /\ UNCHANGED <<phase, speech, audio, streams, silence, endRequested, waiting,
                 room, over>>

\* Deleting the room is tried once: a failure is swallowed with the call marked as
\* hung up, and the call goes on.
HangUp ==
  \/ room' = "deleted" /\ phase' = "closed"
  \/ room' = "kept" /\ phase' = phase

EndHangsUpTalking ==   \* mutant of EndHangsUp: left to the session's close
  /\ phase = "talking" /\ drained /\ room = "open"
  /\ HangUp
  /\ UNCHANGED <<speech, audio, streams, ledger, silence, endRequested, waiting,
                 drained, over>>

EndHangsUp ==   \* and then the room
  /\ drained /\ room = "open"
  /\ HangUp
  /\ UNCHANGED <<speech, audio, streams, ledger, silence, endRequested, waiting,
                 drained, over>>

-----------------------------------------------------------------------------
(* Dialling, and the lines the framework plays. *)

Say(kind, t, soft) == speech' = Append(speech, Line(kind, t, soft))

Answered(machine) ==
  /\ phase = "dialing" /\ room = "open"
  /\ IF machine
       THEN phase' = "voicemail" /\ Say("voicemail", 0, FALSE)
       ELSE phase' = "talking" /\ Say("opening", 0, FALSE)
  /\ UNCHANGED <<audio, streams, ledger, silence, ending, over>>

DialFails ==   \* the no_answer signal, then the room
  /\ phase = "dialing" /\ room = "open"
  /\ HangUp
  /\ over' = TRUE
  /\ UNCHANGED <<speech, audio, streams, ledger, silence, endRequested, waiting,
                 drained>>

VoicemailLeft ==
  /\ phase = "voicemail" /\ room = "open" /\ speech[1].st = "over"
  /\ HangUp
  /\ UNCHANGED <<speech, audio, streams, ledger, silence, endRequested, waiting,
                 drained, over>>

IsNext(i)  == \A j \in 1..(i - 1) : speech[j].st = "over"
HasText(i) == IF speech[i].kind = "reply" THEN streams[speech[i].turn].text ELSE TRUE
Complete(i) ==   \* the text of the line is all there
  IF speech[i].kind = "reply" THEN ~streams[speech[i].turn].attached ELSE TRUE

\* tts_metrics reach the ledger: of the segment that is open, and of its turn.
Synthesised(i) ==
  /\ audio' = audio \cup {i}
  /\ LET t == speech[i].turn
     IN  turns' = IF t # 0 /\ turns[t].open /\ \E k \in DOMAIN open : open[k] = i
                    THEN [turns EXCEPT ![t].audio = TRUE] ELSE turns

\* A line that is all there is synthesised as it starts, or stalls; a reply
\* when its text is complete, which may be while an earlier line plays.  Of a
\* line that belongs to no turn nothing is recorded, so it always speaks.
SpeechStarts(i, voiced) ==
  /\ i \in Speeches /\ speech[i].st = "queued" /\ IsNext(i) /\ HasText(i)
  /\ IF speech[i].turn = 0 THEN voiced ELSE voiced => Complete(i)
  /\ speech' = [speech EXCEPT ![i].st = "speaking"]
  /\ IF voiced THEN Synthesised(i) ELSE UNCHANGED <<audio, turns>>
  /\ Note(FALSE, userListening)
  /\ UNCHANGED <<phase, streams, open, reports, metered, stalls, probes, nudges, spoke,
                 ending, over>>

ReplySynthesised(i) ==
  /\ i \in Speeches \ audio /\ speech[i].kind = "reply"
  /\ speech[i].st # "over" /\ HasText(i) /\ Complete(i)
  /\ Synthesised(i)
  /\ UNCHANGED <<phase, speech, streams, open, reports, metered, stalls, silence,
                 ending, over>>

\* With nothing left to say the agent listens again, which restarts the clock.
Over(i, heard) ==
  /\ speech' = [speech EXCEPT ![i].st = "over", ![i].heard = heard]
  /\ Note(\A j \in Speeches \ {i} : speech[j].st = "over", userListening)

SpeechPlayed(i) ==
  /\ i \in Speeches /\ speech[i].st = "speaking" /\ Complete(i)
  /\ Over(i, IF i \in audio THEN "full" ELSE "stalled")
  /\ Deliver(i, FALSE)
  /\ UNCHANGED <<phase, audio, streams, probes, nudges, spoke, ending, over>>

ReplyEmpty(i) ==   \* a turn that streamed no text: no item, no segment
  /\ i \in Speeches /\ speech[i].st = "queued" /\ IsNext(i)
  /\ ~HasText(i) /\ Complete(i)
  /\ Over(i, "none")
  /\ UNCHANGED <<phase, audio, streams, ledger, probes, nudges, spoke, ending, over>>

Cancelled(t) == [streams EXCEPT ![t].attached = FALSE, ![t].rest = <<>>]

\* The borrower talks over a line that allows it.  The stream behind a reply is
\* cancelled; an item is delivered only if something had been heard.
BargeIn(i, item) ==
  /\ i \in Speeches /\ speech[i].soft /\ ~userListening
  /\ speech[i].turn = 0 => item
  /\ speech[i].st = "speaking" \/ (speech[i].kind = "reply" /\ ~item /\ IsNext(i)
                                     /\ speech[i].st = "queued")
  /\ Over(i, "cut")
  /\ streams' = IF speech[i].kind = "reply" THEN Cancelled(speech[i].turn) ELSE streams
  /\ IF item THEN Deliver(i, TRUE) ELSE UNCHANGED ledger
  /\ UNCHANGED <<phase, audio, probes, nudges, spoke, ending, over>>

-----------------------------------------------------------------------------
(* The borrower, and what a turn is answered. *)

UserSpeaks ==
  /\ phase = "talking" /\ userListening /\ spoke < MaxSpeaks
  /\ Note(agentListening, FALSE)
  /\ spoke' = spoke + 1
  /\ UNCHANGED <<phase, speech, audio, streams, ledger, probes, nudges, ending, over>>

UserMumbles ==   \* nothing that commits a turn
  /\ phase = "talking" /\ ~userListening
  /\ Note(agentListening, TRUE)
  /\ UNCHANGED <<phase, speech, audio, streams, ledger, probes, nudges, spoke, ending, over>>

\* A committed turn: the framework creates its reply and calls llmNode.  A turn
\* still being decided is superseded, unless the call is over: then it is the
\* new turn that is refused.
Turn(t) ==
  /\ phase = "talking" /\ ~userListening
  /\ t \in TurnIds /\ t = NextTurn
  /\ Say("reply", t, TRUE)
  /\ streams' = [u \in TurnIds |->
       IF u = t THEN [NoStream EXCEPT !.attached = TRUE, !.late = over, !.reply = Len(speech) + 1]
       ELSE IF u \in Begun /\ ~streams[u].answered /\ ~over
         THEN [streams[u] EXCEPT !.answered = TRUE,
                 !.rest = IF streams[u].attached THEN @ \o <<"superseded">> ELSE @]
       ELSE streams[u]]
  /\ BeginTurn(t)
  /\ Note(FALSE, TRUE)
  /\ UNCHANGED <<phase, audio, probes, nudges, spoke, ending, over>>

\* The server decides a turn whether or not anybody is still reading.
Reads(t, fs) == IF streams[t].attached THEN streams[t].rest \o fs ELSE <<>>

TakeDelta(t) ==   \* the reply's own segment opens with its first words
  /\ t \in Begun /\ ~streams[t].answered /\ ~streams[t].text /\ ~streams[t].late
  /\ streams[t].attached
  /\ streams' = [streams EXCEPT ![t].text = TRUE]
  /\ Opened(streams[t].reply)
  /\ UNCHANGED <<phase, speech, audio, silence, ending, over>>

Closes(fs) == fs[Len(fs)] = "hang_up"

\* A turn whose T1 came first is committed also when the call has ended since.
ServerAnswers(t, fs) ==
  /\ t \in Begun /\ ~streams[t].answered
  /\ streams[t].late => fs = <<"refused">>
  /\ streams' = [streams EXCEPT ![t].answered = TRUE, ![t].rest = Reads(t, fs)]
  /\ over' = (over \/ Closes(fs))
  /\ UNCHANGED <<phase, speech, audio, ledger, silence, ending>>

\* streamFrames: one frame of an attached stream, and what llmNode does with it.
Take(t) ==
  /\ t \in Begun /\ streams[t].attached /\ streams[t].rest # <<>>
  /\ streams' = [streams EXCEPT ![t].rest = Tail(@), ![t].attached = Tail(streams[t].rest) # <<>>]

Frame(t) == Head(streams[t].rest)

TakeSay(t) ==
  /\ Take(t) /\ Frame(t) \in {"soft", "firm", "error"}
  /\ IF Frame(t) = "error" THEN Say("fallback", t, TRUE)
                           ELSE Say("say", t, Frame(t) = "soft")
  /\ Opened(Len(speech) + 1)
  /\ UNCHANGED <<phase, audio, silence, ending, over>>

TakeRefusal(t) ==   \* a 409, or the connection: the stream fails, and nothing is said
  /\ Take(t) /\ Frame(t) = "refused"
  /\ UNCHANGED <<phase, speech, audio, ledger, silence, ending, over>>

TakeEnd(t) ==   \* turn_end may bring a new window, which restarts the clock
  /\ Take(t) /\ Frame(t) \in {"turn_end", "superseded"}
  /\ Note(agentListening, userListening)
  /\ UNCHANGED <<phase, speech, audio, ledger, probes, nudges, spoke, ending, over>>

TakeHangUp(t) ==
  /\ Take(t) /\ Frame(t) = "hang_up"
  /\ EndCall
  /\ UNCHANGED <<phase, speech, audio, ledger, over>>

-----------------------------------------------------------------------------
(* onSilence: the probe is a request, and its answer a line. *)

ClockFires ==
  /\ armed /\ nudges + probes < MaxProbes /\ phase = "talking"
  /\ armed' = FALSE
  /\ probes' = probes + 1
  /\ UNCHANGED <<phase, speech, audio, streams, ledger, agentListening, userListening,
                 nudges, spoke, ending, over>>

ProbeAnswered(closes) ==   \* the second strike closes the call
  /\ probes > 0 /\ phase = "talking" /\ ~over
  /\ probes' = probes - 1
  /\ nudges' = nudges + 1
  /\ over' = closes
  /\ IF closes THEN Say("last", 0, FALSE) ELSE Say("nudge", 0, TRUE)
  /\ UNCHANGED <<phase, audio, streams, ledger, agentListening, userListening, armed,
                 spoke, ending>>

ProbeFailsQuietly ==   \* mutant of ProbeFails: not re-armed
  /\ probes > 0 /\ phase = "talking"
  /\ probes' = probes - 1
  /\ UNCHANGED <<phase, speech, audio, streams, ledger, agentListening, userListening,
                 armed, nudges, spoke, ending, over>>

ProbeFails ==   \* refused once the call is over, or the network: re-armed
  /\ probes > 0 /\ phase = "talking"
  /\ probes' = probes - 1
  /\ armed' = Armed(endRequested, agentListening, userListening)
  /\ UNCHANGED <<phase, speech, audio, streams, ledger, agentListening, userListening,
                 nudges, spoke, ending, over>>

LastLinePlayed(i) ==
  /\ i \in Speeches /\ speech[i].kind = "last" /\ speech[i].st = "over"
  /\ phase = "talking" /\ ~endRequested
  /\ EndCall
  /\ UNCHANGED <<phase, speech, audio, streams, ledger, over>>

\* The session closes under the call (a hang-up, a lost room): lines still to
\* be played are resolved without an item.
SessionCloses ==
  /\ phase \in {"talking", "voicemail"}
  /\ phase' = "closed"
  /\ speech' = [i \in Speeches |->
                  IF speech[i].st = "over" THEN speech[i]
                  ELSE [speech[i] EXCEPT !.st = "over", !.heard = "dropped"]]
  /\ streams' = [t \in TurnIds |-> [streams[t] EXCEPT !.attached = FALSE, !.rest = <<>>]]
  /\ armed' = FALSE
  /\ IF endRequested \/ room # "open"
       THEN UNCHANGED <<room, ledger, over>>
       ELSE /\ room' \in {"deleted", "kept"} /\ over' = TRUE
            /\ CloseTurns(turns, TurnIds)
            /\ UNCHANGED <<open, reports>>
  /\ UNCHANGED <<audio, agentListening, userListening, probes, nudges, spoke,
                 endRequested, waiting, drained>>

Plays == \E i \in Speeches :
           \/ \E voiced \in BOOLEAN : SpeechStarts(i, voiced)
           \/ ReplySynthesised(i) \/ SpeechPlayed(i) \/ ReplyEmpty(i)
Streams == \E t \in TurnIds : \/ \E fs \in Answers : ServerAnswers(t, fs)
                              \/ TakeSay(t) \/ TakeRefusal(t) \/ TakeEnd(t) \/ TakeHangUp(t)
Asks    == ClockFires \/ ProbeFails \/ \E closes \in BOOLEAN : ProbeAnswered(closes)
Ends    == EndDrains \/ EndHangsUp \/ \E i \in Speeches : LastLinePlayed(i)

InCall ==
  \/ Plays \/ Streams \/ Ends \/ Asks
  \/ \E machine \in BOOLEAN : Answered(machine)
  \/ DialFails \/ VoicemailLeft
  \/ \E i \in Speeches, item \in BOOLEAN : BargeIn(i, item)
  \/ UserSpeaks \/ UserMumbles
  \/ \E t \in TurnIds : Turn(t) \/ TakeDelta(t)
  \/ SessionCloses

Next == room # "deleted" /\ InCall   \* the job is over once the room is deleted

Spec == Init /\ [][Next]_vars

\* A step that can be taken is not put off for ever by everybody at once.
FairSpec == Spec /\ WF_vars(Next)

\* Each of them takes its own steps: the framework plays what it is given, the
\* server decides, the worker reads and ends, the clock fires and is answered.
DiligentSpec == Spec /\ WF_vars(Next /\ Plays) /\ WF_vars(Next /\ Streams)
                     /\ WF_vars(Next /\ Ends) /\ WF_vars(Next /\ Asks)

-----------------------------------------------------------------------------
(* Properties. *)

Segments == {i \in Speeches : /\ speech[i].kind \in {"reply", "say", "fallback"}
                              /\ HasText(i)}
ReportsOf(i) == {k \in DOMAIN reports : reports[k].segment = i}
IsOpen(i) == \E k \in DOMAIN open : open[k] = i

\* A segment is reported heard in full only if its own line was spoken to its
\* end: a stalled synthesis, whose item looks played in full, a line cut off, and
\* a line the end of the call left unspoken are not.  The guard on a promise
\* rests on this report (segment-ledger.ts deliver and drain).
HeardIsTrue ==
  \A k \in DOMAIN reports : reports[k].full => speech[reports[k].segment].heard = "full"

\* No report is lost and none is made twice, whatever order items, barge-ins and
\* the end of the call come in: a segment is open or has exactly one report, and
\* the lines a call waited for before it ended are reported as they were heard
\* (feather-agent.ts endCall).  The numbers of a turn go out once: the server
\* merges them key by key, and a second report would erase the first.
SegmentsAccounted ==
  /\ \A i \in Segments : Cardinality(ReportsOf(i)) = (IF IsOpen(i) THEN 0 ELSE 1)
  /\ drained => \A i \in waiting \cap Segments, k \in DOMAIN reports :
       reports[k].segment = i /\ speech[i].heard = "full" => reports[k].full
  /\ \A t \in TurnIds : metered[t] <= 1 /\ (turns[t].open => metered[t] = 0)

\* A quiet call always has a deadline: when both sides listen and nothing is
\* being decided, asked or spoken, the silence clock is running, after any
\* sequence of nudges, failed probes, barge-ins and turns that said nothing.
Quiet ==
  /\ phase = "talking" /\ ~endRequested /\ userListening
  /\ probes = 0
  /\ \A i \in Speeches : speech[i].st = "over" /\ speech[i].kind # "last"
DeadlineAlways == Quiet => armed

\* Once the worker has decided to end the call, it gets as far as deleting the room:
\* no line it waits for can keep it from trying, be it cut, stalled, or never spoken
\* because the session closed (feather-agent.ts endCall). It tries once: if that
\* fails, the call goes on and nothing in the worker ends it (agent.ts hangup).
EndingEnds == endRequested ~> room # "open"

\* What segment-ledger.ts:46 and feather-agent.ts:213 say: a turn whose every
\* line stalled is counted with the provider when its numbers go out.
AllStalled(t) ==
  LET own == {i \in Segments : speech[i].turn = t}
  IN  own # {} /\ \A i \in own : speech[i].heard = "stalled"
StallsCounted == \A t \in TurnIds : metered[t] = 1 /\ AllStalled(t) => t \in stalls

\* What docs/adr/0002 says of end_call: a call the control plane has closed is
\* hung up, as far as the worker can: it tries.
ClosedCallEnds == over ~> room # "open"

=============================================================================
