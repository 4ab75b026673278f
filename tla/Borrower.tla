------------------------------ MODULE Borrower ------------------------------
(****************************************************************************)
(* The fake borrower on a call (voice-worker/src/tracer/scripted-call.ts)   *)
(* and what the harness makes of the call afterwards: response latencies,   *)
(* transcripts per line, stretches of agent audio and the joins by time     *)
(* with the turns and playout reports of the ledger (harness-scores.ts,     *)
(* domain/src/speechWindows.ts, domain/src/turnTaking.ts).                  *)
(*                                                                          *)
(* Time is counted in audio frames: one frame of the agent's track arrives  *)
(* per unit, loud or quiet.  Everything else happens between two frames.    *)
(****************************************************************************)
EXTENDS Integers, Sequences, FiniteSets, SequencesExt

CONSTANTS
    Lines,           \* how many lines the script speaks
    Hangover,        \* SILENCE_HANGOVER_MS, in frames
    Grace,           \* CLOCK_GRACE_MS, in frames
    MaxSkew,         \* bound: how far the clock of the control plane is from that of the harness
    Endpointing,     \* frames of silence before a borrower line becomes a turn
    Splits,          \* whether a line may become a turn before it is spoken out
    MaxPause,        \* bound: quiet frames inside an agent line
    MaxReportDelay,  \* bound: frames between a line's end and its playout report
    MaxTime, MaxUtterances, MaxFinals,   \* bounds
    Nil

ASSUME BorrowerAssumptions ==
    /\ Hangover \in Nat \ {0} /\ {Grace, MaxSkew, Endpointing, MaxPause, MaxReportDelay} \subseteq Nat
    /\ Splits \in BOOLEAN /\ Nil \notin Int
    /\ Nil \notin [turn : Nat, at : Nat, audioAt : Nat \cup {Nil}]
    /\ Nil \notin [turn : Nat, parts : Nat, closedAt : Nat \cup {Nil}]

VARIABLES
    now,             \* frames so far
    skew,            \* the skew of this call
    rmsSamples,      \* the frames: TRUE is loud
    live,            \* the live detector: [in, lastLoud, starts]
    said,            \* what the agent says: [start, end, cut, told], end Nil while it
                     \* speaks; its transcript segment opens with it
    next,            \* lines begun
    speaking,        \* when the line being spoken began, or Nil
    currentLine,     \* the line transcripts go to: [turn, parts, closedAt], or Nil
    reply,           \* awaiting.reply: [turn, at, audioAt], or Nil
    turnLatencies, unansweredTurns, werLines, borrowerEvents,
    finals, unmatched,   \* STT finals so far; those with no line open
    turns,           \* the ledger's turns: [at, of]
    playouts,        \* the ledger's playout reports: [at, interrupted, of]
    over             \* Nil, or [at, failed]

audio == <<rmsSamples, live, said>>
borrower == <<next, speaking, currentLine, borrowerEvents>>
measures == <<reply, turnLatencies, unansweredTurns, werLines, finals, unmatched>>
bvars == <<now, skew, audio, borrower, measures, turns, playouts, over>>

On == over = Nil
Talking == said # <<>> /\ Last(said).end = Nil

BInit ==
    /\ now = 0 /\ skew \in -MaxSkew..MaxSkew
    /\ rmsSamples = <<>> /\ live = [in |-> FALSE, lastLoud |-> 0, starts |-> <<>>]
    /\ said = <<>>
    /\ next = 0 /\ speaking = Nil /\ currentLine = Nil
    /\ reply = Nil
    /\ turnLatencies = <<>> /\ unansweredTurns = <<>> /\ werLines = <<>> /\ borrowerEvents = <<>>
    /\ finals = 0 /\ unmatched = 0
    /\ turns = <<>> /\ playouts = <<>>
    /\ over = Nil

------------------------------------------------------------------------------
(* The agent's audio.                                                       *)

Loud == {i \in DOMAIN rmsSamples : rmsSamples[i]}
SinceLoud == IF Loud = {} THEN now ELSE now - (CHOOSE i \in Loud : \A j \in Loud : j <= i)

\* Two lines of the agent are further apart than a pause.
AgentStarts ==
    /\ On /\ ~Talking /\ Len(said) < MaxUtterances
    /\ said # <<>> => SinceLoud > Hangover
    /\ said' = Append(said, [start |-> now, end |-> Nil, cut |-> FALSE, told |-> FALSE])
    /\ UNCHANGED <<now, skew, rmsSamples, live, borrower, measures, turns, playouts, over>>

\* The line ends, or is cut because the borrower speaks.
AgentStops(cut) ==
    /\ On /\ Talking /\ Last(said).start < now /\ rmsSamples[now]
    /\ cut => speaking # Nil
    /\ said' = [said EXCEPT ![Len(said)] = [start |-> @.start, end |-> now - 1, cut |-> cut, told |-> FALSE]]
    /\ UNCHANGED <<now, skew, rmsSamples, live, borrower, measures, turns, playouts, over>>

\* A frame arrives: it is kept, the live detector moves, and the first loud one
\* after the borrower fell silent is noted on the pending reply.
Detect(loud) ==
    IF loud
    THEN [in |-> TRUE, lastLoud |-> now, starts |-> IF live.in THEN live.starts ELSE Append(live.starts, now)]
    ELSE [live EXCEPT !.in = @ /\ ~(now - live.lastLoud > Hangover)]

Frame(loud) ==
    /\ On /\ now < MaxTime
    /\ loud => Talking
    /\ Talking /\ ~loud => Last(said).start < now /\ SinceLoud < MaxPause
    /\ now' = now + 1
    /\ rmsSamples' = Append(rmsSamples, loud)
    /\ live' = Detect(loud)
    /\ reply' = IF reply # Nil /\ loud /\ reply.audioAt = Nil THEN [reply EXCEPT !.audioAt = now] ELSE reply
    /\ UNCHANGED <<skew, said, borrower, turnLatencies, unansweredTurns, werLines,
                   finals, unmatched, turns, playouts, over>>

\* Words of the agent arrive: only a segment that opened after the borrower fell
\* silent is a reply to it.
Delta ==
    /\ On /\ Talking
    /\ reply # Nil /\ Last(said).start >= reply.at
    /\ turnLatencies' = Append(turnLatencies, [turn |-> reply.turn, at |-> reply.at, ms |-> now - reply.at])
    /\ reply' = Nil
    /\ UNCHANGED <<now, skew, audio, borrower, unansweredTurns, werLines, finals, unmatched,
                   turns, playouts, over>>

------------------------------------------------------------------------------
(* The borrower's lines.                                                    *)

LineClosed ==
    IF currentLine = Nil THEN werLines
    ELSE Append(werLines, [turn |-> currentLine.turn, at |-> currentLine.closedAt, parts |-> currentLine.parts])

AbandonedUnbooked == unansweredTurns   \* mutant of Abandoned

Abandoned == IF reply = Nil THEN unansweredTurns ELSE Append(unansweredTurns, reply.turn)

SpeakStarts ==
    /\ On /\ speaking = Nil /\ next < Lines
    /\ next' = next + 1
    /\ werLines' = LineClosed
    /\ currentLine' = [turn |-> next + 1, parts |-> 0, closedAt |-> Nil]
    /\ speaking' = now
    /\ UNCHANGED <<now, skew, audio, borrowerEvents, reply, turnLatencies, unansweredTurns,
                   finals, unmatched, turns, playouts, over>>

\* The line is out, after longer than the grace and the clocks' difference: it is
\* seconds of audio. A reply still pending is given up only now.
SpeakEnds ==
    /\ On /\ speaking # Nil /\ now > speaking + Grace + MaxSkew
    /\ borrowerEvents' = Append(borrowerEvents, [kind |-> "line", start |-> speaking, end |-> now])
    /\ currentLine' = [currentLine EXCEPT !.closedAt = now]
    /\ unansweredTurns' = Abandoned
    /\ reply' = [turn |-> next, at |-> now, audioAt |-> Nil]
    /\ speaking' = Nil
    /\ UNCHANGED <<now, skew, audio, next, turnLatencies, werLines, finals, unmatched, turns, playouts, over>>

\* A final transcript of the borrower, whenever the STT is ready with it.
Final ==
    /\ On /\ next > 0 /\ finals < MaxFinals
    /\ finals' = finals + 1
    /\ IF currentLine = Nil THEN unmatched' = unmatched + 1 /\ UNCHANGED currentLine
       ELSE currentLine' = [currentLine EXCEPT !.parts = @ + 1] /\ UNCHANGED unmatched
    /\ UNCHANGED <<now, skew, audio, next, speaking, borrowerEvents, reply, turnLatencies,
                   unansweredTurns, werLines, turns, playouts, over>>

\* The script is through, or gave up.
ScriptEnds ==
    /\ On /\ speaking = Nil
    /\ unansweredTurns' = Abandoned /\ reply' = Nil
    /\ werLines' = LineClosed /\ currentLine' = Nil
    /\ over' = [at |-> now, failed |-> FALSE]
    /\ UNCHANGED <<now, skew, audio, next, speaking, borrowerEvents, turnLatencies, finals,
                   unmatched, turns, playouts>>

\* Publishing a line's audio throws: what was measured so far is returned, with
\* the error. The line begun has no row, and a reply still pending is lost.
CallFails ==
    /\ On /\ speaking # Nil
    /\ over' = [at |-> now, failed |-> TRUE]
    /\ UNCHANGED <<now, skew, audio, borrower, measures, turns, playouts>>

------------------------------------------------------------------------------
(* The ledger, on its own clock.                                            *)

Claimed(k) == \E j \in DOMAIN turns : turns[j].of = k

TurnStarts ==
    /\ On
    /\ LET k == IF speaking = Nil THEN Len(borrowerEvents) ELSE next
       IN  /\ k > 0 /\ ~Claimed(k)
           /\ IF speaking = Nil THEN now >= Last(borrowerEvents).end + Endpointing ELSE Splits
           /\ turns' = Append(turns, [at |-> now + skew, of |-> k])
    /\ UNCHANGED <<now, skew, audio, borrower, measures, playouts, over>>

\* A line's playout is reported once it is over, or never.
Report(i) ==
    /\ On /\ said[i].end # Nil /\ ~said[i].told
    /\ now - said[i].end \in 1..MaxReportDelay
    /\ said' = [said EXCEPT ![i].told = TRUE]
    /\ playouts' = Append(playouts, [at |-> now + skew, interrupted |-> said[i].cut, of |-> i])
    /\ UNCHANGED <<now, skew, rmsSamples, live, borrower, measures, turns, over>>

BNext ==
    \/ AgentStarts \/ Delta
    \/ \E b \in BOOLEAN : AgentStops(b) \/ Frame(b)
    \/ SpeakStarts \/ SpeakEnds \/ Final \/ ScriptEnds \/ CallFails
    \/ TurnStarts
    \/ \E i \in DOMAIN said : Report(i)

BSpec == BInit /\ [][BNext]_bvars

------------------------------------------------------------------------------
(* What the harness makes of the call.                                      *)

\* speechWindows: frame i arrived at time i - 1. A stretch starts at a loud frame
\* with a hangover of quiet before it, and ends at its last loud frame. Stretches
\* are named by their onsets.
Onsets == {i \in Loud : \A j \in Loud : j < i => i - 1 - j >= Hangover}
NextOnset(i) ==
    LET later == {o \in Onsets : o > i}
    IN  IF later = {} THEN Nil ELSE Min(later)
speechWindows ==
    [i \in Onsets |->
        [start |-> i - 1,
         end |-> Max({j \in Loud : j >= i /\ (NextOnset(i) = Nil \/ j < NextOnset(i))}) - 1]]

\* The first of the entries (by time, then as listed) in a window, or Nil.
FirstIn(entries, allowed, from, until) ==
    LET hits == {j \in allowed : entries[j].at >= from /\ (until = Nil \/ entries[j].at < until)}
    IN  IF hits = {} THEN Nil
        ELSE CHOOSE j \in hits : \A i \in hits :
                entries[j].at < entries[i].at \/ (entries[j].at = entries[i].at /\ j <= i)

TruthUnbounded ==   \* mutant of withPlayoutTruth: the next onset is no bound
    [i \in Onsets |-> FirstIn(playouts, DOMAIN playouts, i - 1 - Grace, Nil)]

\* withPlayoutTruth: the report of each stretch, bounded by the next onset.
withPlayoutTruth ==
    [i \in Onsets |->
        FirstIn(playouts, DOMAIN playouts, i - 1 - Grace, IF NextOnset(i) = Nil THEN Nil ELSE NextOnset(i) - 1)]

\* matchLedgerTurns: each measurement takes the first turn of its window that none
\* before it took. The next measurement, or the end of the call, closes a window.
Until(ms, n) == IF n < Len(ms) THEN ms[n + 1].at ELSE over.at
Takes(ms, joined, n, until) ==
    FirstIn(turns, DOMAIN turns \ {joined[m] : m \in 1..(n - 1)}, ms[n].at - Grace, until)

MatchUnbounded(ms) ==   \* mutant of matchLedgerTurns: the next line is no bound
    CHOOSE joined \in [DOMAIN ms -> DOMAIN turns \cup {Nil}] :
        \A n \in DOMAIN ms : joined[n] = Takes(ms, joined, n, Nil)

matchLedgerTurns(ms) ==
    CHOOSE joined \in [DOMAIN ms -> DOMAIN turns \cup {Nil}] :
        \A n \in DOMAIN ms : joined[n] = Takes(ms, joined, n, Until(ms, n))

------------------------------------------------------------------------------
\* The lines the call returns something of: measured, or listed as unanswered.
Settled == [i \in DOMAIN turnLatencies |-> turnLatencies[i].turn] \o unansweredTurns

\* When a call ended as its script did, each line the borrower spoke out is
\* measured or listed as unanswered, once, and each line begun has its transcript
\* row, in order. A call that goes on, or failed, owes at most the last line it
\* spoke out: a failure drops the reply still pending, in neither list.
LinesAccounted ==
    /\ ToSet(Settled) = 1..Len(Settled)
    /\ Len(Settled) \in {Len(borrowerEvents) - 1, Len(borrowerEvents)}
    /\ \A i \in DOMAIN werLines : werLines[i].turn = i
    /\ over # Nil /\ ~over.failed => Len(Settled) = Len(borrowerEvents) /\ Len(werLines) = next
    /\ \A i \in DOMAIN turnLatencies : turnLatencies[i].ms >= 0

\* A latency or a word-error score of a line that became a turn is posted to that
\* turn, and the score of a line that became none is posted to no other.  (A
\* latency of a line without a turn may be: its window reaches to the next line
\* that was measured, not to the next that was spoken.)
JoinsOwnTurn ==
    over # Nil /\ ~over.failed =>
        \A ms \in {turnLatencies, werLines} :
            LET joined == matchLedgerTurns(ms)
                own(n) == {j \in DOMAIN turns : turns[j].of = ms[n].turn /\ turns[j].at < over.at}
            IN  \A n \in DOMAIN ms :
                    IF own(n) # {} THEN joined[n] \in own(n)
                    ELSE ms = werLines => joined[n] = Nil

\* The playout truth of a stretch is the report of the line that was heard in it.
TruthIsOwn ==
    over # Nil =>
        \A i \in Onsets :
            LET w == speechWindows[i]
                truth == withPlayoutTruth[i]
            IN  truth # Nil => said[playouts[truth].of].start \in w.start..w.end
==============================================================================
