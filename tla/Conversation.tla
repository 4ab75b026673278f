---------------------------- MODULE Conversation ----------------------------
(***************************************************************************)
(* One phone call, from GREETING to its outcome: the three-phase turn of    *)
(* Orchestrator.ts (claim in a transaction, decide outside any, commit in a *)
(* second one), the signals that race with it, and the server processes     *)
(* that run it, are shut down and are killed.  The database is shared; a    *)
(* transaction is one step, because each one locks the conversations row    *)
(* first.  What is not in a transaction is several steps.                   *)
(***************************************************************************)
EXTENDS StateMachine, Naturals, Sequences

CONSTANTS
    Turns,       \* turn ids a client may send, each any number of times
    Procs,       \* server process lifetimes, each booted at most once
    Amounts,     \* what a borrower may promise to pay
    Calls,       \* the kinds of call to explore
    Says,        \* what a borrower's turn may say
    Replicated,  \* may two server processes overlap (replicas, rolling deploy)?
    Crashes,     \* may a process be killed, or a commit fail on the database?
    None         \* SQL NULL

ASSUME NoneAssumption == None \notin Turns \cup Amounts \cup Outcomes
ASSUME CallsAssumption ==
    Calls \subseteq [channel : {"voice", "simulated"},
                     origin  : {"browser", "sip", "simulated"},
                     decider : Deciders]
(* A hold request, words an override rule matches, or anything else.        *)
Texts == {"plain", "hold", "opt_out", "wrong_number", "dispute", "hardship"}
ASSUME SaysAssumption == Says \subseteq Texts
ASSUME FlagsAssumption == Replicated \in BOOLEAN /\ Crashes \in BOOLEAN

VARIABLES
    call,        \* channel, origin and decider of this conversation
    row,         \* the conversations row
    turn,        \* the conversation_turns rows: user text, status, disposition
    order,       \* turn ids by started_at
    ledger,      \* replay of conversation_events (replay.ts)
    lines,       \* USER_TURN_FINAL events per turn
    superseded,  \* turns with a TURN_SUPERSEDED event
    replies,     \* AGENT_TURN events per turn
    readBack,    \* the amount a turn's reply read back, None if it read none
    lastRead,    \* the turn whose reply holds the latest read-back
    playout,     \* AGENT_TURN_PLAYOUT reports on a turn's read-back segment
    crm,         \* attempt, workflow, scheduled actions, borrower restrictions
    proc,        \* server processes
    run          \* what process p is doing for turn t

history == <<order, lines, superseded>>
speech  == <<replies, readBack, lastRead>>
vars == <<call, row, turn, ledger, history, speech, playout, crm, proc, run>>

Runs == Turns \X Procs
Steps == {"idle", "attached", "claimed", "waiting", "waited", "deciding", "stranded"}
NO_INPUT_STRIKES == 2

-----------------------------------------------------------------------------
(* The event fold: each operator is what replay does with one event type.  *)
MovedKeepingProposal(lg, from, to, trigger) ==   \* mutant: the proposal outlives a refusal
    [lg EXCEPT !.state = to, !.unlocked = @ \/ trigger = "RIGHT_PARTY_CONFIRMED"]
Moved(lg, from, to, trigger) ==
    [lg EXCEPT !.state = to,
               !.unlocked = @ \/ trigger = "RIGHT_PARTY_CONFIRMED",
               !.proposal = IF from = "CONFIRMING_OUTCOME" /\ to = "DISCUSSING_PAYMENT"
                            THEN None ELSE @]
ToolCalled(lg, t) == [lg EXCEPT !.tools = @ \cup {t}]
Proposed(lg, a) == [lg EXCEPT !.proposal = a]
PromiseRecorded(lg) == [lg EXCEPT !.proposal = None]
Struck(lg, n) == [lg EXCEPT !.noInput = n]
UserSpoke(lg) == [lg EXCEPT !.noInput = 0]
CallEnded(lg, o) == [lg EXCEPT !.outcome = o]

(* confirm_right_party and record_wrong_party_contact pass through          *)
(* VERIFYING_IDENTITY when they start from GREETING.                        *)
ViaVerifying(lg, from, to) ==
    IF from = "GREETING"
    THEN Moved(Moved(lg, from, "VERIFYING_IDENTITY", "LLM_INTENT"), "VERIFYING_IDENTITY", to,
               triggerFor("VERIFYING_IDENTITY", to))
    ELSE Moved(lg, from, to, triggerFor(from, to))

closingPath(lg, current) ==
    IF current = "COMPLETED" THEN lg
    ELSE Moved(IF current = "ENDING" THEN lg ELSE Moved(lg, current, "ENDING", "OUTCOME_COMMITTED"),
               "ENDING", "COMPLETED", "CALL_ENDED")

-----------------------------------------------------------------------------
(* CallFinalizer.finalize, on the row, on the ledger and on the books.     *)
attemptStatusFor(o) ==
    CASE o = "NO_ANSWER" -> "NO_ANSWER"
      [] o = "VOICEMAIL_LEFT" -> "VOICEMAIL"
      [] o = "FAILED" -> "FAILED"
      [] OTHER -> "COMPLETED"

NoLegToRedial == call.channel = "voice" /\ call.origin = "browser"

FinalRow(rw, o) == [rw EXCEPT !.state = "COMPLETED", !.outcome = o]
FinalLedger(lg, current, o) == CallEnded(closingPath(lg, current), o)
FinalBooks(books, o) ==
    [books EXCEPT !.attempt = attemptStatusFor(o),
                  !.workflow = workflowStatusFor(o),
                  !.pending = IF ~NoLegToRedial /\ o \in Redialled
                              THEN @ \cup {"RETRY_CALL"} ELSE @,
                  !.jobs = TRUE]

(* A conversation row as startCall leaves it.                              *)
Init ==
    /\ call \in Calls
    /\ row = [state |-> "GREETING", outcome |-> None, active |-> None, unlocked |-> FALSE,
              proposal |-> None, readBackTurn |-> None, noInput |-> 0]
    /\ turn = [t \in Turns |-> [text |-> "plain", status |-> "ABSENT", disp |-> "null"]]
    /\ ledger = [state |-> "GREETING", unlocked |-> FALSE, outcome |-> None, noInput |-> 0,
                 proposal |-> None, tools |-> {}]
    /\ crm = [attempt |-> "INITIATED", workflow |-> "RUNNING", pending |-> {}, jobs |-> FALSE,
              optedOut |-> FALSE, validNumber |-> TRUE, promised |-> None]
    /\ order = <<>>
    /\ lines = [t \in Turns |-> 0]
    /\ superseded = {}
    /\ replies = [t \in Turns |-> 0]
    /\ readBack = [t \in Turns |-> None]
    /\ lastRead = None
    /\ playout = [t \in Turns |-> {}]
    /\ proc = [p \in Procs |-> "next"]
    /\ run = [r \in Runs |-> [pc |-> "idle", seen |-> "GREETING"]]

-----------------------------------------------------------------------------
(* finishTurn: unconditional, whatever the row's status was.               *)
finishTurn(tbl, t, status, disp) == [tbl EXCEPT ![t].status = status, ![t].disp = disp]
releaseTurn(rw, t) == IF rw.active = t THEN [rw EXCEPT !.active = None] ELSE rw

Goto(t, p, step) == run' = [run EXCEPT ![<<t, p>>].pc = step]

(* A request for turn t reaches T1: a new one, or a poll of an attached one. *)
AtT1(t, p) == proc[p] = "up" /\ run[<<t, p>>].pc \in {"idle", "attached"}

SettledDoneOnly(t) == turn[t].status = "DONE"   \* mutant: a superseded turn may run again
Settled(t) == turn[t].status \in {"DONE", "SUPERSEDED"}
SameTurnRunning(t) == turn[t].status = "RUNNING" /\ row.active = t
CallOpenAlways == TRUE   \* mutant: a signal does not ask whether the call has ended
CallOpen == row.outcome = None
Over == row.outcome # None \/ isTerminal(row.state)

(* T1 of a turn that is over, of a call that is over, or of a busy call:   *)
(* the recorded result is replayed or the request is refused.              *)
T1Answered(t, p) ==
    /\ AtT1(t, p)
    /\ \/ Settled(t)
       \/ ~SameTurnRunning(t) /\ Over
       \/ ~SameTurnRunning(t) /\ row.active # None /\ call.channel # "voice"
    /\ Goto(t, p, "idle")
    /\ UNCHANGED <<call, row, turn, ledger, history, speech, playout, crm, proc>>

T1Attach(t, p) ==
    /\ AtT1(t, p)
    /\ SameTurnRunning(t)
    /\ Goto(t, p, "attached")
    /\ UNCHANGED <<call, row, turn, ledger, history, speech, playout, crm, proc>>

(* Ten seconds of polling: the request fails with TurnInProgress.          *)
AttachTimeout(t, p) ==
    /\ AtT1(t, p)
    /\ run[<<t, p>>].pc = "attached"
    /\ SameTurnRunning(t)
    /\ Goto(t, p, "idle")
    /\ UNCHANGED <<call, row, turn, ledger, history, speech, playout, crm, proc>>

(* T1 that claims: the turn in the way is superseded (voice always asks    *)
(* for that), the turn row inserted if it is the first send, the playout   *)
(* report and the borrower's line appended, the strikes reset.             *)
ClaimedTable(t, text) ==
    LET settled == IF row.active = None THEN turn
                   ELSE finishTurn(turn, row.active, "SUPERSEDED", "none")
    IN  IF turn[t].status = "ABSENT"
        THEN [settled EXCEPT ![t] = [text |-> text, status |-> "RUNNING", disp |-> "null"]]
        ELSE settled

PlayoutReport(u, how) ==
    /\ readBack[u] # None
    /\ playout' = [playout EXCEPT ![u] = @ \cup {how}]

T1Claim(t, p) ==
    /\ AtT1(t, p)
    /\ ~Settled(t) /\ ~SameTurnRunning(t) /\ ~Over
    /\ \E text \in Says :
        /\ turn[t].status # "ABSENT" => text = turn[t].text
        /\ turn' = ClaimedTable(t, text)
        /\ run' = [run EXCEPT ![<<t, p>>] =
                     [pc |-> IF text = "hold" THEN "claimed" ELSE "deciding", seen |-> row.state]]
    /\ order' = IF turn[t].status = "ABSENT" THEN Append(order, t) ELSE order
    /\ superseded' = IF row.active = None THEN superseded ELSE superseded \cup {row.active}
    /\ row' = [row EXCEPT !.active = t, !.noInput = 0]
    /\ ledger' = UserSpoke(ledger)
    /\ lines' = [lines EXCEPT ![t] = @ + 1]
    /\ \/ UNCHANGED playout
       \/ \E u \in Turns, how \in {"heard", "cut"} : PlayoutReport(u, how)
    /\ UNCHANGED <<call, speech, crm, proc>>

-----------------------------------------------------------------------------
(* "One second": answered with silence, outside any transaction, unless    *)
(* the latest other turn with a result was answered that way too.          *)
WaitedBefore(t) ==
    \E i \in 1..Len(order) :
        /\ order[i] # t
        /\ turn[order[i]].disp = "wait"
        /\ \A j \in (i+1)..Len(order) : order[j] = t \/ turn[order[j]].disp = "null"

ReadDisposition(t, p) ==
    /\ proc[p] = "up" /\ run[<<t, p>>].pc = "claimed"
    /\ Goto(t, p, IF WaitedBefore(t) THEN "deciding" ELSE "waiting")
    /\ UNCHANGED <<call, row, turn, ledger, history, speech, playout, crm, proc>>

FinishWait(t, p) ==
    /\ proc[p] = "up" /\ run[<<t, p>>].pc = "waiting"
    /\ turn' = finishTurn(turn, t, "DONE", "wait")
    /\ Goto(t, p, "waited")
    /\ UNCHANGED <<call, row, ledger, history, speech, playout, crm, proc>>

ReleaseWait(t, p) ==
    /\ proc[p] = "up" /\ run[<<t, p>>].pc = "waited"
    /\ row' = releaseTurn(row, t)
    /\ Goto(t, p, "idle")
    /\ UNCHANGED <<call, turn, ledger, history, speech, playout, crm, proc>>

-----------------------------------------------------------------------------
(* T2. The claim is checked first; without it the answer is discarded.     *)
AtT2(t, p) == proc[p] = "up" /\ run[<<t, p>>].pc = "deciding"
OwnerUnchecked(t, p) == AtT2(t, p)   \* mutant: active_turn_id is not checked again
Owner(t, p) == AtT2(t, p) /\ row.active = t

T2Lost(t, p) ==
    /\ AtT2(t, p)
    /\ row.active # t
    /\ turn' = finishTurn(turn, t, "SUPERSEDED", "none")
    /\ Goto(t, p, "idle")
    /\ UNCHANGED <<call, row, ledger, history, speech, playout, crm, proc>>

(* The end of every T2 that kept its claim: AGENT_TURN, the turn DONE, the *)
(* claim released. read is the amount the reply reads back, if it does.    *)
Commit(t, p, rw, lg, read) ==
    /\ row' = releaseTurn(rw, t)
    /\ ledger' = lg
    /\ turn' = finishTurn(turn, t, "DONE", "respond")
    /\ replies' = [replies EXCEPT ![t] = @ + 1]
    /\ readBack' = [readBack EXCEPT ![t] = IF read = None THEN @ ELSE read]
    /\ lastRead' = IF read = None THEN lastRead ELSE t
    /\ Goto(t, p, "idle")
    /\ UNCHANGED <<call, history, playout, proc>>

Reply(t, p, rw, lg) == Commit(t, p, rw, lg, None) /\ UNCHANGED crm

EndCall(t, p, rw, lg, books, o) ==
    /\ Commit(t, p, FinalRow(rw, o), FinalLedger(lg, rw.state, o), None)
    /\ crm' = FinalBooks(books, o)

(* A deterministic rule on the borrower's words, without a model call. On a *)
(* call that has already ended the move is refused but the rest happens.   *)
OverrideRow(to) == IF OverrideAllowed(row.state, to) THEN [row EXCEPT !.state = to] ELSE row
OverrideLedger(to) ==
    IF OverrideAllowed(row.state, to) /\ to # row.state
    THEN Moved(ledger, row.state, to, "OVERRIDE_RULE") ELSE ledger

OptedOutKeepingActions(books) == [books EXCEPT !.optedOut = TRUE]   \* mutant: nothing canceled
OptedOut(books) == [books EXCEPT !.optedOut = TRUE, !.pending = {}]
NumberInvalid(books) ==
    [books EXCEPT !.validNumber = FALSE, !.pending = @ \ {"CALLBACK", "RETRY_CALL"}]
HumanFollowup(books) == [books EXCEPT !.pending = @ \cup {"HUMAN_FOLLOWUP"}]

T2OverrideOptOut(t, p) ==
    /\ Owner(t, p) /\ turn[t].text = "opt_out"
    /\ EndCall(t, p, OverrideRow("OPT_OUT"), ToolCalled(OverrideLedger("OPT_OUT"), t),
               OptedOut(crm), "OPT_OUT")

T2OverrideWrongNumber(t, p) ==
    /\ Owner(t, p) /\ turn[t].text = "wrong_number"
    /\ EndCall(t, p, OverrideRow("WRONG_NUMBER"), ToolCalled(OverrideLedger("WRONG_NUMBER"), t),
               NumberInvalid(crm), "WRONG_NUMBER")

T2OverrideTransfer(t, p) ==
    /\ Owner(t, p) /\ turn[t].text \in {"dispute", "hardship"}
    /\ EndCall(t, p, OverrideRow("ESCALATED"), OverrideLedger("ESCALATED"), HumanFollowup(crm),
               IF turn[t].text = "dispute" THEN "DISPUTED" ELSE "ESCALATED")

(* The decider was asked in the state T1 saw; its answer is judged against *)
(* the state the row has now.                                              *)
Asked(t, p) == Owner(t, p) /\ turn[t].text \in {"plain", "hold"}
Calling(t, p, tool) == Asked(t, p) /\ CanCall(call.decider, run[<<t, p>>].seen, tool)
Executes(t, p, tool) == Calling(t, p, tool) /\ toolAllowed(tool, row.state)
Suggests(t, p, next) == Asked(t, p) /\ CanSuggest(call.decider, run[<<t, p>>].seen, next)

(* No decision: the decider was unavailable or gave invalid output.        *)
T2Degraded(t, p) == Asked(t, p) /\ Reply(t, p, row, ledger)

(* A tool the state does not admit, or arguments its schema refuses (the   *)
(* scripted decider's always pass).                                        *)
T2RejectTool(t, p, tool) ==
    /\ Calling(t, p, tool)
    /\ ~toolAllowed(tool, row.state) \/ call.decider = "openai"
    /\ Reply(t, p, row, ledger)

(* The model repeated a tool_call_id already in the ledger: the tool is    *)
(* skipped, the turn is still answered.                                    *)
T2DuplicateTool(t, p) ==
    /\ Asked(t, p) /\ call.decider = "openai" /\ ledger.tools # {}
    /\ Reply(t, p, row, ledger)

T2ReadOnlyTool(t, p) ==
    /\ \E tool \in {"lookup_contact_profile", "get_account_context"} : Executes(t, p, tool)
    /\ Reply(t, p, row, ToolCalled(ledger, t))

T2ConfirmRightParty(t, p) ==
    /\ Executes(t, p, "confirm_right_party")
    /\ Reply(t, p, [row EXCEPT !.state = "DISCUSSING_PAYMENT", !.unlocked = TRUE],
             ToolCalled(ViaVerifying(ledger, row.state, "DISCUSSING_PAYMENT"), t))

(* record_wrong_party_contact, or confirm_right_party with confirmed=false, *)
(* which only the model sends.                                             *)
T2ThirdParty(t, p) ==
    /\ \/ Executes(t, p, "record_wrong_party_contact")
       \/ Executes(t, p, "confirm_right_party") /\ call.decider = "openai"
    /\ EndCall(t, p, [row EXCEPT !.state = "THIRD_PARTY_OR_WRONG_PARTY"],
               ToolCalled(ViaVerifying(ledger, row.state, "THIRD_PARTY_OR_WRONG_PARTY"), t),
               crm, "THIRD_PARTY_CONTACT")

T2WrongNumberTool(t, p) ==
    /\ Executes(t, p, "record_wrong_party_contact") /\ call.decider = "openai"
    /\ EndCall(t, p, [row EXCEPT !.state = "WRONG_NUMBER"],
               ToolCalled(Moved(ledger, row.state, "WRONG_NUMBER", "LLM_INTENT"), t),
               NumberInvalid(crm), "WRONG_NUMBER")

T2Propose(t, p) ==
    /\ Executes(t, p, "propose_promise_to_pay")
    /\ \E a \in Amounts :
        Commit(t, p, [row EXCEPT !.state = "CONFIRMING_OUTCOME", !.proposal = a, !.readBackTurn = t],
               Proposed(ToolCalled(Moved(ledger, row.state, "CONFIRMING_OUTCOME", "PROPOSAL"), t), a), a)
    /\ UNCHANGED crm

(* The fully-heard guard: on voice somebody must have reported the read-   *)
(* back heard, and nobody must have reported it cut.                       *)
HeardBeforeCut ==   \* mutant: a report of having heard it outweighs a report of the cut
    IF "heard" \in playout[row.readBackTurn] \/ call.channel # "voice" THEN "heard" ELSE "unconfirmed"
readBackVerdict ==
    IF "cut" \in playout[row.readBackTurn] THEN "interrupted"
    ELSE IF "heard" \in playout[row.readBackTurn] \/ call.channel # "voice" THEN "heard"
    ELSE "unconfirmed"

T2RecordPromise(t, p) ==
    /\ Executes(t, p, "record_promise_to_pay")
    /\ row.proposal # None /\ readBackVerdict = "heard"
    /\ EndCall(t, p, [row EXCEPT !.proposal = None, !.readBackTurn = None],
               PromiseRecorded(ToolCalled(ledger, t)),
               [crm EXCEPT !.promised = row.proposal], "PROMISE_TO_PAY")

T2RefusePromiseStale(t, p) ==   \* mutant: readBackTurn still names the older read-back
    /\ Executes(t, p, "record_promise_to_pay")
    /\ row.proposal = None \/ readBackVerdict # "heard"
    /\ IF row.proposal # None
       THEN Commit(t, p, row, ToolCalled(ledger, t), row.proposal)
       ELSE Commit(t, p, [row EXCEPT !.state = "DISCUSSING_PAYMENT"],
                   Moved(ToolCalled(ledger, t), row.state, "DISCUSSING_PAYMENT", "USER_DECLINED"), None)
    /\ UNCHANGED crm
T2RefusePromise(t, p) ==
    /\ Executes(t, p, "record_promise_to_pay")
    /\ row.proposal = None \/ readBackVerdict # "heard"
    /\ IF row.proposal # None
       THEN Commit(t, p, [row EXCEPT !.readBackTurn = t], ToolCalled(ledger, t), row.proposal)
       ELSE Commit(t, p, [row EXCEPT !.state = "DISCUSSING_PAYMENT"],
                   Moved(ToolCalled(ledger, t), row.state, "DISCUSSING_PAYMENT", "USER_DECLINED"), None)
    /\ UNCHANGED crm

T2ScheduleCallback(t, p) ==
    /\ Executes(t, p, "schedule_callback")
    /\ EndCall(t, p, row, ToolCalled(ledger, t),
               [crm EXCEPT !.pending = (@ \ {"RETRY_CALL"}) \cup {"CALLBACK"}], "CALLBACK_SCHEDULED")

T2InvalidTransition(t, p, next) ==
    /\ Suggests(t, p, next) /\ ~TransitionAllowed(row.state, next)
    /\ Reply(t, p, row, ledger)

T2Stay(t, p) ==
    /\ Suggests(t, p, row.state)
    /\ Reply(t, p, row, ledger)

MovesAsAsked(t, p, next) ==   \* mutant: the answer is judged by the state T1 saw
    Suggests(t, p, next) /\ next # row.state /\ TransitionAllowed(run[<<t, p>>].seen, next)
Moves(t, p, next) ==
    Suggests(t, p, next) /\ next # row.state /\ TransitionAllowed(row.state, next)

T2WarmTransfer(t, p) ==
    /\ Moves(t, p, "WARM_TRANSFER_PENDING")
    /\ EndCall(t, p, [row EXCEPT !.state = "WARM_TRANSFER_PENDING"],
               Moved(ledger, row.state, "WARM_TRANSFER_PENDING", "LLM_INTENT"),
               HumanFollowup(crm), "ESCALATED")

(* A goodbye that no tool gave an outcome to.                              *)
T2Goodbye(t, p) ==
    /\ Moves(t, p, "ENDING")
    /\ EndCall(t, p, [row EXCEPT !.state = "ENDING"],
               Moved(ledger, row.state, "ENDING", triggerFor(row.state, "ENDING")),
               crm, "NO_DISPOSITION")

(* Any other move; going back from the read-back drops the proposal.       *)
T2Move(t, p, next) ==
    /\ Moves(t, p, next) /\ next \notin {"WARM_TRANSFER_PENDING", "ENDING"}
    /\ LET declined == row.state = "CONFIRMING_OUTCOME" /\ next = "DISCUSSING_PAYMENT"
       IN  Reply(t, p,
                 IF declined THEN [row EXCEPT !.state = next, !.proposal = None, !.readBackTurn = None]
                             ELSE [row EXCEPT !.state = next],
                 Moved(ledger, row.state, next, triggerFor(row.state, next)))

(* A statement fails on the database: an open transaction is rolled back,   *)
(* the stream gets an error frame, and the claim stays on the row.         *)
RunFails(t, p) ==
    /\ Crashes
    /\ proc[p] = "up" /\ run[<<t, p>>].pc \in {"claimed", "waiting", "waited", "deciding"}
    /\ Goto(t, p, "idle")
    /\ UNCHANGED <<call, row, turn, ledger, history, speech, playout, crm, proc>>

T2(t, p) ==
    \/ T2Lost(t, p)
    \/ T2OverrideOptOut(t, p)
    \/ T2OverrideWrongNumber(t, p)
    \/ T2OverrideTransfer(t, p)
    \/ T2Degraded(t, p)
    \/ \E tool \in TOOL_NAMES : T2RejectTool(t, p, tool)
    \/ T2DuplicateTool(t, p)
    \/ T2ReadOnlyTool(t, p)
    \/ T2ConfirmRightParty(t, p)
    \/ T2ThirdParty(t, p)
    \/ T2WrongNumberTool(t, p)
    \/ T2Propose(t, p)
    \/ T2RecordPromise(t, p)
    \/ T2RefusePromise(t, p)
    \/ T2ScheduleCallback(t, p)
    \/ \E next \in States : T2InvalidTransition(t, p, next)
    \/ T2Stay(t, p)
    \/ T2WarmTransfer(t, p)
    \/ T2Goodbye(t, p)
    \/ \E next \in States : T2Move(t, p, next)

-----------------------------------------------------------------------------
(* Signals and silence. Each is one transaction under the row lock and     *)
(* none looks at active_turn_id.                                           *)
SignalEnds(rw, lg, o) ==
    /\ row' = FinalRow(rw, o)
    /\ ledger' = FinalLedger(lg, rw.state, o)
    /\ crm' = FinalBooks(crm, o)
    /\ UNCHANGED <<call, turn, history, speech, playout, proc, run>>

StrikesOutLate(strike) == strike > NO_INPUT_STRIKES   \* mutant: one strike too many
StrikesOut(strike) == strike >= NO_INPUT_STRIKES

NoInput ==
    /\ CallOpen
    /\ LET strike == row.noInput + 1
           struck == [row EXCEPT !.noInput = strike]
       IN  IF StrikesOut(strike)
           THEN SignalEnds(struck, Struck(ledger, strike), "NO_ANSWER")
           ELSE /\ row' = struck
                /\ ledger' = Struck(ledger, strike)
                /\ UNCHANGED <<call, turn, history, speech, playout, crm, proc, run>>

Playout(u, how) ==
    /\ PlayoutReport(u, how)
    /\ UNCHANGED <<call, row, turn, ledger, history, speech, crm, proc, run>>

AmdMachine ==
    /\ CallOpen
    /\ SignalEnds([row EXCEPT !.state = "VOICEMAIL"],
                  IF ForcedAllowed(row.state, "VOICEMAIL") /\ row.state # "VOICEMAIL"
                  THEN Moved(ledger, row.state, "VOICEMAIL", "AMD") ELSE ledger,
                  "VOICEMAIL_LEFT")

AmdHuman ==
    /\ CallOpen
    /\ crm' = [crm EXCEPT !.attempt = "ANSWERED"]
    /\ UNCHANGED <<call, row, turn, ledger, history, speech, playout, proc, run>>

NoAnswer == CallOpen /\ SignalEnds(row, ledger, "NO_ANSWER")

(* A hang-up, or the sweeper ending a call its worker lost or never took.  *)
Hangup(swept) ==
    /\ CallOpen
    /\ SignalEnds(row, ledger, IF swept \/ row.unlocked THEN "FAILED" ELSE "NO_ANSWER")

(* Merged without the row lock. A turn with no result yet gets one, with   *)
(* no disposition in it; a later finishTurn overwrites it.                 *)
TurnMetrics(t) ==
    /\ turn[t].status = "RUNNING" /\ turn[t].disp = "null"
    /\ turn' = [turn EXCEPT ![t].disp = "none"]
    /\ UNCHANGED <<call, row, ledger, history, speech, playout, crm, proc, run>>

-----------------------------------------------------------------------------
(* Server processes.                                                       *)
Boot(p) ==
    /\ proc[p] = "next"
    /\ Replicated \/ \A q \in Procs : proc[q] \notin {"up", "stopping"}
    /\ proc' = [proc EXCEPT ![p] = "up"]
    /\ UNCHANGED <<call, row, turn, ledger, history, speech, playout, crm, run>>

(* Every request still under way is interrupted, then each one's claim is  *)
(* released in a statement of its own.                                     *)
Dropped(p) ==
    [r \in Runs |-> IF r[2] = p THEN [run[r] EXCEPT !.pc = "idle"] ELSE run[r]]
Interrupted(p) ==
    [r \in Runs |-> IF r[2] = p /\ run[r].pc # "idle"
                    THEN [run[r] EXCEPT !.pc = "stranded"] ELSE run[r]]

Shutdown(p) ==
    /\ proc[p] = "up"
    /\ proc' = [proc EXCEPT ![p] = "stopping"]
    /\ run' = Interrupted(p)
    /\ UNCHANGED <<call, row, turn, ledger, history, speech, playout, crm>>

ReleaseStranded(t, p) ==
    /\ proc[p] = "stopping" /\ run[<<t, p>>].pc = "stranded"
    /\ row' = releaseTurn(row, t)
    /\ Goto(t, p, "idle")
    /\ UNCHANGED <<call, turn, ledger, history, speech, playout, crm, proc>>

Exit(p) ==
    /\ proc[p] = "stopping"
    /\ \A t \in Turns : run[<<t, p>>].pc = "idle"
    /\ proc' = [proc EXCEPT ![p] = "down"]
    /\ UNCHANGED <<call, row, turn, ledger, history, speech, playout, crm, run>>

Kill(p) ==
    /\ Crashes
    /\ proc[p] \in {"up", "stopping"}
    /\ proc' = [proc EXCEPT ![p] = "down"]
    /\ run' = Dropped(p)
    /\ UNCHANGED <<call, row, turn, ledger, history, speech, playout, crm>>

-----------------------------------------------------------------------------
RunStep(t, p) ==
    \/ T1Answered(t, p) \/ T1Attach(t, p) \/ AttachTimeout(t, p) \/ T1Claim(t, p)
    \/ ReadDisposition(t, p) \/ FinishWait(t, p) \/ ReleaseWait(t, p)
    \/ T2(t, p) \/ RunFails(t, p) \/ ReleaseStranded(t, p)

Signal ==
    \/ NoInput \/ AmdMachine \/ AmdHuman \/ NoAnswer
    \/ \E swept \in BOOLEAN : Hangup(swept)
    \/ \E u \in Turns, how \in {"heard", "cut"} : Playout(u, how)
    \/ \E t \in Turns : TurnMetrics(t)

Process(p) == Boot(p) \/ Shutdown(p) \/ Exit(p) \/ Kill(p)

Next ==
    \/ \E t \in Turns, p \in Procs : RunStep(t, p)
    \/ Signal
    \/ \E p \in Procs : Process(p)

Spec == Init /\ [][Next]_vars

(* A running fiber is eventually scheduled: its statements return and its  *)
(* decider answers or times out; a shutdown's finalizer runs to its end.   *)
Fairness ==
    \A t \in Turns, p \in Procs :
        /\ WF_vars(ReadDisposition(t, p))
        /\ WF_vars(FinishWait(t, p))
        /\ WF_vars(ReleaseWait(t, p))
        /\ WF_vars(T2(t, p))
        /\ WF_vars(ReleaseStranded(t, p))

FairSpec == Spec /\ Fairness

-----------------------------------------------------------------------------
(* What may be in each column of each table.                               *)
Rows == [state : States, outcome : Outcomes \cup {None}, active : Turns \cup {None},
         unlocked : BOOLEAN, proposal : Amounts \cup {None}, readBackTurn : Turns \cup {None},
         noInput : 0..NO_INPUT_STRIKES]
TurnRows == [text : Texts, status : {"ABSENT", "RUNNING", "DONE", "SUPERSEDED"},
             disp : {"null", "none", "wait", "respond"}]
Ledgers == [state : States, unlocked : BOOLEAN, outcome : Outcomes \cup {None},
            noInput : 0..NO_INPUT_STRIKES, proposal : Amounts \cup {None}, tools : SUBSET Turns]
Books == [attempt : {"INITIATED", "ANSWERED", "NO_ANSWER", "VOICEMAIL", "FAILED", "COMPLETED"},
          workflow : {"RUNNING", "COMPLETED"},
          pending : SUBSET {"RETRY_CALL", "CALLBACK", "HUMAN_FOLLOWUP"}, jobs : BOOLEAN,
          optedOut : BOOLEAN, validNumber : BOOLEAN, promised : Amounts \cup {None}]

(* Every variable keeps its type: the columns hold what their SQL types and *)
(* closed vocabularies admit, and the strikes stop at POLICY.noInputStrikes. *)
TypeOK ==
    /\ call \in Calls
    /\ row \in Rows
    /\ turn \in [Turns -> TurnRows]
    /\ ledger \in Ledgers
    /\ order \in Seq(Turns)
    /\ lines \in [Turns -> Nat]
    /\ superseded \in SUBSET Turns
    /\ replies \in [Turns -> Nat]
    /\ readBack \in [Turns -> Amounts \cup {None}]
    /\ lastRead \in Turns \cup {None}
    /\ playout \in [Turns -> SUBSET {"heard", "cut"}]
    /\ crm \in Books
    /\ proc \in [Procs -> {"next", "up", "stopping", "down"}]
    /\ run \in [Runs -> [pc : Steps, seen : States]]

(* The row is a cache of the event log: replaying the log gives the state,  *)
(* the unlock, the strikes, the outcome and the proposal that the row holds *)
(* (replay.ts; the orchestrator writes each of them twice, by hand).        *)
RowMatchesLedger ==
    /\ ledger.state = row.state
    /\ ledger.unlocked = row.unlocked
    /\ ledger.outcome = row.outcome
    /\ ledger.noInput = row.noInput
    /\ ledger.proposal = row.proposal

(* The account may be spoken about only after the right party confirmed:    *)
(* whatever tool or move a decider names, and whoever else moved the state  *)
(* while it was thinking.                                                   *)
ProtectedStatesUnlocked == row.state \in PROTECTED_CONTEXT_STATES => row.unlocked

(* A call rests in a state that can take the next turn, or it is over and   *)
(* has its outcome: no transaction leaves it in a closing state, which the  *)
(* deciders have no way out of.                                             *)
OpenStates == {"GREETING", "VERIFYING_IDENTITY", "DISCUSSING_PAYMENT", "CONFIRMING_OUTCOME"}
RestsOpenOrEnded ==
    /\ row.state \in OpenStates \cup {"COMPLETED"}
    /\ row.state = "COMPLETED" <=> row.outcome # None

(* While a turn holds the claim nobody moves the state under its decider,   *)
(* except to end the call: T2 judges the answer against the state it was    *)
(* asked in, or against COMPLETED.                                          *)
StateStableWhileDeciding ==
    \A t \in Turns, p \in Procs :
        run[<<t, p>>].pc = "deciding" /\ row.active = t
            => row.state \in {run[<<t, p>>].seen, "COMPLETED"}

(* The ledger has one truth per turn: a turn is answered at most once, and  *)
(* exactly if it is DONE with a reply; a turn the table calls superseded is *)
(* marked so in the ledger; a turn once marked so is never answered, by a   *)
(* late T2 or by a re-send.                                                 *)
OneTruthPerTurn ==
    \A t \in Turns :
        /\ replies[t] = IF turn[t].status = "DONE" /\ turn[t].disp = "respond" THEN 1 ELSE 0
        /\ turn[t].status = "SUPERSEDED" => t \in superseded
        /\ t \in superseded => replies[t] = 0

(* A promise is recorded for the amount last read to the borrower, and on a *)
(* voice call only if that reading was reported heard and never cut.        *)
PromiseWasHeard ==
    [][crm'.promised # crm.promised =>
          /\ lastRead # None
          /\ crm'.promised = readBack[lastRead]
          /\ "cut" \notin playout[lastRead]
          /\ call.channel = "voice" => "heard" \in playout[lastRead]]_vars

(* What a borrower's turn settled stays settled: a hang-up, a sweep, a late *)
(* signal or another turn never replaces the outcome of a committed turn.   *)
SettledByTurn == {"PROMISE_TO_PAY", "CALLBACK_SCHEDULED", "OPT_OUT", "WRONG_NUMBER", "DISPUTED",
                  "ESCALATED", "THIRD_PARTY_CONTACT", "NO_DISPOSITION"}
TurnOutcomeFinal == [][row.outcome \in SettledByTurn => row'.outcome = row.outcome]_vars

(* After the call the books agree with the outcome the row holds, even when *)
(* a second finalize overwrote the first: nothing will dial a borrower who  *)
(* opted out or a number found wrong, a callback replaces the retry.        *)
BooksMatchOutcome ==
    /\ row.outcome # None =>
        /\ crm.attempt = attemptStatusFor(row.outcome)
        /\ crm.workflow = workflowStatusFor(row.outcome)
    /\ crm.jobs <=> row.outcome # None
    /\ row.outcome = "OPT_OUT" => crm.optedOut /\ crm.pending = {}
    /\ row.outcome = "WRONG_NUMBER" => ~crm.validNumber /\ crm.pending \cap {"CALLBACK", "RETRY_CALL"} = {}
    /\ row.outcome = "CALLBACK_SCHEDULED" => crm.pending = {"CALLBACK"}

(* What the invariants above rest on. A nudge is left while the call is     *)
(* open; the model skips VERIFYING_IDENTITY, so that only the scripted      *)
(* decider's "yes" can leave it; the unlock is not undone; a decider was    *)
(* asked in an open state, about the account only after the unlock; a turn  *)
(* that settles the call gives its claim back in the same commit; the       *)
(* proposal on the row is the one read out last; retries, callbacks and     *)
(* follow-ups are created by the commit that ends the call.                 *)
StrikesLeft == row.outcome = None => row.noInput < NO_INPUT_STRIKES
OnlyScriptedVerifies == call.decider = "openai" => row.state # "VERIFYING_IDENTITY"
UnlockedForGood == row.unlocked => row.state \notin {"GREETING", "VERIFYING_IDENTITY"}
AskedWhileOpen ==
    \A r \in Runs :
        /\ run[r].seen \in OpenStates
        /\ run[r].seen \in PROTECTED_CONTEXT_STATES => row.unlocked
        /\ call.decider = "openai" => run[r].seen # "VERIFYING_IDENTITY"
SettledReleased == row.outcome \in SettledByTurn => row.active = None
ReadBackIsLast ==
    row.proposal # None =>
        lastRead # None /\ row.readBackTurn = lastRead /\ readBack[lastRead] = row.proposal
NothingPendingYet == row.outcome = None => crm.pending = {}

(* The inductive invariant, whether or not server processes overlap.        *)
Inv ==
    /\ TypeOK
    /\ RowMatchesLedger /\ ProtectedStatesUnlocked /\ RestsOpenOrEnded /\ BooksMatchOutcome
    /\ StrikesLeft /\ OnlyScriptedVerifies /\ UnlockedForGood /\ AskedWhileOpen
    /\ SettledReleased /\ ReadBackIsLast /\ NothingPendingYet

(* The row of a call, whoever writes it, moves as CallPath allows: turns     *)
(* that were superseded, decided late or sent again, signals that came      *)
(* between, failed commits and lost servers do not show (T2 locks the row,  *)
(* checks the claim and judges the answer by the state it finds there).     *)
Path == INSTANCE CallPath WITH state <- row.state, unlocked <- row.unlocked,
            proposal <- row.proposal, outcome <- row.outcome, promised <- crm.promised
ImplementsPath == Path!Spec

(* With clean shutdowns only, a claim is always given back, so a simulated  *)
(* caller, who cannot supersede, is never locked out of the call.           *)
ClaimReleased == row.active # None ~> row.active = None

-----------------------------------------------------------------------------
(* What comments and documents say that the code does not do.              *)

(* stateMachine.ts: COMPLETED admits nothing, and an override is legal only *)
(* from a state that is not terminal.                                      *)
OutcomeFinal == [][row.outcome # None => row'.outcome = row.outcome]_vars

(* Orchestrator.ts T1: a SUPERSEDED turn is over.                           *)
SupersededIsOver ==
    [][\A t \in Turns : turn[t].status = "SUPERSEDED" => turn'[t].status = "SUPERSEDED"]_vars

(* Orchestrator.ts: a second consecutive hold is answered. Between two      *)
(* turns met with silence the borrower heard a reply.                       *)
HoldsAnswered ==
    \A i, j \in 1..Len(order) :
        i < j /\ turn[order[i]].disp = "wait" /\ turn[order[j]].disp = "wait"
            => \E k \in i..j : replies[order[k]] > 0

(* Orchestrator.ts T1: a re-send never appends the borrower's line twice.   *)
OneLinePerTurn == \A t \in Turns : lines[t] <= 1

(* TurnRunner.ts: the slot is never cleared under a run that is about to    *)
(* commit, so no turn is lost without a TURN_SUPERSEDED event to say so.    *)
NoSilentLoss == \A t \in Turns : turn[t].status = "SUPERSEDED" => t \in superseded
=============================================================================
