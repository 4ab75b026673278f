------------------------------ MODULE Scenarios ------------------------------
(***************************************************************************)
(* The scenario suite (services/Scenarios.ts): calls played one step after  *)
(* another against the orchestrator, and what each is expected to leave.    *)
(* A call here is what one client sees that waits for every answer; its     *)
(* interleavings are Conversation's.                                        *)
(***************************************************************************)
EXTENDS Integers, FiniteSets, Sequences, SequencesExt, StateMachine, TLC

LOCAL U == INSTANCE Utterances
LOCAL D == INSTANCE ScriptedDecider

(* The fixture: the borrower, what is owed, and the day of the call.         *)
CONSTANTS Name, Balance, Today

NoOutcome == "null"
None == "none"

Started(channel) ==
    [channel |-> channel, state |-> "GREETING", path |-> <<"GREETING">>, tools |-> <<>>, control |-> <<>>,
     outcome |-> NoOutcome, unlocked |-> FALSE, proposal |-> {}, readBack |-> None, cut |-> {}, heard |-> {},
     settled |-> {}, waited |-> FALSE, strikes |-> 0, refused |-> <<>>, degraded |-> FALSE, errors |-> 0,
     promised |-> {}, callback |-> {}, pending |-> {}, optedOut |-> FALSE, numberValid |-> TRUE]

Through(c, states) == [c EXCEPT !.path = @ \o states, !.state = Last(<<c.state>> \o states)]
Control(c, action) == [c EXCEPT !.control = Append(@, action)]
ToolRan(c, tool) == [c EXCEPT !.tools = Append(@, tool)]

(* The end of a call: the closing path, and a call to try again.            *)
Finalized(c, outcome) ==
    LET closed == Through(c, IF c.state = "ENDING" THEN <<"COMPLETED">> ELSE <<"ENDING", "COMPLETED">>)
    IN  [closed EXCEPT !.outcome = outcome,
                       !.pending = @ \cup (IF outcome \in Redialled THEN {"RETRY_CALL"} ELSE {})]

-----------------------------------------------------------------------------
(* What a tool does where it is allowed (ToolExecutor), called as the        *)
(* scripted decider calls it.                                               *)
Verifying(c) == IF c.state = "GREETING" THEN <<"VERIFYING_IDENTITY">> ELSE <<>>

(* Reports are of turns; a text call's line was heard unless it was cut.     *)
readBackVerdict(c) ==
    CASE c.readBack \in c.cut -> "interrupted"
      [] c.readBack \notin c.cut /\ (c.readBack \in c.heard \/ c.channel # "voice") -> "heard"
      [] OTHER -> "unconfirmed"

OptOut(c) ==
    Finalized([ToolRan(c, "record_opt_out") EXCEPT !.optedOut = TRUE, !.pending = {}], "OPT_OUT")
WrongNumber(c) ==
    Finalized([ToolRan(c, "record_wrong_party_contact") EXCEPT !.numberValid = FALSE, !.pending = {}], "WRONG_NUMBER")

Refused(c, tool, turn) ==
    IF c.proposal = {}
    THEN [Through(ToolRan(c, tool), <<"DISCUSSING_PAYMENT">>) EXCEPT !.refused = Append(@, "no_proposal")]
    ELSE [ToolRan(c, tool) EXCEPT !.refused = Append(@, readBackVerdict(c)), !.readBack = turn]

Execute(c, tool, args, turn) ==
    CASE ~toolAllowed(tool, c.state) -> [c EXCEPT !.refused = Append(@, "NOT_ALLOWED"), !.degraded = TRUE]
      [] toolAllowed(tool, c.state) ->
            CASE tool = "confirm_right_party" ->
                    [Through(ToolRan(c, tool), Verifying(c) \o <<"DISCUSSING_PAYMENT">>) EXCEPT !.unlocked = TRUE]
              [] tool = "record_wrong_party_contact" ->
                    Finalized(Through(ToolRan(c, tool), Verifying(c) \o <<"THIRD_PARTY_OR_WRONG_PARTY">>),
                              "THIRD_PARTY_CONTACT")
              [] tool = "propose_promise_to_pay" /\ D!IsCalendarDate(args.date) ->
                    [Through(ToolRan(c, tool), <<"CONFIRMING_OUTCOME">>) EXCEPT !.proposal = {args}, !.readBack = turn]
              [] tool = "propose_promise_to_pay" /\ ~D!IsCalendarDate(args.date) ->
                    [c EXCEPT !.refused = Append(@, "INVALID_ARGS"), !.degraded = TRUE]
              [] tool = "record_promise_to_pay" ->
                    IF c.proposal # {} /\ readBackVerdict(c) = "heard"
                    THEN Finalized([ToolRan(c, tool) EXCEPT !.promised = c.proposal, !.proposal = {}], "PROMISE_TO_PAY")
                    ELSE Refused(c, tool, turn)
              [] tool = "schedule_callback" ->
                    Finalized([ToolRan(c, tool) EXCEPT !.callback = {args}, !.pending = {"CALLBACK"}], "CALLBACK_SCHEDULED")

(* An override moves the call and ends it, whatever a decider would say.     *)
Overridden(c, reason) ==
    LET moved == Through(c, <<U!OverrideTarget[reason]>>)
        handedOver == [Control(moved, "WARM_TRANSFER") EXCEPT !.pending = @ \cup {"HUMAN_FOLLOWUP"}]
    IN  CASE reason = "OPT_OUT"      -> OptOut(moved)
          [] reason = "WRONG_NUMBER" -> WrongNumber(moved)
          [] reason = "DISPUTE"      -> Finalized(handedOver, "DISPUTED")
          [] reason = "HARDSHIP"     -> Finalized(handedOver, "ESCALATED")

Moved(c, next) ==
    CASE ~TransitionAllowed(c.state, next) -> [c EXCEPT !.degraded = TRUE]
      [] TransitionAllowed(c.state, next) /\ next = c.state -> c
      [] OTHER ->
            LET there == [Through(c, <<next>>) EXCEPT !.proposal = IF c.state = "CONFIRMING_OUTCOME" THEN {} ELSE @]
            IN  CASE next = "ENDING" -> Finalized(there, "NO_DISPOSITION")
                  [] next = "WARM_TRANSFER_PENDING" ->
                        Finalized([Control(there, "WARM_TRANSFER") EXCEPT !.pending = @ \cup {"HUMAN_FOLLOWUP"}],
                                  "ESCALATED")
                  [] OTHER -> there

Decided(c, d, turn) ==
    IF d.tool # D!NoTool THEN Execute(c, d.tool, d.args, turn) ELSE Moved(c, d.next)

-----------------------------------------------------------------------------
(* One step of a scenario.                                                  *)
Say(turn, text) == [kind |-> "turn", turn |-> turn, text |-> text, of |-> None, cut |-> FALSE]
Over(turn, text, of, cut) == [kind |-> "turn", turn |-> turn, text |-> text, of |-> of, cut |-> cut]
Signal(kind) == [kind |-> kind]

Reported(c, s) ==
    IF s.of = None THEN c
    ELSE IF s.cut THEN [c EXCEPT !.cut = @ \cup {s.of}] ELSE [c EXCEPT !.heard = @ \cup {s.of}]

Scripted == [kind |-> "scripted"]
Failing == [kind |-> "failing"]
Static(d) == [kind |-> "static", decision |-> d]
DeciderFor(decider, c, text) ==
    IF decider.kind = "static" THEN decider.decision ELSE D!scriptedDecide(c.state, text, Today, Name, Balance)

processTurn(c, s, decider) ==
    LET claimed == [Reported(c, s) EXCEPT !.strikes = 0]
        done == [claimed EXCEPT !.settled = @ \cup {s.turn}, !.waited = FALSE]
        reason == U!matchOverride(s.text, Name)
    IN  CASE s.turn \in c.settled -> c
          [] s.turn \notin c.settled /\ c.outcome # NoOutcome -> [c EXCEPT !.errors = @ + 1]
          [] s.turn \notin c.settled /\ c.outcome = NoOutcome ->
                CASE U!holdRequest(s.text) # "none" /\ ~c.waited -> [done EXCEPT !.waited = TRUE]
                  [] ~(U!holdRequest(s.text) # "none" /\ ~c.waited) /\ reason # "none" -> Overridden(done, reason)
                  [] OTHER ->
                        IF decider.kind = "failing" THEN [done EXCEPT !.degraded = TRUE]
                        ELSE Decided(done, DeciderFor(decider, c, s.text), s.turn)

NO_INPUT_STRIKES == 2
processNoInput(c) ==
    LET struck == [c EXCEPT !.strikes = @ + 1]
    IN  CASE c.outcome # NoOutcome -> [c EXCEPT !.errors = @ + 1]
          [] c.outcome = NoOutcome /\ struck.strikes >= NO_INPUT_STRIKES ->
                Finalized(Control(struck, "NO_INPUT_CLOSE"), "NO_ANSWER")
          [] OTHER -> struck

processSignal(c, kind) ==
    CASE c.outcome # NoOutcome -> [c EXCEPT !.errors = @ + 1]
      [] c.outcome = NoOutcome /\ kind = "machine" ->
            Finalized(Control(Through(c, <<"VOICEMAIL">>), "VOICEMAIL_DROP"), "VOICEMAIL_LEFT")
      [] c.outcome = NoOutcome /\ kind = "no_answer" -> Finalized(Control(c, "NO_ANSWER"), "NO_ANSWER")
      [] c.outcome = NoOutcome /\ kind = "hangup" ->
            Finalized(Control(c, "HANGUP"), IF c.unlocked THEN "FAILED" ELSE "NO_ANSWER")

Step(c, s, decider) ==
    CASE s.kind = "turn"     -> processTurn(c, s, decider)
      [] s.kind = "no_input" -> processNoInput(c)
      [] OTHER               -> processSignal(c, s.kind)

Play(steps, decider, channel) == FoldLeft(LAMBDA c, s : Step(c, s, decider), Started(channel), steps)

(* What a scenario may say of its end. The path a replay of the events reads *)
(* ends where the row is.                                                   *)
Passes(c, path, tools, control, outcome) ==
    /\ c.path = path /\ c.tools = tools /\ c.control = control
    /\ c.outcome = outcome
    /\ Last(c.path) = c.state
    /\ c.errors = 0

-----------------------------------------------------------------------------
(* The scenarios, by their names.                                           *)
HAPPY_PATH == <<"GREETING", "VERIFYING_IDENTITY", "DISCUSSING_PAYMENT", "CONFIRMING_OUTCOME", "ENDING", "COMPLETED">>
CALLBACK_PATH == <<"GREETING", "VERIFYING_IDENTITY", "DISCUSSING_PAYMENT", "ENDING", "COMPLETED">>
THIRD_PARTY_PATH == <<"GREETING", "VERIFYING_IDENTITY", "THIRD_PARTY_OR_WRONG_PARTY", "ENDING", "COMPLETED">>
Ended(state) == <<"GREETING", state, "ENDING", "COMPLETED">>
PROMISE_TOOLS == <<"confirm_right_party", "propose_promise_to_pay", "record_promise_to_pay">>
CALLBACK_TOOLS == <<"confirm_right_party", "schedule_callback">>

ThisIsJordan == Say("t1", <<"yes", "this", "is", "jordan">>)
PayOnFriday == Say("t2", <<"i", "can", "pay", "550", "on", "friday">>)
Yes(turn) == Say(turn, <<"yes">>)
ByScript(steps) == Play(steps, Scripted, "simulated")

HappyPathPromise ==
    LET c == ByScript(<<Say("t1", <<"yes", ",", "this", "is", "jordan">>), PayOnFriday, Yes("t3")>>)
    IN  /\ Passes(c, HAPPY_PATH, PROMISE_TOOLS, <<>>, "PROMISE_TO_PAY")
        /\ c.promised = {[amount |-> 550, date |-> <<2026, 8, 21>>]}

HappyPathCallback ==
    LET c == ByScript(<<Say("t1", <<"speaking">>),
                        Say("t2", <<"can", "you", "call", "me", "back", "tomorrow", "at", "3pm", "?">>)>>)
    IN  /\ Passes(c, CALLBACK_PATH, CALLBACK_TOOLS, <<>>, "CALLBACK_SCHEDULED")
        /\ c.pending = {"CALLBACK"} /\ c.callback = {[date |-> <<2026, 8, 17>>, hour |-> 15]}

WrongNumberImmediate ==
    LET c == ByScript(<<Say("t1", <<"you've", "got", "the", "wrong", "number">>)>>)
    IN  /\ Passes(c, Ended("WRONG_NUMBER"), <<"record_wrong_party_contact">>, <<>>, "WRONG_NUMBER")
        /\ ~c.numberValid

WrongPartyDuringVerification ==
    LET c == ByScript(<<Say("t1", <<"who", "is", "this", "?">>),
                        Say("t2", <<"he's", "not", "available", "right", "now", ",", "can", "i", "take", "a",
                                    "message", "?">>)>>)
    IN  /\ Passes(c, THIRD_PARTY_PATH, <<"record_wrong_party_contact">>, <<>>, "THIRD_PARTY_CONTACT")
        /\ c.numberValid /\ "RETRY_CALL" \in c.pending /\ ~c.unlocked

OptOutImmediate ==
    LET c == ByScript(<<Say("t1", <<"please", "stop", "calling", "me">>)>>)
    IN  Passes(c, Ended("OPT_OUT"), <<"record_opt_out">>, <<>>, "OPT_OUT") /\ c.optedOut

HardshipEscalation ==
    LET c == ByScript(<<Say("t1", <<"i", "lost", "my", "job", "and", "i", "can't", "afford", "this", "right", "now">>)>>)
    IN  Passes(c, Ended("ESCALATED"), <<>>, <<"WARM_TRANSFER">>, "ESCALATED") /\ "HUMAN_FOLLOWUP" \in c.pending

DebtDisputeEscalation ==
    Passes(ByScript(<<Say("t1", <<"i", "don't", "owe", "this", ",", "i", "dispute", "this", "debt">>)>>),
           Ended("ESCALATED"), <<>>, <<"WARM_TRANSFER">>, "DISPUTED")

VoicemailDrop ==
    Passes(Play(<<Signal("machine")>>, Scripted, "voice"),
           Ended("VOICEMAIL"), <<>>, <<"VOICEMAIL_DROP">>, "VOICEMAIL_LEFT")

NoInputTimeout ==
    LET c == ByScript(<<Signal("no_input"), Signal("no_input")>>)
    IN  /\ Passes(c, <<"GREETING", "ENDING", "COMPLETED">>, <<>>, <<"NO_INPUT_CLOSE">>, "NO_ANSWER")
        /\ "RETRY_CALL" \in c.pending /\ c.strikes = 2

BargeIn ==
    LET c == ByScript(<<ThisIsJordan,
                        Over("t2", <<"just", "call", "me", "back", "tomorrow", "morning">>, "t1", TRUE)>>)
    IN  Passes(c, CALLBACK_PATH, CALLBACK_TOOLS, <<>>, "CALLBACK_SCHEDULED") /\ c.cut = {"t1"}

DuplicateToolCall ==
    Passes(ByScript(<<ThisIsJordan, PayOnFriday, Yes("t3"), Yes("t3")>>),
           HAPPY_PATH, PROMISE_TOOLS, <<>>, "PROMISE_TO_PAY")

ProtectedContextNotExposed ==
    LET before == <<Say("t1", <<"who", "is", "this", "?">>), Say("t2", <<"what", "is", "this", "about", "?">>)>>
        after == <<Say("t3", <<"ok", "yes", "this", "is", "jordan">>),
                   Say("t4", <<"call", "me", "back", "tomorrow">>)>>
    IN  /\ Passes(ByScript(before \o after), CALLBACK_PATH, CALLBACK_TOOLS, <<>>, "CALLBACK_SCHEDULED")
        /\ ~ByScript(before).unlocked

ReadBackInterrupted ==
    LET c == ByScript(<<ThisIsJordan, Say("t2", <<"i'll", "pay", "550", "on", "friday">>),
                        Over("t3", <<"yes">>, "t2", TRUE), Over("t4", <<"yes">>, "t3", FALSE)>>)
    IN  /\ Passes(c, HAPPY_PATH, Append(PROMISE_TOOLS, "record_promise_to_pay"), <<>>, "PROMISE_TO_PAY")
        /\ c.refused = <<"interrupted">>

InvalidLlmTransition ==
    LET c == Play(<<Say("t1", <<"hello", "?">>)>>, Static(D!Say("read_back", "CONFIRMING_OUTCOME")), "simulated")
    IN  Passes(c, <<"GREETING">>, <<>>, <<>>, NoOutcome) /\ c.degraded

ToolInWrongState ==
    LET c == Play(<<Say("t1", <<"sure", "whatever">>)>>,
                  Static(D!Call("record_promise_to_pay", TRUE, D!Stay)), "simulated")
    IN  Passes(c, <<"GREETING">>, <<>>, <<>>, NoOutcome) /\ c.refused = <<"NOT_ALLOWED">>

ThirdPartyPhrasings ==
    LET c == ByScript(<<Say("t1", <<"yes", ",", "but", "she's", "not", "here", "right", "now">>)>>)
    IN  Passes(c, THIRD_PARTY_PATH, <<"record_wrong_party_contact">>, <<>>, "THIRD_PARTY_CONTACT") /\ ~c.unlocked

WrongNumberByName ==
    Passes(ByScript(<<Say("t1", <<"i", "am", "not", "jordan", ",", "he", "moved", "out", "last", "year">>)>>),
           Ended("WRONG_NUMBER"), <<"record_wrong_party_contact">>, <<>>, "WRONG_NUMBER")

DeciderUnavailable ==
    LET c == Play(<<ThisIsJordan>>, Failing, "simulated")
    IN  Passes(c, <<"GREETING">>, <<>>, <<>>, NoOutcome) /\ c.degraded

NoAnswerSignal ==
    Passes(Play(<<Signal("no_answer")>>, Scripted, "voice"),
           <<"GREETING", "ENDING", "COMPLETED">>, <<>>, <<"NO_ANSWER">>, "NO_ANSWER")

HangupAfterVerification ==
    Passes(ByScript(<<ThisIsJordan, Signal("hangup")>>),
           CALLBACK_PATH, <<"confirm_right_party">>, <<"HANGUP">>, "FAILED")
==============================================================================
