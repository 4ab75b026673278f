------------------------------- MODULE MCRules -------------------------------
(***************************************************************************)
(* The rules a turn is read and answered by, each checked against what it is *)
(* for over bounded inputs. The run that extends this module evaluates them. *)
(***************************************************************************)
EXTENDS MCMeasures

LOCAL M == INSTANCE StateMachine
LOCAL U == INSTANCE Utterances
LOCAL D == INSTANCE ScriptedDecider
LOCAL G == INSTANCE Scenarios WITH Name <- "jordan", Balance <- {550}, Today <- <<2026, 8, 16>>

-----------------------------------------------------------------------------
(* Overrides.                                                              *)

Rank(r) == CHOOSE i \in 1 .. 4 : U!OVERRIDE_PRECEDENCE[i] = r
Rules == ToSet(U!OVERRIDE_PRECEDENCE)
Phrases(r) == U!RULES("jordan")[r]

(* Whatever is said around a phrase, its rule fires or one that outranks it;  *)
(* two phrases in one breath are answered by the more pressing one, in either *)
(* order (matchOverride: no later word takes an opt-out back).               *)
ASSUME OverridesOutrank ==
    \A r, s \in Rules : \A p \in Phrases(r), q \in Phrases(s) :
        LET rule == U!matchOverride(p \o q, "jordan")
        IN  rule \in Rules /\ Rank(rule) <= Rank(r) /\ Rank(rule) <= Rank(s)

(* A contraction is matched as it is transcribed, with its apostrophe or      *)
(* without, and so is "can not" (normalizeUtterance).                        *)
ASSUME ContractionsMatch ==
    /\ \A no \in {<<"can't">>, <<"cant">>, <<"cannot">>, <<"can", "not">>} :
            U!matchOverride(<<"i">> \o no \o <<"afford", "it">>, "jordan") = "HARDSHIP"
    /\ \A c \in U!Contractions : U!normalizeUtterance(<<c.word>>) = U!normalizeUtterance(<<c.bare>>)

(* Asking to be called again is matched as an opt-out, with a "don't" before  *)
(* it or not: the rule is the end of a longer one (overrides.ts:93).         *)
ASSUME CallMeAgainOptsOut ==
    U!matchOverride(<<"can", "you", "call", "me", "again", "tomorrow">>, "jordan") = "OPT_OUT"

(* An opt-out is never taken back by a dispute, nor a dispute by an illness, *)
(* nor any of them by a wrong number; and the borrower's own name disowned is *)
(* a wrong number too (overrides.ts:9, 208).                                 *)
ASSUME PressingFirst ==
    LET told(t) == U!matchOverride(t, "jordan")
        lawyer == <<"my", "lawyer">> stop == <<"stop", "calling">>
        ill == <<"hospital">>        wrong == <<"wrong", "number">>
    IN  /\ told(lawyer \o stop) = "OPT_OUT" /\ told(ill \o lawyer) = "DISPUTE"
        /\ told(wrong \o ill) = "HARDSHIP"
        /\ told(<<"jordan", "moved">>) = "WRONG_NUMBER" /\ told(<<"i'm", "not", "jordan">>) = "WRONG_NUMBER"
        /\ told(<<"this", "is", "jordan">>) = "none" /\ told(<<"sam", "moved">>) = "none"

-----------------------------------------------------------------------------
(* Requests to wait.                                                       *)

Leads == {<<>>, <<"um">>, <<"actually">>, <<"ok", "just">>}

(* A turn that is waited out is dropped before the override rules see it, so  *)
(* none that would have fired one may be taken for a hold, wherever the hold *)
(* phrase stands (Orchestrator.ts:226, 262).                                 *)
ASSUME NoOverrideIsWaitedOut ==
    \A r \in Rules : \A p \in Phrases(r), h \in U!HOLD_PHRASES, lead \in Leads :
        /\ U!holdRequest(lead \o h \o p) = "none"
        /\ U!holdRequest(lead \o p \o h) = "none"
        /\ U!holdRequest(lead \o h \o p \o h) = "none"

(* Nor may an answer: what follows a hold phrase and is more than filler is   *)
(* an answer to be heard, and a phrase alone, or with filler, is a hold.     *)
Content == {"pay", "friday", "no", "yes", "550", "wrong", "dispute", "tomorrow", "later", "speaking"}
ASSUME ContentIsNoHold ==
    \A h \in U!HOLD_PHRASES, lead \in Leads, f \in {<<>>, <<"the", "card">>} :
        /\ U!holdRequest(lead \o h \o f) # "none"
        /\ \A w \in Content : /\ U!holdRequest(lead \o h \o f \o <<w>>) = "none"
                              /\ U!holdRequest(<<w>> \o lead \o h) = "none"

(* The first phrase that fits is the only one: none begins another.          *)
ASSUME OneHoldPhrase ==
    \A h, g \in U!HOLD_PHRASES : U!StartsWith(h, g) => h = g

(* A borrower who goes for something is given longer than one who asks for a  *)
(* beat (holdRequest.ts:106-113).                                            *)
ASSUME ErrandsTakeLonger ==
    /\ U!holdRequest(<<"let", "me", "go", "get", "my", "card">>) = "errand"
    /\ U!holdRequest(<<"give", "me", "a", "minute">>) = "errand"
    /\ \A t \in {<<"wait">>, <<"hold", "on", "a", "second">>, <<"actually", ",", "wait", ".">>} :
            U!holdRequest(t) = "bare"

-----------------------------------------------------------------------------
(* Listening noises.                                                       *)

(* "yes" and "no" are no listening noises, but five words the scripted        *)
(* decider records a promise on are: the read-back goes on over them          *)
(* (backchannel.ts:17, decide.ts:109).                                       *)
ASSUME AnswersAmongNoises ==
    /\ ~U!backchannel(<<"yes">>) /\ ~U!backchannel(<<"no">>)
    /\ {w \in U!TOKENS : D!Says(<<w>>, D!CONFIRM)} = {"yeah", "yep", "right", "ok", "okay"}

(* Speech goes on only over noise, and only where it had stopped; a fourth    *)
(* word, or one that is no noise, lets the borrower in.                      *)
ASSUME OnlyNoiseIsTalkedOver ==
    LET texts == BoundedSeq({"yeah", "right", "stop"}, 4)
    IN  \A t \in texts, seam, paused \in BOOLEAN :
            (U!shouldResume(t, seam, paused) = "resumed")
                <=> (seam /\ paused /\ Len(t) \in 1 .. 3 /\ "stop" \notin ToSet(t))

-----------------------------------------------------------------------------
(* What the scripted decider reads.                                        *)

Days == {<<2026, 8, 16>>, <<2026, 8, 31>>, <<2026, 9, 15>>, <<2026, 12, 31>>, <<2027, 2, 10>>, <<2028, 2, 28>>}
IsBefore(a, b) == a[1] < b[1] \/ (a[1] = b[1] /\ (a[2] < b[2] \/ (a[2] = b[2] /\ a[3] < b[3])))

RelativeTexts ==
    {<<w>> : w \in ToSet(D!WEEKDAYS) \cup {"today", "tomorrow"}}
        \cup {<<"in", n, "days">> : n \in {"2", "ten", "thirty"}}
        \cup {<<"next", "week">>, <<"end", "of", "the", "month">>}

(* A day named from today is a day of the calendar and not past, whatever     *)
(* month or year it runs into; a weekday is never today.                     *)
ASSUME RelativeDatesLieAhead ==
    \A today \in Days, t \in RelativeTexts :
        \E d \in D!parseRelativeDate(t, today) :
            /\ D!IsCalendarDate(d) /\ ~IsBefore(d, today)
            /\ t[1] \in ToSet(D!WEEKDAYS) => d # today /\ D!WEEKDAYS[D!weekdayOf(d) + 1] = t[1]

(* A day of the month lies ahead too, but where its month has no such day the *)
(* parser answers with a date that is none (parse.ts:47), or with one of the *)
(* month after (49).                                                        *)
ASSUME DayOfMonthMayBeNone ==
    LET the(w, today) == CHOOSE d \in D!parseRelativeDate(<<"on", "the", w>>, today) : TRUE
    IN  /\ \A today \in Days, w \in D!OrdinalWords : IsBefore(today, the(w, today))
        /\ \A today \in Days, w \in D!OrdinalWords :
                D!IsCalendarDate(the(w, today)) <=>
                    (D!Ordinal(w) > today[3] => D!Ordinal(w) <= D!DaysIn(today[1], today[2]))
        /\ the("31st", <<2026, 9, 15>>) = <<2026, 9, 31>>
        /\ the("31st", <<2026, 8, 31>>) = <<2026, 10, 1>>

(* "the day after tomorrow" is read as tomorrow: the rule for it stands after *)
(* the one it contains (parse.ts:30-31).                                     *)
ASSUME DayAfterTomorrowIsTomorrow ==
    D!parseRelativeDate(<<"the", "day", "after", "tomorrow">>, <<2026, 8, 16>>) = {<<2026, 8, 17>>}

(* However an amount is spelled it is read; but a lone "and" before it hides  *)
(* it, and a date in digits is read as the amount of its year.               *)
ASSUME AmountsAreRead ==
    /\ \A n \in 1 .. 130 \cup {200, 550, 999, 1000, 1200}, and \in {<<>>, <<"and">>} :
            D!parseAmount(<<"pay">> \o Spell(n, and) \o <<"dollars">>) = {n}
    /\ \A n \in D!Figures \ {0} : D!parseAmount(<<"$", ToString(n), "on", "the", "5">>) = {n}
    /\ D!parseAmount(<<"i", "pay", "on", "the", "5">>) = {}
    /\ D!parseAmount(<<"yes", "and", "i", "pay", "five", "hundred">>) = {}
    /\ D!parseAmount(<<"on", "2026-08-21">>) = {2026}

(* What is promised is what was said, and the balance only where no amount    *)
(* was (decide.ts:80); without either it is asked for.                       *)
ASSUME OwnAmountIsPromised ==
    LET told(t, balance) == D!scriptedDecide("DISCUSSING_PAYMENT", t, <<2026, 8, 16>>, "jordan", balance)
    IN  /\ \A n \in {50, 200, 550}, b \in {{}, {550}} :
                told(<<"i", "pay", ToString(n), "on", "friday">>, b).args.amount = n
        /\ told(<<"i", "pay", "on", "friday">>, {550}).args.amount = 550
        /\ told(<<"i", "pay", "on", "friday">>, {}).says = "what_amount"

(* An hour is as it was said, and one without its half of the day is only     *)
(* taken where it can be the borrower's day.                                 *)
ASSUME HoursAreTheDays ==
    LET hour(t) == D!parseCallbackTime(t, <<2026, 8, 16>>).hour
    IN  /\ \A h \in 1 .. 12 : /\ hour(<<"at", ToString(h) \o "pm">>) = (h % 12) + 12
                              /\ hour(<<"at", ToString(h) \o "am">>) = h % 12
        /\ \A h \in 0 .. 31 : hour(<<"at", ToString(h)>>) = IF h \in 8 .. 20 THEN h ELSE 10
        /\ hour(<<"in", "the", "evening">>) = 18

-----------------------------------------------------------------------------
(* The scripted decider and the state machine.                              *)

Remarks ==
    {<<"yes">>, <<"no">>, <<"who", "is", "this", "?">>, <<"yes", ",", "this", "is", "jordan">>,
     <<"he's", "not", "here">>, <<"i", "can", "pay", "550", "on", "friday">>, <<"i", "can", "pay">>,
     <<"call", "me", "back", "tomorrow">>, <<"how", "much", "is", "it", "?">>, <<"hold", "on">>,
     <<"no", ",", "that's", "not", "right">>, <<"on", "the", "31st">>, <<"stop", "calling", "me">>,
     <<"i", "lost", "my", "job">>, <<"make", "it", "200", "instead">>}

(* Whatever is said in whatever state, the scripted decider calls and         *)
(* suggests what Conversation lets it: no tool out of its state, no move     *)
(* beside its edges (the tables kept by hand in tools.ts and stateMachine.ts *)
(* against decide.ts).                                                       *)
ASSUME DeciderKeepsToItsTables ==
    \A s \in M!States, t \in Remarks :
        LET d == D!scriptedDecide(s, t, <<2026, 8, 16>>, "jordan", {550})
        IN  IF d.tool # D!NoTool
            THEN M!CanCall("scripted", s, d.tool) /\ M!toolAllowed(d.tool, s)
            ELSE M!CanSuggest("scripted", s, d.next) /\ (s = "COMPLETED" \/ M!TransitionAllowed(s, d.next)
                                                         \/ d.next = "ENDING")

(* A borrower who objects to the read-back with "that's not right" has it      *)
(* recorded: the word is looked for among the confirmations before it is      *)
(* looked for among the refusals, where it stands negated (decide.ts:23, 109). *)
ASSUME NotRightConfirms ==
    LET said == D!scriptedDecide("CONFIRMING_OUTCOME", <<"no", ",", "that's", "not", "right">>,
                                 <<2026, 8, 16>>, "jordan", {550})
    IN  said.tool = "record_promise_to_pay" /\ D!Says(<<"not", "right">>, D!DECLINE)

(* A yes with someone else behind it opens nothing: what denies the borrower   *)
(* is read before what affirms them.                                         *)
ASSUME ThirdPartiesOpenNothing ==
    \A yes \in D!AFFIRM, no \in D!NEGATE_IDENTITY \cup {<<"not", "jordan">>}, s \in {"GREETING", "VERIFYING_IDENTITY"} :
        \A t \in {yes \o no, no \o yes} :
            D!scriptedDecide(s, t, <<2026, 8, 16>>, "jordan", {550}).tool = "record_wrong_party_contact"

-----------------------------------------------------------------------------
(* Whole calls.                                                            *)

(* The scenarios of the suite end as it says they do.                        *)
ASSUME ScenariosPass ==
    /\ G!HappyPathPromise /\ G!HappyPathCallback /\ G!WrongNumberImmediate /\ G!WrongPartyDuringVerification
    /\ G!OptOutImmediate /\ G!HardshipEscalation /\ G!DebtDisputeEscalation /\ G!VoicemailDrop
    /\ G!NoInputTimeout /\ G!BargeIn /\ G!DuplicateToolCall /\ G!ProtectedContextNotExposed
    /\ G!ReadBackInterrupted /\ G!InvalidLlmTransition /\ G!ToolInWrongState /\ G!ThirdPartyPhrasings
    /\ G!WrongNumberByName /\ G!DeciderUnavailable /\ G!NoAnswerSignal /\ G!HangupAfterVerification

ShortCalls ==
    {G!ByScript([i \in DOMAIN texts |-> G!Say(ToString(i), texts[i])]) : texts \in BoundedSeq(Remarks, 3)}
Edge(from, to) == M!TransitionAllowed(from, to) \/ M!OverrideAllowed(from, to) \/ M!ForcedAllowed(from, to)

(* Whatever three things are said, in whatever order: the call only takes      *)
(* edges of the machine, is closed exactly when it has an outcome, and        *)
(* nothing of the account is reached, promised or called back for before the  *)
(* right party was confirmed; a promise is the one that was read back.        *)
ASSUME EveryShortCall ==
    \A c \in ShortCalls :
        /\ \A i \in 1 .. Len(c.path) - 1 : Edge(c.path[i], c.path[i + 1])
        /\ (c.outcome # G!NoOutcome) <=> (c.state = "COMPLETED")
        /\ ToSet(c.path) \cap M!PROTECTED_CONTEXT_STATES # {} => c.unlocked
        /\ c.unlocked <=> "confirm_right_party" \in ToSet(c.tools)
        /\ c.promised # {} => <<"propose_promise_to_pay", "record_promise_to_pay">>
                                  = SubSeq(c.tools, Len(c.tools) - 1, Len(c.tools))
        /\ \A p \in c.promised \cup c.proposal : D!IsCalendarDate(p.date)
        /\ c.optedOut => c.pending = {}

(* The second of two holds is answered, so a call cannot be parked for good,   *)
(* and a hold answered in between may be waited out again.                    *)
ASSUME SecondHoldIsAnswered ==
    LET hold(turn) == G!Say(turn, <<"hold", "on">>)
        c == G!ByScript(<<hold("a"), hold("b")>>)
    IN  /\ G!ByScript(<<hold("a")>>).path = <<"GREETING">>
        /\ c.path = <<"GREETING", "VERIFYING_IDENTITY">> /\ ~c.waited
        /\ G!ByScript(<<hold("a"), hold("b"), hold("c")>>).waited
==============================================================================
