----------------------------- MODULE MCBoundaries -----------------------------
(***************************************************************************)
(* The rules at the edges of the system, each checked against what it is for *)
(* over bounded inputs: what is let in, what the model may answer, what is   *)
(* shown and kept of the account, how long is waited. The run that extends   *)
(* this module evaluates them.                                              *)
(***************************************************************************)
EXTENDS Integers, FiniteSets, Sequences, SequencesExt, TLC

LOCAL M == INSTANCE StateMachine
LOCAL H == INSTANCE Gate WITH WINDOW_MS <- 2, MAX_BUCKETS <- 4

-----------------------------------------------------------------------------
(* What is let in.                                                         *)

PerWindow == 2
Knocks(keys, n) == UNION {[1 .. k -> keys \X {0, 1, 3}] : k \in 1 .. n}
AtTime(knocks, i) == 100 + FoldLeft(LAMBDA t, k : t + k[2], 0, SubSeq(knocks, 1, i))
Knocked(knocks) ==
    FoldLeft(LAMBDA s, i :
                LET c == H!check(s.limiter, knocks[i][1], PerWindow, AtTime(knocks, i))
                IN  [limiter |-> c.limiter, in |-> IF c.ok THEN s.in \cup {i} ELSE s.in],
             [limiter |-> H!NewLimiter, in |-> {}], [i \in DOMAIN knocks |-> i])

(* However a caller's requests fall, the windows never let in more than two    *)
(* full ones within a window's length; and whatever was refused meanwhile,    *)
(* a caller who waits out a window is let in (rateLimit.ts check).           *)
ASSUME LimitHolds ==
    \A knocks \in Knocks({"a", "b"}, 4) :
        LET k == Knocked(knocks)
        IN  /\ \A key \in {"a", "b"}, i \in DOMAIN knocks :
                    Cardinality({j \in k.in : knocks[j][1] = key /\ AtTime(knocks, j) - AtTime(knocks, i) \in 0 .. 2})
                        <= 2 * PerWindow
            /\ \A key \in {"a", "b"} : H!check(k.limiter, key, PerWindow, AtTime(knocks, Len(knocks)) + 3).ok

(* There are never more buckets than the ceiling, and no caller not seen      *)
(* before is refused, however many there are (rateLimit.ts:8-10).            *)
ASSUME NewCallersGetIn ==
    \A gaps \in [1 .. 6 -> {0, 1, 3}] :
        LET knocks == [i \in 1 .. 6 |-> <<i, gaps[i]>>]
        IN  Len(Knocked(knocks).limiter.buckets) <= 4 /\ Knocked(knocks).in = 1 .. 6

(* What goes at the ceiling is who was seen first, which need not be the       *)
(* oldest window: "a" has just begun one, and with it goes the count.        *)
ASSUME FirstSeenIsForgotten ==
    LET knocks == <<<<"a", 0>>, <<"b", 1>>, <<"c", 0>>, <<"a", 2>>, <<"a", 0>>, <<"d", 0>>, <<"e", 0>>>>
        k == Knocked(knocks)
    IN  /\ {k.limiter.buckets[i].key : i \in DOMAIN k.limiter.buckets} = {"b", "c", "d", "e"}
        /\ ~H!check(Knocked(SubSeq(knocks, 1, 6)).limiter, "a", PerWindow, 103).ok
        /\ H!check(k.limiter, "a", PerWindow, 103).ok

GateConfig == [bearer |-> "token", bypass |-> "harness", perMinute |-> 2, dailyTurnCap |-> 2]
Asked(kind, bypass, auth) ==
    [kind |-> kind, ip |-> "a", bypass |-> bypass, auth |-> auth, now |-> 100, day |-> 1]
Asks == {Asked(kind, bypass, "token") : kind \in {"turn", "start", "heartbeat", "read"}, bypass \in {"", "harness"}}
            \cup {Asked("turn", "harness", ""), Asked("heartbeat", "", "")}
Served(asks) ==
    FoldLeft(LAMBDA s, r : LET m == H!securityMiddleware(s.gate, r, GateConfig)
                           IN  [gate |-> m.gate, answers |-> Append(s.answers, m.answer)],
             [gate |-> H!NewGate, answers |-> <<>>], asks)

(* No load keeps a worker's heartbeat out, nor a harness with its token; no    *)
(* token gets in who may not; and of the others' turns no more pass in a day  *)
(* than its budget, of which one refused by the limiter takes nothing         *)
(* (app.ts:51-92).                                                          *)
ASSUME HeartbeatsGetThrough ==
    \A asks \in [1 .. 4 -> Asks] :
        LET a == Served(asks).answers
            own == {i \in 1 .. 4 : asks[i].kind = "turn" /\ asks[i].bypass = ""}
        IN  /\ \A i \in 1 .. 4 :
                    IF asks[i].auth # "token" /\ asks[i].kind # "read" THEN a[i] = "unauthorized"
                    ELSE asks[i].kind = "heartbeat" \/ asks[i].bypass = "harness" => a[i] = "app"
            /\ Cardinality({i \in own : a[i] = "app"}) <= 2
            /\ Served(asks).gate.count = Cardinality({i \in own : a[i] \in {"app", "rate_limited_daily_cap"}})

(* Ready is answered only when each loop that is expected was begun, and has   *)
(* come round within three of its intervals, or has had less than one since   *)
(* it began: one that fails each time is never ready for long.               *)
LoopSteps == UNION {[1 .. k -> {"outbox", "sweeper"} \X {"register", "tick", "fail"} \X {0, 2, 5}] : k \in 0 .. 3}
Looped(steps) ==
    FoldLeft(LAMBDA s, e :
                LET now == s.now + e[3]
                IN  [now |-> now,
                     ticks |-> CASE e[2] = "register" -> H!rowFor(s.ticks, e[1], 2, now)
                                 [] e[2] = "tick"     -> H!Ticked(s.ticks, e[1], 2, now)
                                 [] e[2] = "fail"     -> H!TickFailed(s.ticks, e[1], 2, now),
                     seen |-> IF e[1] \in DOMAIN s.seen /\ e[2] # "tick" THEN s.seen
                              ELSE (e[1] :> [at |-> now, ticked |-> e[2] = "tick"]) @@ s.seen],
             [now |-> 0, ticks |-> <<>>, seen |-> <<>>], steps)
ASSUME ReadyMeansTicking ==
    \A steps \in LoopSteps, wait \in 0 .. 7 :
        LET s == Looped(steps)
            fresh(loop) == loop \in DOMAIN s.seen
                            /\ s.now + wait - s.seen[loop].at <= IF s.seen[loop].ticked THEN 6 ELSE 2
        IN  (H!readyz("answers", {"outbox", "sweeper"}, s.ticks, s.now + wait) = "ready")
                <=> (fresh("outbox") /\ fresh("sweeper"))

(* A probe that runs out of time is reported as a database that refused: the   *)
(* reason it was given is mapped away (handlers.ts:95-98).                   *)
ASSUME ProbeTimeoutUnnamed == H!probe("waits") = H!probe("refuses")

-----------------------------------------------------------------------------
(* What the model may answer.                                              *)

LOCAL V == INSTANCE ModelStream WITH Parts <- 2

(* One call at a time, begun before its arguments come, as it is asked for     *)
(* (parallel_tool_calls is off).                                            *)
BeginCall(tool) == V!Chunk(V!None, tool, <<>>, FALSE)
Args(i) == V!Chunk(V!None, V!None, <<<<"first", i>>>>, FALSE)
Text(t) == V!Chunk(t, V!None, <<>>, FALSE)
TheEnd == V!Chunk(V!None, V!None, <<>>, TRUE)
Streams ==
    LET calls == {<<>>} \cup {SubSeq(<<BeginCall(tool), Args(1), Args(2)>>, 1, n) :
                                 n \in 1 .. 3, tool \in {"propose_promise_to_pay", "end_call", "no_such_tool"}}
        texts == {<<>>, <<Text("sure")>>, <<Text("sure"), Text(" ")>>, <<Text(" ")>>}
    IN  {before \o call \o after \o end : before, after \in texts, call \in calls, end \in {<<>>, <<TheEnd>>}}
Attempts == [chunks : Streams, fails : BOOLEAN]
CameOut(chunks) == ~V!beforeAnyOutput(V!Read(V!Acc0, chunks))

(* A request that fails is made once more and no more, and only when nothing   *)
(* had come of it: no word reaches the borrower twice, and a decision is made *)
(* of one answer, which had not failed, with all the arguments of its call; one *)
(* that begins with the call says nothing beside it.                         *)
ASSUME OneAnswerDecides ==
    \A a \in Attempts, b \in {[chunks |-> c, fails |-> f] :
                                 c \in {<<>>, <<Text("sure"), TheEnd>>, <<BeginCall("propose_promise_to_pay"), Args(1), Args(2)>>},
                                 f \in BOOLEAN} :
        LET d == V!decide(<<a, b>>)
            again == a.fails /\ ~CameOut(a.chunks)
            made == IF again THEN b ELSE a
        IN  /\ d.result.message = V!Read(V!Acc0, made.chunks).content
            /\ made.chunks # <<>> /\ made.chunks[1].name # V!None => d.result.message = <<>>
            /\ d.result.kind = "unavailable" <=> made.fails
            /\ d.result.kind = "decision" /\ d.result.tool # V!None => Len(d.result.args) \in {0, 2}
            /\ Len(d.events) = Cardinality({i \in 1 .. 2 : <<a, b>>[i].fails /\ (i = 2 => again)})

(* The last failure is reported as a retry too, though none follows it         *)
(* (OpenAITurnDecider.ts:56-60).                                            *)
ASSUME LastFailureIsNoRetry ==
    LET fails == [chunks |-> <<>>, fails |-> TRUE]
    IN  V!decide(<<fails, fails>>).events = <<"retry", "retry">>

(* An answer that is cut off at its limit of tokens is taken for a whole one,  *)
(* and one that makes two calls gives the first the second's arguments.      *)
ASSUME CutOffIsWhole ==
    /\ V!Concluded(V!Read(V!Acc0, <<Text("the")>>)) = V!Concluded(V!Read(V!Acc0, <<Text("the"), TheEnd>>))
    /\ V!Concluded(V!Read(V!Acc0, <<BeginCall("get_account_context"), BeginCall("propose_promise_to_pay"), Args(1), Args(2)>>)).tool
            = "get_account_context"

(* Of what is offered in a state, these moves are no edges there and are       *)
(* refused when they are made: a goodbye before the read-back, and a human    *)
(* asked for during it (prompts.ts:14-27, stateMachine.ts:13-32).            *)
ASSUME OfferedButRefused ==
    {<<s, p>> \in M!States \X DOMAIN V!PSEUDO_TOOLS :
        p \in V!toolSpecsFor(s) /\ s # V!PSEUDO_TOOLS[p] /\ ~M!TransitionAllowed(s, V!PSEUDO_TOOLS[p])}
            = ({"GREETING", "VERIFYING_IDENTITY", "DISCUSSING_PAYMENT"} \X {"end_call"})
                \cup {<<"CONFIRMING_OUTCOME", "request_human">>}

-----------------------------------------------------------------------------
(* What is shown and kept of the account.                                  *)

LOCAL X == INSTANCE Disclosure

PriorCalls(n) ==
    {[i \in 1 .. n |-> [id |-> ToString(i), ended_at |-> IF f[i] = "open" THEN X!Null ELSE ToString(i),
                        final_outcome |-> IF f[i] = "promise" THEN "PROMISE_TO_PAY" ELSE "NO_ANSWER",
                        reason |-> X!Null, protected_context_unlocked |-> f[i] = "promise",
                        promise |-> "promise" \o ToString(i), callback_at |-> X!Null,
                        transcript_excerpt |-> X!Null, borrower_last |-> X!Null]] :
        f \in [1 .. n -> {"promise", "none", "open"}]}
Row == [id |-> "this", name |-> "jordan", loans |-> {}]

(* The memory is of calls that ended, and its promise the newest among them;   *)
(* it tells of five calls at most, and says there were five when there were    *)
(* more, of which an older promise is not told (prompts.ts:142).             *)
ASSUME MemoryOfEndedCalls ==
    \A calls \in PriorCalls(6) :
        LET m == X!forConversation(Row, calls).memory
            ended == {i \in 1 .. 6 : calls[i].ended_at # X!Null}
            told == {i \in ended : Cardinality({j \in ended : j <= i}) <= 5}
            promises == {i \in told : calls[i].final_outcome = "PROMISE_TO_PAY"}
        IN  /\ m.prior_conversation_count = Cardinality(told)
            /\ Len(m.prior_calls) = Cardinality(told)
            /\ m.last_promise_to_pay = IF promises = {} THEN X!Null
                                       ELSE calls[CHOOSE i \in promises : \A j \in promises : i <= j].promise

(* A borrower's words of a call that ended in distress or dispute are the       *)
(* ones that ended it, never those that came last (context.ts:150-172).      *)
ASSUME ExcerptOrLastWords ==
    \A outcome \in M!Outcomes, reason \in {"hardship_or_distress", "requested"} :
        X!priorCallNote([final_outcome |-> outcome, reason |-> reason, transcript_excerpt |-> "excerpt",
                         borrower_last |-> "last"]).words
            = CASE outcome = "DISPUTED" -> "excerpt"
                [] outcome = "ESCALATED" -> IF reason = "requested" THEN X!Null ELSE "excerpt"
                [] OTHER -> "last"

Blocks ==
    {<<"pay">>, <<"about">>, <<"of">>, <<"august">>, <<"d2">>, <<"d2", "th">>, <<"d4">>, <<"d7">>, <<"d2", "-", "d2">>,
     <<"d4", "-", "d2", "-", "d2">>, <<"d4", "-", "d4", "-", "d2">>, <<"d3", "-", "d3", "-", "d4">>, <<"days">>,
     <<"late">>, <<"dollars">>, <<"$", "d3">>, <<"1.00">>, <<"percent">>}
Sayings(blocks, n) == {FlattenSeq(b) : b \in BoundedSeq(blocks, n)}

(* Whatever is said, what is left of it has no sum in its shape, no date, no    *)
(* run of seven digits with or without hyphens, and no number that a payment   *)
(* word claims but a count; and masking it again takes nothing more.         *)
ASSUME NothingOfTheAccountIsKept ==
    \A t \in Sayings(Blocks, 3) :
        LET r == X!redactAccountData(t)
        IN  /\ X!redactAccountData(r) = r
            /\ ToSet(r) \cap {"1.00", "d7", "$", "dollars"} \subseteq {"dollars"}
            /\ \A i \in DOMAIN r : /\ X!DigitCount(SubSeq(r, i, i + X!Identifier(r, i) - 1)) < 7
                                   /\ r[i] = "august" => X!Day(r, i + 1) = 0
                                   /\ r[i] = "pay" /\ X!LengthAt(r, i + 1, 1 .. 7) => X!WordAt(r, i + 2, X!COUNTED)

(* A date and a sum are masked as one, whichever way they are written.         *)
ASSUME FactsGoWhole ==
    \A before \in {<<>>, <<"pay">>, <<"about">>, <<"of">>} :
        /\ \A date \in {<<"d4", "-", "d2", "-", "d2">>, <<"d1", "-", "d2">>, <<"d2", "-", "d2", "-", "d4">>, <<"8/21">>,
                         <<"august", "d2">>, <<"august", "d2", "th", "d4">>, <<"d2", "th", "of", "august">>,
                         <<"d2", "august", "d4">>} :
                X!redactAccountData(before \o date) = Append(before, "[date]")
        /\ \A sum \in {<<"$", "d4">>, <<"$", "1.00">>, <<"d4", "dollars">>, <<"1.00", "dollars">>, <<"1.00">>} :
                X!redactAccountData(before \o sum) = Append(before, "[amount]")

(* A count is not taken: what has neither a payment word, a month, a mark of   *)
(* money nor an identifier in it is kept as it was, days behind excepted.     *)
ASSUME CountsAreKept ==
    \A t \in Sayings({<<"about">>, <<"of">>, <<"d2">>, <<"d2", "th">>, <<"d4">>, <<"days">>, <<"late">>, <<"percent">>}, 4) :
        \/ X!redactAccountData(t) = t
        \/ \E i \in DOMAIN t : X!WordAt(t, i, X!Runs) /\ X!WordAt(t, i + 1, {"days"}) /\ X!WordAt(t, i + 2, {"late"})

(* The hyphens of an identifier may be taken for a date's, and a payment word    *)
(* may take its first digits: the rest of it stays (redact.ts:67-71, 94-97).  *)
ASSUME PartOfAnIdentifierIsKept ==
    /\ X!redactAccountData(<<"d3", "-", "d2", "-", "d2">>) = <<"d3", "-", "[date]">>
    /\ X!redactAccountData(<<"pay", "d4", "-", "d4", "-", "d2">>) = <<"pay", "[amount]", "-", "d4", "-", "d2">>

(* "%" is among what a number must not be followed by, but the pattern asks    *)
(* for the end of a word behind it, which never comes: a share is masked as    *)
(* the amount it is not, though the word for it is not (redact.ts:54, 95).    *)
ASSUME ShareTakenForAmount ==
    /\ X!redactAccountData(<<"pay", "d2", "%">>) = <<"pay", "[amount]", "%">>
    /\ X!redactAccountData(<<"pay", "d2", "percent">>) = <<"pay", "d2", "percent">>

(* The balance goes by its key whatever its shape. An amount the model puts     *)
(* into a call stays unless it is written with its cents: its key is not one   *)
(* of those (redact.ts:130-154, tools.ts:47).                                *)
ASSUME AmountOfACallIsKept ==
    LET kept(f) == X!redactAccountDataDeep({f}) = {f}
    IN  /\ \A kind \in {"number", "text"} : ~kept(X!Field("balancedue", kind, <<"d3">>))
        /\ \A kind \in {"number", "text"} : kept(X!Field("amount", kind, <<"d3">>))
        /\ ~kept(X!Field("amount", "text", <<"1.00">>))

(* Before the right party is verified, and outside the states that speak of     *)
(* the account, neither the model nor the recogniser is told anything of it.  *)
ASSUME NothingBeforeVerification ==
    \A state \in M!States, unlocked \in BOOLEAN, loans \in SUBSET {[balance |-> 550, due |-> "august", status |-> "DELINQUENT", days |-> 15, promised |-> X!Null]} :
        LET row == [Row EXCEPT !.loans = loans]
            seen == X!visibleContext(X!forConversation(row, <<>>), state, unlocked)
        IN  /\ seen.protectedContext # {} =>
                    unlocked /\ state \notin {"GREETING", "VERIFYING_IDENTITY", "VOICEMAIL", "WRONG_NUMBER",
                                              "THIRD_PARTY_OR_WRONG_PARTY"}
            /\ (seen.memory = {}) <=> ~(unlocked /\ state \in M!PROTECTED_CONTEXT_STATES)
            /\ X!biasTermsFor([name |-> "jordan", creditor |-> "us", balance |-> 550, dueMonth |-> "august"], FALSE) = {}

-----------------------------------------------------------------------------
(* When, how long and with what.                                           *)

LOCAL P == INSTANCE Policies

(* A zone whose clocks are put on or back by an hour, at two at night.        *)
Zones == {z \in [shift : 90 .. 200, before : {-16, 0, 11, 24}, after : {-18, -16, -14, -2, 0, 2, 11, 22, 24, 26}] :
            z.after - z.before \in {-2, 0, 2} /\ (z.shift + z.before) % 48 = 4}

(* An action that is put off is put to eight in the morning where the borrower  *)
(* is, within the day that follows or the hour by which it is longer, be the   *)
(* clocks put on or back meanwhile, and a call is within the window there.    *)
ASSUME PutOffToTheMorning ==
    \A zone \in Zones, now \in 60 .. 210 :
        LET next == P!nextLocalHour(now, zone, 8)
        IN  /\ P!TimeOfDay(P!localParts(next, zone)) = 16
            /\ next > now /\ next - now <= 50
            /\ P!isWithinContactWindow(next, zone)
            /\ \A t \in now + 1 .. next - 1 : P!TimeOfDay(P!localParts(t, zone)) # 16

(* At eight itself it is put off to the morrow, where it is said to be at or    *)
(* after (time.ts:15, 24).                                                  *)
ASSUME AtEightIsTomorrow ==
    LET zone == [shift |-> 0, before |-> 0, after |-> 0] IN P!nextLocalHour(112, zone, 8) = 160

(* A segment whose length is known is waited for until its report, if that      *)
(* comes by the margin after its end, or else no longer than the margin and    *)
(* a poll; but a turn that comes in that margin itself does not wait for it    *)
(* (holdPolicy.ts:20-26, 71).                                               *)
ASSUME HeldForTheReport ==
    \A audio \in {300, 1000, 8000, 11500}, since \in {-100, 0, 200, 900, 7900, 8000, 8100}, late \in {0, 100, 399, 700, 20000} :
        LET began == IF since < 0 THEN 0 ELSE since
            reportAt == audio + late - began
            held == P!holdForPlayout(audio, since, "voice", reportAt)
        IN  /\ began < audio /\ late <= 400 => held >= reportAt
            /\ held <= audio - began + 400 + P!HOLD_POLL_MS \/ held = 0
            /\ began >= audio => held = 0
            /\ P!holdForPlayout(audio, since, "simulated", reportAt) = 0

(* A silence that was asked for is never waited out longer than one that was    *)
(* not plus the errand, and a dead line after a bare hold is closed in twenty  *)
(* seconds (waitPolicy.ts:24-38).                                           *)
ASSUME DeadLineCloses ==
    /\ P!waitWindowMs("bare") + P!NUDGE_WINDOW_MS = 20000
    /\ P!waitWindowMs("bare") < P!SILENCE_WINDOW_MS /\ P!SILENCE_WINDOW_MS < P!waitWindowMs("errand")

Options == P!LivekitOptions \cup P!LangfuseOptions
                \cup {"LIVEKIT_SIP_OUTBOUND_TRUNK_ID", "API_BEARER_TOKEN", "RATE_LIMIT_BYPASS_TOKEN"}
Environments == [Options -> {P!Absent, P!Blank, "set"}]

(* An option given blank is as if it were not given, for the tokens and the    *)
(* trunk. Not so for the media plane: the blank keys that docker-compose.yml  *)
(* gives where there are none configure it (config.ts:138-153).              *)
ASSUME BlankTokensAreAbsent ==
    \A option \in Options, value \in {P!Absent, "set"} :
        LET env(v) == [o \in Options |-> IF o = option THEN v ELSE value]
        IN  (P!appConfig(env(P!Blank)) = P!appConfig(env(P!Absent)))
                <=> (option \notin P!LivekitOptions \cup P!LangfuseOptions \/ value = P!Absent)
ASSUME BlankKeysConfigure ==
    LET compose == [o \in Options |-> CASE o = "LIVEKIT_URL" -> "set"
                                        [] o \in P!LangfuseOptions -> P!Absent
                                        [] OTHER -> P!Blank]
    IN  P!hasMediaPlane(P!appConfig(compose)) /\ ~P!canDialOut(P!appConfig(compose))

-----------------------------------------------------------------------------
(* The demonstration data.                                                 *)

LOCAL Q == INSTANCE Seed

Seeded == Q!reset
Who(name) == CHOOSE i \in DOMAIN Q!DEMO_BORROWERS : Q!DEMO_BORROWERS[i].name = name
OutcomesOf(row) == [i \in DOMAIN row.calls |-> row.calls[i].outcome]

(* Each borrower has the history they are given and may be called, or may not,  *)
(* for the reason they are there to show; seeding once more changes nothing    *)
(* (Seed.ts:22-63).                                                         *)
ASSUME SeedTellsItsStories ==
    LET noon(i) == 24 - Q!DEMO_BORROWERS[i].zone.after
        refusals(name) == Q!PreCall(Q!DEMO_BORROWERS[Who(name)], Seeded[Who(name)], noon(Who(name)))
    IN  /\ OutcomesOf(Seeded[Who("jordan")]) = <<"NO_ANSWER">> /\ refusals("jordan") = <<>>
        /\ OutcomesOf(Seeded[Who("priya")]) = <<"PROMISE_TO_PAY", "NO_ANSWER">> /\ refusals("priya") = <<>>
        /\ Seeded[Who("priya")].calls[1].promised = {[amount |-> 300, date |-> <<2026, 8, 8>>]}
        /\ OutcomesOf(Seeded[Who("sam")]) = <<"OPT_OUT">>
        /\ refusals("sam") = <<"BORROWER_OPT_OUT", "CONTACT_POINT_INVALID_OR_OPTED_OUT">>
        /\ OutcomesOf(Seeded[Who("lee")]) = <<"WRONG_NUMBER">>
        /\ refusals("lee") = <<"CONTACT_POINT_INVALID_OR_OPTED_OUT">>
        /\ refusals("morgan") = <<>>
        /\ \A i \in DOMAIN Seeded : \A c \in DOMAIN Seeded[i].calls :
                Seeded[i].calls[c].pending \cap {"RETRY_CALL", "CALLBACK"} = {}
        /\ Q!run(Seeded) = Seeded

(* A seeding that is cut short within a borrower is not made good by the next:   *)
(* who is there is passed over. Lee, cut off before the call, may be called   *)
(* at the wrong number (Seed.ts:102-103).                                    *)
ASSUME CutShortStaysShort ==
    /\ \A i \in DOMAIN Seeded, upTo \in 1 .. 4 : Q!run(Q!CutShort(i, upTo))[i] = Q!CutShort(i, upTo)[i]
    /\ \A i \in DOMAIN Seeded : Q!run(Q!CutShort(i, 0)) = Seeded
    /\ LET lee == Q!run(Q!CutShort(Who("lee"), 4))[Who("lee")]
       IN  lee # Seeded[Who("lee")] /\ Q!PreCall(Q!DEMO_BORROWERS[Who("lee")], lee, 40) = <<>>

(* At every hour of the year one of the zones may be called; a load run gets     *)
(* as many numbers as it asks for, none of them issued before, or none        *)
(* (Seed.ts:65-89).                                                         *)
ASSUME FixturesAreFree ==
    /\ \A season \in {"summer", "winter"}, now \in 0 .. 47 :
            LET zone == Q!zoneAt(season, now)
            IN  zone # Q!NoZone /\ P!isWithinContactWindow(now, Q!Zone(zone))
    /\ \A issued \in SUBSET (0 .. 4), count \in 0 .. 6 :
            LET after == Q!loadFixtures(issued, count, 5, "summer", 30)
            IN  /\ issued \subseteq after
                /\ Cardinality(after \ issued) = IF count <= 5 - Cardinality(issued) THEN count ELSE 0
==============================================================================
