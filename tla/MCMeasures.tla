----------------------------- MODULE MCMeasures -----------------------------
(***************************************************************************)
(* The rules that measure a call, each checked against what it is for over  *)
(* bounded inputs. The run that extends this module evaluates them.         *)
(***************************************************************************)
EXTENDS Integers, FiniteSets, Sequences, SequencesExt, FiniteSetsExt, TLC

LOCAL T == INSTANCE Transcripts
LOCAL L == INSTANCE Latency
LOCAL S == INSTANCE Speech
LOCAL C == INSTANCE Scorecard
LOCAL K == INSTANCE TurnTaking

-----------------------------------------------------------------------------
(* Transcripts.                                                            *)

RECURSIVE Spell(_, _)
Spell(n, and) ==
    CASE n < 20 -> <<T!Units[n + 1]>>
      [] n < 100 -> <<T!Tens[n \div 10]>> \o (IF n % 10 = 0 THEN <<>> ELSE Spell(n % 10, and))
      [] n < 1000 -> Spell(n \div 100, and) \o <<"hundred">> \o
                        (IF n % 100 = 0 THEN <<>> ELSE and \o Spell(n % 100, and))
      [] OTHER -> Spell(n \div 1000, and) \o <<"thousand">> \o
                        (IF n % 1000 = 0 THEN <<>> ELSE and \o Spell(n % 1000, and))

Amounts == 0 .. 130 \cup {199, 200, 305, 550, 999, 1000, 1005, 1200, 2550, 9999}

(* However a number is spelled, with "and" or without, it becomes its        *)
(* digits, and the words around it stay (foldNumberWords).                  *)
ASSUME NumbersFold ==
    \A n \in Amounts, and \in {<<>>, <<"and">>} :
        T!foldNumberWords(<<"pay">> \o Spell(n, and) \o <<"dollars", "and", "friday">>)
            = <<"pay", ToString(n), "dollars", "and", "friday">>

(* What is folded stays as it is: the canonical form is one.                *)
Vocabulary == {"five", "twenty", "hundred", "thousand", "and", "pay"}
ASSUME FoldIsCanonical ==
    \A words \in BoundedSeq(Vocabulary, 4) :
        LET folded == T!foldNumberWords(words)
        IN  /\ T!foldNumberWords(folded) = folded
            /\ \A i \in DOMAIN folded : ~T!isNumberWord(folded[i])

(* An alignment pairs words of both sides, in order; what is left over was   *)
(* inserted or deleted. The errors counted are those of a cheapest one.     *)
Letters == {"a", "b"}
Texts == BoundedSeq(Letters, 3)
Alignments(ref, hyp) ==
    {A \in SUBSET ((DOMAIN ref) \X (DOMAIN hyp)) :
        \A p, q \in A : p # q => (p[1] < q[1] /\ p[2] < q[2]) \/ (q[1] < p[1] /\ q[2] < p[2])}
Cost(ref, hyp, A) ==
    Len(ref) + Len(hyp) - 2 * Cardinality(A) + Cardinality({p \in A : ref[p[1]] # hyp[p[2]]})

ASSUME ErrorsAreMinimal ==
    \A ref, hyp \in Texts :
        LET e == T!wordErrors(ref, hyp)
        IN  /\ e.cost = e.s + e.i + e.d
            /\ e.cost = Min({Cost(ref, hyp, A) : A \in Alignments(ref, hyp)})
            /\ Len(ref) - e.d + e.i = Len(hyp)

(* The rate passes one when words are invented, and there is none of an      *)
(* empty reference.                                                         *)
ASSUME RateOfInvention ==
    /\ T!wordErrorRate(<<"a">>, <<"b", "b", "b">>) = 30000
    /\ \A hyp \in Texts : T!wordErrorRate(<<>>, hyp) = T!NoRate
    /\ \A text \in Texts \ {<<>>} : T!wordErrorRate(text, text) = 0

(* A transcript that kept every number has no amount error, one that heard   *)
(* another amount has, and a bare number is no amount (entityError.ts).      *)
ASSUME AmountsAreKept ==
    LET said == T!foldNumberWords(<<"jordan", "pays", "five", "hundred", "fifty", "dollars", "on", "may", "four">>)
        heard == <<"jordan", "pays", "515", "dollars", "on", "may", "4">>
    IN  /\ T!amountErrors(said, said, {"jordan"}) = 0
        /\ T!amountErrors(said, heard, {"jordan"}) = 1
        /\ Len(T!entityErrors(said, heard, {"jordan"})) = 1
        /\ [i \in 1 .. 4 |-> T!entitiesIn(said, {"jordan"})[i].kind] = <<"name", "amount", "date", "date">>
        /\ T!entitiesIn(<<"4", "moments">>, {}) = <<>>

-----------------------------------------------------------------------------
(* Latency.                                                                *)

(* A percentile is a reading that was made, at least p in a hundred are at    *)
(* or below it, and of no smaller reading is that so. The report and the     *)
(* gate had two rules once, both a rank high (percentile.ts:5-8).           *)
ASSUME PercentileIsObserved ==
    \A values \in BoundedSeq(0 .. 3, 5), p \in {50, 90, 95} :
        LET AtOrBelow(v) == 100 * Cardinality({i \in DOMAIN values : values[i] <= v}) >= p * Len(values)
        IN  L!percentile(values, p) =
                IF values = <<>> THEN {} ELSE {Min({v \in ToSet(values) : AtOrBelow(v)})}

(* Of fewer than twenty turns the p95 is the slowest; of twenty it is not.   *)
ASSUME FewTurnsHaveAMaximum ==
    \A n \in 1 .. 20 : (L!percentile([i \in 1 .. n |-> i], 95) = {n}) <=> n < 20

Stored == [L!Components -> {{}, {1}, {9}}]
Windows == [1 .. 2 -> Stored] \cup [1 .. 1 -> Stored]
Target == [c \in L!Components \cup {"total_ms"} |-> 5]
Report(window, minSample) == L!sloFrom(L!aggregateTurnRows(window), Target, minSample)
Rows(stored) == L!turnRowsForMany(stored).rows

(* A window passes only if something in it was judged; one turn over a        *)
(* target fails the call if and only if it would fail a window of that call *)
(* alone, and what was too little to judge shows no number.                 *)
ASSUME VerdictsAgree ==
    \A window \in Windows :
        LET rows == Rows(window)
            call == L!callSloVerdict(rows, Target)
            alone == Report(rows, 1)
            enough == Report(rows, 2)
        IN  /\ call.breached = alone.breaches \ {"total_ms"}
            /\ call.pass = {} <=> call.measured = 0
            /\ call.pass = {} => alone.verdict = "insufficient"
            /\ enough.pass => \E c \in L!Components : Len(L!Readings(rows, c)) >= 2
            /\ enough.breaches \subseteq alone.breaches
            /\ \A c \in enough.insufficient : enough.measured[c] = {}

(* A reading that cannot be a latency moves no percentile: the window reads   *)
(* as if that turn had not carried it.                                      *)
ASSUME ImplausibleMovesNothing ==
    \A turn \in Stored, c \in L!Components, bad \in {-1, L!MAX_PLAUSIBLE_MS + 1} :
        LET broken == L!turnRowsForMany(<<[turn EXCEPT ![c] = {bad}], turn>>)
        IN  /\ broken.rows = Rows(<<[turn EXCEPT ![c] = {}], turn>>)
            /\ broken.dropped = 1

-----------------------------------------------------------------------------
(* Speech.                                                                 *)

SpeechEvents ==
    [type : {"AGENT_TURN_PLAYOUT"}, turn : {"t1", "t2"}, interrupted : BOOLEAN, heard : BOOLEAN]
        \cup [type : {"TURN_SUPERSEDED"}, turn : {"t1", "t2"}]

(* The rule in the domain and its twins in SQL count the same silent turns,  *)
(* a turn once however many of its segments were silent (silentPlayout.ts). *)
ASSUME TwinsAgree ==
    \A events \in BoundedSeq(SpeechEvents, 3) :
        LET silent == S!silentPlayoutTurnIds(events)
        IN  /\ \A t \in {"t1", "t2"} : t \in silent <=> S!ttsSilent(events, t)
            /\ S!ttsSilentPlayouts(<<events>>) = Cardinality(silent)

Turn(chars, audio) == [chars |-> chars, audioMs |-> audio, silent |-> FALSE]
Spoken(rates) == [i \in DOMAIN rates |-> Turn({rates[i]}, {1000})]

(* One turn played at a wild rate is flagged, however it pulls: the baseline  *)
(* is a median of at least three, and the usual turns are not flagged.      *)
ASSUME OneWildTurn ==
    \A n \in 2 .. 4, wild \in {1, 40, 400} : \A usual \in [1 .. n -> {10, 11, 12}] :
        S!ttsAggregate(Spoken(Append(usual, wild))).outliers = <<n + 1>>

(* What is no evidence is no score, and a turn without audio has no rate.     *)
ASSUME NoEvidenceNoScore ==
    \A chars, audio \in {{}, {0}, {7}}, silent \in BOOLEAN :
        LET t == [chars |-> chars, audioMs |-> audio, silent |-> silent]
            scores == S!ttsScores([u \in {"t1"} |-> t])
        IN  /\ scores = {} <=> (chars = {} /\ audio = {} /\ ~silent)
            /\ (\E s \in scores : s.name = "tts.chars_per_second") <=> (chars = {7} /\ audio = {7})
            /\ S!ttsAggregate(<<t>>).outliers = <<>>

-----------------------------------------------------------------------------
(* Scorecard.                                                              *)

Said(type, says) == [type |-> type, says |-> says]
LedgerEvents ==
    {Said("AGENT_TURN", {}), Said("AGENT_TURN", {"miranda"}), Said("AGENT_TURN", {"protected", "degraded"}),
     Said("USER_TURN_FINAL", {}), Said("AMD_RESULT", {"MACHINE"}), Said("AMD_RESULT", {"HUMAN"}),
     Said("STATE_TRANSITION", {"RIGHT_PARTY_CONFIRMED"}), Said("TOOL_REJECTED", {"INVALID_ARGS"}),
     Said("TOOL_REJECTED", {"NOT_ALLOWED"}), Said("CALL_STARTED", {}), Said("CALL_ENDED", {})}
Ledgers ==
    {[i \in DOMAIN l |-> [type |-> l[i].type, says |-> l[i].says, at |-> 10 * i]] : l \in BoundedSeq(LedgerEvents, 3)}
ReadBacks == {{}, {TRUE}, {FALSE}}

(* Whatever the ledger, every score of the job is one the store takes, no two *)
(* of them are one row, and the call is called compliant if and only if no   *)
(* compliance score says otherwise: what could not be told accuses nobody.  *)
ASSUME EveryFactIsAScore ==
    \A ledger \in Ledgers, readBack \in ReadBacks :
        LET e == C!evaluateCall(ledger, readBack)
            scores == C!EvaluationJob(e.facts, readBack,
                         {[name |-> "tts.silent_playout", turn |-> t, value |-> 1] : t \in {"t1", "t2"}})
        IN  /\ \A s \in scores : ~C!scoreRecordProblem(s) /\ (s.turn # {} => s.name \in C!TURN_LEVEL_SCORE_NAMES)
            /\ \A s, r \in scores : <<s.name, s.turn, s.source>> = <<r.name, r.turn, r.source>> => s = r
            /\ e.issues = {} <=> ~\E s \in scores : s.name \in C!Compliance /\ s.value = 0

(* The evaluator and the funnel read a call alike, and a protected line counts *)
(* against it only if it came before whoever answered was confirmed.        *)
ASSUME ReadAlike ==
    \A ledger \in Ledgers :
        LET f == C!evaluateCall(ledger, {}).facts
            call == [outcome |-> {}, ledger |-> ledger, scores |-> {}]
            Tells(i) == "protected" \in ledger[i].says
                           /\ \A k \in 1 .. i : "RIGHT_PARTY_CONFIRMED" \notin ledger[k].says
        IN  /\ f.rightPartyVerified = C!RightParty(call) /\ f.voicemail = C!Voicemail(call)
            /\ f.noProtectedBeforeRpc = ~\E i \in DOMAIN ledger : Tells(i)
            /\ f.voicemail => f.miniMirandaFirst = {}

(* A verdict short of anything is no verdict: the call then has one score,    *)
(* which says the judge failed; else it has all six and that one is missing. *)
JudgeSays(d, o, c) == [f \in C!VerdictFields |-> IF f = "confidence" THEN c ELSE IF f = "overall_pass" THEN o ELSE d]
Answers == {JudgeSays(d, o, c) : d, o \in {"true", "false"}, c \in {"in range", "2"}}
Broken == {[f \in C!VerdictFields \ {gone} |-> JudgeSays("true", "true", "in range")[f]] : gone \in C!VerdictFields}
              \cup {[JudgeSays("true", "true", "in range") EXCEPT ![f] = "maybe"] : f \in C!VerdictFields}
ASSUME JudgeIsWhole ==
    \A first, second \in Answers \cup Broken :
        LET judged == C!runJudge(<<first, second>>)
            names == {s.name : s \in C!JudgeJob(judged)}
            good(a) == a \in Answers /\ a["confidence"] = "in range"
        IN  /\ good(first) => judged = [verdict |-> {first}, attempts |-> 1]
            /\ ~good(first) /\ good(second) => judged = [verdict |-> {second}, attempts |-> 2]
            /\ IF good(first) \/ good(second)
               THEN Cardinality(names) = 6 /\ "judge.invalid_output" \notin names
               ELSE names = {"judge.invalid_output"}
            /\ \A s \in C!JudgeJob(judged) : ~C!scoreRecordProblem(s)

(* Of calls a person answered to the end the funnel narrows. Of others the    *)
(* right party may outnumber the connected: who confirmed and then fell       *)
(* silent is booked as no answer (Quality.ts:99-106, Orchestrator.ts:624).  *)
Confirmed == <<[type |-> "STATE_TRANSITION", says |-> {"RIGHT_PARTY_CONFIRMED"}, at |-> 1]>>
Promised == Append(Confirmed, [type |-> "TOOL_RESULT", says |-> {"record_promise_to_pay"}, at |-> 2])
Calls == [outcome : {{}, {"NO_ANSWER"}, {"VOICEMAIL_LEFT"}, {"PROMISE_TO_PAY"}},
          ledger : {<<>>, Confirmed, Promised}, scores : {{}}]
ASSUME FunnelNarrows ==
    \A calls \in BoundedSeq(Calls, 3) :
        LET f == C!funnel(calls)
            answered == \A i \in DOMAIN calls : calls[i].outcome \notin {{}, {"NO_ANSWER"}}
        IN  /\ f.promise_to_pay <= f.right_party /\ f.connected <= f.finished
            /\ answered => f.right_party <= f.connected
            /\ \A r \in {"contact", "promise", "voicemail"} : \A rate \in f.rates[r] : rate <= 1000
            /\ f.rates.contact = {} <=> f.finished = 0
ASSUME SilentRightParty ==
    LET fellSilent == [outcome |-> {"NO_ANSWER"}, ledger |-> Confirmed, scores |-> {}]
        promised == [outcome |-> {"PROMISE_TO_PAY"}, ledger |-> Promised, scores |-> {}]
    IN  C!funnel(<<fellSilent, promised>>).rates.right_party = {2000}

(* Of booleans the mean is the share that passed; of numbers nothing passes.  *)
Written == {C!booleanScore("judge.overall_pass", v, "JUDGE") : v \in BOOLEAN}
               \cup {C!booleanScore("human.overall_pass", v, "HUMAN") : v \in BOOLEAN}
               \cup {C!numericScore("stt.wer", v, "HARNESS") : v \in {0, 1, 2}}
               \cup {[C!numericScore("stt.wer", 1, "HARNESS") EXCEPT !.turn = {"t1"}]}
ASSUME MeanOfBooleansIsTheirRate ==
    \A scores \in BoundedSeq(Written, 4) :
        LET summary == C!scoreSummaries(scores)
        IN  \A k \in DOMAIN summary :
                summary[k].pass_rate = IF k[1] = "stt.wer" THEN {} ELSE summary[k].mean

(* The judge agrees with the operator only on calls both spoke of.           *)
Labelled == {[scores |-> {s \in Written : s \in pick}] : pick \in SUBSET {w \in Written : w.source # "HARNESS"}}
ASSUME AgreementIsOfBoth ==
    \A a, b \in Labelled :
        LET g == C!agreement(<<a, b>>)
        IN  g.agreed <= g.both /\ g.both <= Min({g.judged, g.human_labelled}) /\ (g.rate = {} <=> g.both = 0)

(* A promise is due for the whole of one day of the borrower's, wherever the  *)
(* server's day begins.                                                    *)
ASSUME DueForADay ==
    \A offset \in -11 .. 13, day \in 1 .. 2 :
        LET hours(status) == {h \in 0 .. 96 : C!promiseStatus(day, h, offset) = status}
        IN  /\ Cardinality(hours("DUE_TODAY")) = 24
            /\ \A p \in hours("PENDING"), d \in hours("DUE_TODAY"), o \in hours("OVERDUE") : p < d /\ d < o

-----------------------------------------------------------------------------
(* Turn-taking.                                                            *)

Spans == {<<a, b>> \in (0 .. 3) \X (0 .. 3) : a < b}
Borrowing(span, kind) == [kind |-> kind, start |-> 1000 * span[1], end |-> 1000 * span[2]]
Speaking(span, cut) == [start |-> 1000 * span[1], end |-> 1000 * span[2], cut |-> cut]
Kinds == {"line", "noise"}
Cuts == {"yes", "no", "unknown"}
BorrowerSides ==
    {<<>>} \cup {<<Borrowing(s, k)>> : s \in Spans, k \in Kinds}
    \cup {<<Borrowing(p[1], k), Borrowing(p[2], j)>> :
             p \in {q \in Spans \X Spans : q[1][1] <= q[2][1]}, k, j \in Kinds}
AgentSides ==
    {<<>>} \cup {<<Speaking(s, c)>> : s \in Spans, c \in Cuts}
    \cup {<<Speaking(p[1], c), Speaking(p[2], d)>> :
             p \in {q \in Spans \X Spans : q[1][2] <= q[2][1]}, c, d \in Cuts}
Dialogues == [borrower : BorrowerSides, agent : AgentSides]

(* Every rate is one, a stretch answers one event at most, and a cut accuses  *)
(* one event at most: the one it came after last (turnTaking.ts:125-132).    *)
ASSUME TurnTakingCounts ==
    \A d \in Dialogues :
        LET m == K!turnTakingMetrics(d)
            rates == UNION {m.response_rate, m.yield_rate, m.false_interrupt_rate, m.agent_interrupt_rate, m.selectivity}
            cut == {s \in DOMAIN d.agent : d.agent[s].cut = "yes"}
        IN  /\ \A r \in rates : r[1] <= r[2]
            /\ \A e, f \in DOMAIN d.borrower :
                  d.borrower[e].start # d.borrower[f].start =>
                      K!replyTo(d, e) \cap K!replyTo(d, f) = {}
            /\ Cardinality(K!falseInterrupts(d)) <= Cardinality(cut)
            /\ K!falseInterrupts(d) \cap K!ignored(d) = {}
            /\ \A n \in m.yield_latency_ms : n <= K!YIELD_WINDOW_MS

(* What is not known accuses nobody: of a stretch nothing was joined to there *)
(* is no false interrupt, and nothing else is called one in its place.       *)
ASSUME UnknownAccusesNobody ==
    \A d \in Dialogues : \A s \in DOMAIN d.agent :
        LET unknown == [d EXCEPT !.agent[s].cut = "unknown"]
        IN  K!falseInterrupts(unknown) \subseteq K!falseInterrupts(d)

(* A line over a stretch nothing was joined to still counts as a line, and as *)
(* an interruption not yielded to, though "an unknown stretch is excluded    *)
(* from every rate" (turnTaking.ts:70).                                     *)
ASSUME UnknownIsStillCounted ==
    LET d == [borrower |-> <<Borrowing(<<1, 2>>, "line")>>, agent |-> <<Speaking(<<0, 3>>, "unknown")>>]
        m == K!turnTakingMetrics(d)
    IN  m.response_rate = {<<0, 1>>} /\ m.yield_rate = {<<0, 1>>} /\ m.unknown = 1

(* One cut may be a yield and a false interrupt: only the latter asks what    *)
(* the agent stopped for (turnTaking.ts:163-195).                           *)
ASSUME CutBookedTwice ==
    LET d == [borrower |-> <<Borrowing(<<1, 2>>, "line"), Borrowing(<<2, 3>>, "noise")>>,
              agent |-> <<Speaking(<<0, 3>>, "yes")>>]
    IN  K!yields(d) = {1} /\ K!falseInterrupts(d) = {2}

(* Of what a harness posts no two rows are one, as long as no two lines were   *)
(* joined to one turn: the call's own row of the mean is the only one without. *)
HarnessLines == [turn : {{}, {"t1"}, {"t2"}}, wer : {{}, {0}, {5000}}]
Joined(lines) == \A i, j \in DOMAIN lines : i # j /\ lines[i].turn = lines[j].turn => lines[i].turn = {}
ASSUME RowsDoNotCollapse ==
    \A lines \in {l \in BoundedSeq(HarnessLines, 3) : Joined(l)} :
        LET replies == [i \in DOMAIN lines |-> [turn |-> lines[i].turn, ms |-> 100]]
            rows == K!buildHarnessScores(TRUE, lines, replies)
            keys == {<<rows[i].name, rows[i].turn>> : i \in DOMAIN rows}
        IN  /\ Cardinality(keys) = Len(rows)
            /\ \A sum \in K!summariseWer(lines) : sum.mean <= sum.worst /\ sum.n <= Len(lines)
==============================================================================
