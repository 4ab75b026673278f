------------------------------ MODULE Disclosure ------------------------------
(***************************************************************************)
(* What is shown of the account: to the model (context.ts, ContextBuilder), *)
(* to the recogniser (biasTerms.ts) and to the trace backend (redact.ts,    *)
(* Tracing.ts spanMask).                                                    *)
(***************************************************************************)
EXTENDS Integers, FiniteSets, Sequences, SequencesExt, TLC, StateMachine

Null == "null"

-----------------------------------------------------------------------------
(* The context of a turn. A borrower has one loan to speak of, or none; what *)
(* may be withheld is a set of at most one.                                 *)
ProtectedContextOf(name, loans) ==
    {[borrower_full_name |-> name, balance_due |-> loan.balance, due_date |-> loan.due,
      loan_status |-> loan.status, delinquency_days |-> loan.days, last_promise_date |-> loan.promised] : loan \in loans}
timeZoneOf(row) == IF row.timezone_override # Null THEN row.timezone_override ELSE row.borrower_timezone

(* Prior calls, newest first, only those that ended and not this one, and    *)
(* no more than the window the builder asks for.                            *)
PRIOR_LIMIT == 5
Newest(calls) == SubSeq(calls, 1, IF Len(calls) < PRIOR_LIMIT THEN Len(calls) ELSE PRIOR_LIMIT)
priorConversations(calls, this) ==
    Newest(SelectSeq(calls, LAMBDA c : c.id # this /\ c.ended_at # Null))

NoteKinds == [PROMISE_TO_PAY |-> "promised", CALLBACK_SCHEDULED |-> "called_back", DISPUTED |-> "disputed",
              ESCALATED |-> "escalated", OPT_OUT |-> "no_more_calls", WRONG_NUMBER |-> "not_reached",
              THIRD_PARTY_CONTACT |-> "not_reached"]
(* The borrower's words that end in a note: the excerpt that an override     *)
(* left, or else the last words of the call.                                *)
priorCallNote(c) ==
    LET excerpt == c.final_outcome = "DISPUTED"
                    \/ (c.final_outcome = "ESCALATED" /\ c.reason = "hardship_or_distress")
    IN  [said |-> IF c.final_outcome \in DOMAIN NoteKinds THEN NoteKinds[c.final_outcome] ELSE c.final_outcome,
         words |-> CASE excerpt -> c.transcript_excerpt
                     [] ~excerpt /\ c.final_outcome = "ESCALATED" -> Null
                     [] OTHER -> c.borrower_last]

FirstWhere(calls, Test(_), Of(_)) ==
    LET found == SelectSeq(calls, Test) IN IF found = <<>> THEN Null ELSE Of(found[1])

buildMemoryBlock(prior) ==
    LET recent == Newest(prior)
    IN  [last_promise_to_pay |->
            FirstWhere(recent, LAMBDA c : c.final_outcome = "PROMISE_TO_PAY", LAMBDA c : c.promise),
         last_callback_requested_at |->
            FirstWhere(recent, LAMBDA c : c.final_outcome = "CALLBACK_SCHEDULED", LAMBDA c : c.callback_at),
         last_right_party_contact_at |->
            FirstWhere(recent, LAMBDA c : c.protected_context_unlocked /\ c.ended_at # Null, LAMBDA c : c.ended_at),
         prior_conversation_count |-> Len(prior),
         prior_calls |-> [i \in DOMAIN recent |-> priorCallNote(recent[i])]]

forConversation(row, calls) ==
    [protectedContext |-> ProtectedContextOf(row.name, row.loans),
     memory |-> buildMemoryBlock(priorConversations(calls, row.id))]

visibleContext(bundle, state, unlocked) ==
    LET allowed == unlocked /\ state \in PROTECTED_CONTEXT_STATES
    IN  [protectedContext |-> IF allowed THEN bundle.protectedContext ELSE {},
         memory |-> IF allowed THEN {bundle.memory} ELSE {}]

(* What the recogniser is told to expect: nothing of an account that is not  *)
(* verified; then the name, who asks, the amount and the month.             *)
biasTermsFor(account, verified) ==
    IF ~verified THEN {}
    ELSE {account.name, account.creditor} \cup ({account.balance, account.dueMonth} \ {Null})

-----------------------------------------------------------------------------
(* Texts to be redacted. A text is a sequence of words, marks and runs of     *)
(* digits; a run is named by its length, and stands apart from its neighbours *)
(* unless "-" joins it to the next or "th" ends it. "1.00" stands for any     *)
(* number with two decimals, "8/21" for any date with strokes.               *)
DigitsOf == ("d1" :> 1) @@ ("d2" :> 2) @@ ("d3" :> 3) @@ ("d4" :> 4) @@ ("d7" :> 7)
Runs == DOMAIN DigitsOf

MONTHS == {"august"}
MONEY_WORDS == {"pay", "owe", "do", "balance", "total"}
HEDGES == {"you", "is", "about", "due", "up_to", "only"}
COUNTED == {"percent", "days", "times", "calls", "th"}
BEHIND == {"late", "behind"}

WordAt(t, i, words) == i \in DOMAIN t /\ t[i] \in words
LengthAt(t, i, lengths) == WordAt(t, i, Runs) /\ DigitsOf[t[i]] \in lengths /\ ~WordAt(t, i + 1, {"th"})
Joined(t, i, shape) ==
    \A k \in DOMAIN shape : /\ LengthAt(t, i + 2 * (k - 1), shape[k])
                            /\ k < Len(shape) => WordAt(t, i + 2 * k - 1, {"-"})
Day(t, i) ==
    CASE WordAt(t, i, Runs) /\ DigitsOf[t[i]] <= 2 /\ WordAt(t, i + 1, {"th"}) -> 2
      [] LengthAt(t, i, {1, 2}) -> 1
      [] OTHER -> 0
Year(t, i) == IF LengthAt(t, i, {4}) THEN 1 ELSE 0
OfAt(t, i) == IF WordAt(t, i, {"of"}) THEN 1 ELSE 0

(* How many hedges stand between a payment word and its number.             *)
Hedged(t, i) ==
    {n \in 0 .. 3 : (\A k \in 1 .. n : WordAt(t, i + k, HEDGES)) /\ LengthAt(t, i + n + 1, 1 .. 7)}

(* The longest run of digits and hyphens that begins at i.                   *)
Identifier(t, i) ==
    LET upTo == {n \in 0 .. Len(t) - i : \A k \in 0 .. n : IF k % 2 = 0 THEN LengthAt(t, i + k, 1 .. 7)
                                                           ELSE WordAt(t, i + k, {"-"})}
        ends == {n \in upTo : n % 2 = 0}
    IN  IF ends = {} THEN 0 ELSE 1 + CHOOSE n \in ends : \A m \in ends : m <= n
DigitCount(run) == FoldLeft(LAMBDA n, w : n + IF w \in Runs THEN DigitsOf[w] ELSE 0, 0, run)

(* What each rule takes at a place of the text, and what it leaves there.    *)
Nothing == [taken |-> 0, left |-> <<>>]
Takes(n, mark) == IF n = 0 THEN Nothing ELSE [taken |-> n, left |-> <<mark>>]
Masked(t, i, n, mark) == [taken |-> n, left |-> Append(SubSeq(t, i, i + n - 2), mark)]

RULES == <<"iso", "strokes", "hyphens", "month_day", "day_month", "dollar_sign", "dollars", "decimals", "behind",
           "claimed", "long", "grouped">>
RuleAt(rule, t, i) ==
    CASE rule = "iso"     -> Takes(IF Joined(t, i, <<{4}, {2}, {2}>>) THEN 5 ELSE 0, "[date]")
      [] rule = "strokes" -> Takes(IF t[i] = "8/21" THEN 1 ELSE 0, "[date]")
      [] rule = "hyphens" -> Takes(CASE Joined(t, i, <<{1, 2}, {1, 2}, {2, 3, 4}>>) -> 5
                                     [] ~Joined(t, i, <<{1, 2}, {1, 2}, {2, 3, 4}>>)
                                            /\ Joined(t, i, <<{1, 2}, {1, 2}>>) -> 3
                                     [] OTHER -> 0, "[date]")
      [] rule = "month_day" ->
            LET day == IF t[i] \in MONTHS THEN Day(t, i + 1) ELSE 0
            IN  Takes(IF day = 0 THEN 0 ELSE 1 + day + Year(t, i + 1 + day), "[date]")
      [] rule = "day_month" ->
            LET month == i + Day(t, i) + OfAt(t, i + Day(t, i))
            IN  Takes(IF Day(t, i) > 0 /\ WordAt(t, month, MONTHS) THEN month - i + 1 + Year(t, month + 1) ELSE 0,
                      "[date]")
      [] rule = "dollar_sign" -> Takes(IF t[i] = "$" /\ WordAt(t, i + 1, Runs \cup {"1.00"}) THEN 2 ELSE 0, "[amount]")
      [] rule = "dollars" -> Takes(IF t[i] \in Runs \cup {"1.00"} /\ WordAt(t, i + 1, {"dollars"}) THEN 2 ELSE 0, "[amount]")
      [] rule = "decimals" -> Takes(IF t[i] = "1.00" THEN 1 ELSE 0, "[amount]")
      [] rule = "behind" -> Takes(IF LengthAt(t, i, 1 .. 4) /\ WordAt(t, i + 1, {"days"}) /\ WordAt(t, i + 2, BEHIND)
                                  THEN 1 ELSE 0, "[count]")
      [] rule = "claimed" ->
            LET hedges == {n \in Hedged(t, i) : t[i] \in MONEY_WORDS /\ ~WordAt(t, i + n + 2, COUNTED)}
            IN  IF hedges = {} THEN Nothing ELSE Masked(t, i, 2 + CHOOSE n \in hedges : TRUE, "[amount]")
      [] rule = "long" -> Takes(IF LengthAt(t, i, {7}) THEN 1 ELSE 0, "[digits]")
      [] rule = "grouped" ->
            LET n == Identifier(t, i)
                run == SubSeq(t, i, i + n - 1)
            IN  IF n < 2 THEN Nothing
                ELSE [taken |-> n, left |-> IF DigitCount(run) >= 7 THEN <<"[digits]">> ELSE run]

(* A rule is applied from left to right, past what it took each time.        *)
Replaced(t, rule) ==
    FoldLeft(LAMBDA s, i :
                LET r == RuleAt(rule, t, i)
                IN  CASE i < s.next -> s
                      [] i >= s.next /\ r.taken = 0 -> [out |-> Append(s.out, t[i]), next |-> i + 1]
                      [] OTHER -> [out |-> s.out \o r.left, next |-> i + r.taken],
             [out |-> <<>>, next |-> 1], [i \in DOMAIN t |-> i]).out
redactAccountData(t) == FoldLeft(Replaced, t, RULES)

-----------------------------------------------------------------------------
(* A span's data, as the fields it comes to: a key, and a text, a number or   *)
(* another value. Keys are compared with case and separators stripped.       *)
ACCOUNT_FACT_KEYS ==
    [k \in {"balance", "balancedue", "balancecents", "amountdue", "amountcents", "totaldue", "minimumdue",
            "minimumpayment", "promiseamount", "paymentamount", "pastdueamount", "payoff", "payoffamount",
            "principal", "interest"} |-> "[amount]"]
    @@ [k \in {"delinquencydays", "dayspastdue", "daysdelinquent"} |-> "[count]"]
    @@ [k \in {"accountnumber", "accountid", "loannumber", "cardnumber", "ssn"} |-> "[digits]"]

Field(key, kind, value) == [key |-> key, kind |-> kind, value |-> value]
MaskedField(f) ==
    CASE f.key \in DOMAIN ACCOUNT_FACT_KEYS /\ f.kind \in {"number", "text"} ->
            Field(f.key, "text", <<ACCOUNT_FACT_KEYS[f.key]>>)
      [] f.key \notin DOMAIN ACCOUNT_FACT_KEYS /\ f.kind = "text" -> [f EXCEPT !.value = redactAccountData(@)]
      [] OTHER -> f
redactAccountDataDeep(fields) == {MaskedField(f) : f \in fields}
==============================================================================
