--------------------------- MODULE ScriptedDecider ---------------------------
(***************************************************************************)
(* The scripted decider (scripted/decide.ts) and what it reads a date, an   *)
(* amount and an hour from (scripted/parse.ts). A text is as in Utterances; *)
(* patterns are matched on the words as split at their apostrophes, with    *)
(* the marks between them. Amounts are whole dollars, hours are on the hour.*)
(***************************************************************************)
EXTENDS Integers, FiniteSets, Sequences, SequencesExt, TLC

LOCAL U == INSTANCE Utterances

-----------------------------------------------------------------------------
(* Dates are <<year, month, day>>.                                         *)
Leap(y) == y % 4 = 0 /\ (y % 100 # 0 \/ y % 400 = 0)
DaysIn(y, m) == CASE m = 2 -> IF Leap(y) THEN 29 ELSE 28 [] m \in {4, 6, 9, 11} -> 30 [] OTHER -> 31
IsCalendarDate(date) == date[2] \in 1 .. 12 /\ date[3] \in 1 .. DaysIn(date[1], date[2])

(* A date past the end of its month or year runs on into the next.          *)
RECURSIVE Carried(_, _, _)
Carried(y, m, d) ==
    CASE m > 12 -> Carried(y + 1, m - 12, d)
      [] m <= 12 /\ d > DaysIn(y, m) -> Carried(y, m + 1, d - DaysIn(y, m))
      [] OTHER -> <<y, m, d>>

addDays(date, n) == Carried(date[1], date[2], date[3] + n)

WEEKDAYS == <<"sunday", "monday", "tuesday", "wednesday", "thursday", "friday", "saturday">>
weekdayOf(date) ==
    LET shift == <<0, 3, 2, 5, 0, 3, 5, 1, 4, 6, 2, 4>>
        y == IF date[2] < 3 THEN date[1] - 1 ELSE date[1]
    IN  (y + (y \div 4) - (y \div 100) + (y \div 400) + shift[date[2]] + date[3]) % 7

-----------------------------------------------------------------------------
(* The words that spell a number, a day of the month, an hour, a date: those *)
(* the texts use.                                                          *)
NUMBER_WORDS ==
    LET small == <<"zero", "one", "two", "three", "four", "five", "six", "seven", "eight", "nine", "ten",
                   "eleven", "twelve", "thirteen", "fourteen", "fifteen", "sixteen", "seventeen", "eighteen",
                   "nineteen">>
        tens == <<"ten", "twenty", "thirty", "forty", "fifty", "sixty", "seventy", "eighty", "ninety">>
    IN  [w \in ToSet(small) |-> (CHOOSE i \in DOMAIN small : small[i] = w) - 1]
            @@ [w \in ToSet(tens) |-> 10 * (CHOOSE i \in DOMAIN tens : tens[i] = w)]
            @@ ("hundred" :> 100) @@ ("thousand" :> 1000)

Figures == 0 .. 31 \cup {45, 50, 75, 200, 300, 550, 1000}
FigureWords == {ToString(n) : n \in Figures}
Figure(w) == CHOOSE n \in Figures : ToString(n) = w

Suffix(n) == CASE n \in {1, 21, 31} -> "st" [] n \in {2, 22} -> "nd" [] n \in {3, 23} -> "rd" [] OTHER -> "th"
OrdinalWords == {ToString(n) \o Suffix(n) : n \in 1 .. 31}
Ordinal(w) == CHOOSE n \in 1 .. 31 : ToString(n) \o Suffix(n) = w

ClockWords == {ToString(h) \o half : h \in 1 .. 12, half \in {"am", "pm"}}
ClockHour(w) ==
    LET c == CHOOSE c \in (1 .. 12) \X {"am", "pm"} : ToString(c[1]) \o c[2] = w
    IN  (c[1] % 12) + (IF c[2] = "pm" THEN 12 ELSE 0)

IsoDates == {2026} \X {8, 9} \X (1 .. 31)
Padded(n) == (IF n < 10 THEN "0" ELSE "") \o ToString(n)
isoOf(date) == ToString(date[1]) \o "-" \o Padded(date[2]) \o "-" \o Padded(date[3])
IsoWords == {isoOf(d) : d \in IsoDates}
IsoDate(w) == CHOOSE d \in IsoDates : isoOf(d) = w

-----------------------------------------------------------------------------

Spoken(text) == U!Each(U!Split, text)
Says(t, phrases) == \E p \in phrases : U!Occurs(p, t)
FirstAt(Test(_), t) ==
    {i \in DOMAIN t : Test(t[i]) /\ \A j \in 1 .. i - 1 : ~Test(t[j])}

(* Each answer is a set with at most one member; the first that has one.     *)
When(cond, answer) == IF cond THEN {answer} ELSE {}
FirstOf(answers) ==
    LET some == SelectSeq(answers, LAMBDA a : a # {}) IN IF some = <<>> THEN {} ELSE some[1]

parseRelativeDate(t, today) ==
    LET isos == FirstAt(LAMBDA w : w \in IsoWords, t)
        counts == {i \in 2 .. Len(t) - 1 : t[i - 1] = "in" /\ t[i + 1] \in {"day", "days"}}
        counted == {t[i] : i \in {k \in counts : \A j \in counts : k <= j}}
        days == {Figure(w) : w \in counted \cap FigureWords}
                    \cup {NUMBER_WORDS[w] : w \in counted \cap DOMAIN NUMBER_WORDS}
        ordinals == {i \in 2 .. Len(t) : t[i - 1] = "the" /\ t[i] \in OrdinalWords}
        day == Ordinal(t[CHOOSE i \in ordinals : \A j \in ordinals : i <= j])
        named == {i \in DOMAIN WEEKDAYS : Says(t, {<<WEEKDAYS[i]>>})}
        weekday == CHOOSE i \in named : \A j \in named : i <= j
        ahead == (weekday - 1 - weekdayOf(today) + 7) % 7
    IN  FirstOf(<<{IsoDate(t[i]) : i \in isos},
                  When(Says(t, {<<"today">>}), today),
                  When(Says(t, {<<"tomorrow">>}), addDays(today, 1)),
                  When(Says(t, {<<"day", "after", "tomorrow">>}), addDays(today, 2)),
                  {addDays(today, n) : n \in days},
                  When(Says(t, {<<"next", "week">>}), addDays(today, 7)),
                  When(Says(t, {<<"end", "of", "month">>, <<"end", "of", "the", "month">>}),
                       <<today[1], today[2], DaysIn(today[1], today[2])>>),
                  When(ordinals # {}, IF day > today[3] THEN <<today[1], today[2], day>>
                                      ELSE Carried(today[1], today[2] + 1, day)),
                  When(named # {}, addDays(today, IF ahead = 0 THEN 7 ELSE ahead))>>)

(* What a run of number words comes to.                                     *)
Spelled(run) ==
    LET OrOne(n) == IF n = 0 THEN 1 ELSE n
        sum == FoldLeft(LAMBDA acc, w :
                   CASE w = "and"      -> acc
                     [] w = "hundred"  -> [acc EXCEPT !.current = OrOne(@) * 100]
                     [] w = "thousand" -> [total |-> acc.total + OrOne(acc.current) * 1000, current |-> 0]
                     [] OTHER          -> [acc EXCEPT !.current = @ + NUMBER_WORDS[w]],
                   [total |-> 0, current |-> 0], run)
    IN  sum.total + sum.current

(* The first figure, unless it looks like a day of the month; or else the    *)
(* first run of number words, which may be a lone "and". A date in digits is *)
(* read as the figure of its year.                                          *)
parseAmount(text) ==
    LET t == SelectSeq(text, LAMBDA w : w # ",")
        figure(w) == IF w \in IsoWords THEN IsoDate(w)[1] ELSE Figure(w)
        inWords == (DOMAIN NUMBER_WORDS \ {"zero"}) \cup {"and"}
        first == FirstAt(LAMBDA w : w \in FigureWords \cup IsoWords, t)
        onADay == \E i \in 1 .. Len(t) - 1 : t[i] \in {"on", "by"}
                    /\ LET day == IF t[i + 1] = "the" /\ i + 2 <= Len(t) THEN t[i + 2] ELSE t[i + 1]
                       IN  day \in FigureWords /\ Figure(day) < 100
        money(i) == (i > 1 /\ t[i - 1] = "$") \/ (i < Len(t) /\ t[i + 1] \in {"dollar", "dollars"})
        figures == {figure(t[i]) : i \in {j \in first :
                        figure(t[j]) > 0 /\ ~(figure(t[j]) <= 31 /\ onADay /\ ~money(j))}}
        ends(i) == {j \in i .. Len(t) : \A k \in i .. j : t[k] \in inWords}
        spelled == {Spelled(SubSeq(t, i, Cardinality(ends(i)) + i - 1)) :
                        i \in FirstAt(LAMBDA w : w \in inWords, t)}
    IN  FirstOf(<<figures, spelled \ {0}>>)

(* Tomorrow at ten, unless a day or an hour is named: one with its half of   *)
(* the day, or a bare one from eight to twenty after some "at". A number of  *)
(* at most two digits is taken for the hour; in a date it is the month.     *)
parseCallbackTime(t, today) ==
    LET date == FirstOf(<<parseRelativeDate(t, today), {addDays(today, 1)}>>)
        explicit == FirstAt(LAMBDA w : w \in ClockWords \cup IsoWords
                                        \/ (w \in FigureWords /\ Figure(w) < 100), t)
        bare(w) == IF w \in IsoWords THEN IsoDate(w)[2] ELSE Figure(w)
        hourOf(w) == CASE w \in ClockWords -> ClockHour(w)
                       [] w \notin ClockWords /\ bare(w) \in 8 .. 20 /\ Says(t, {<<"at">>}) -> bare(w)
                       [] OTHER -> 10
    IN  [date |-> CHOOSE d \in date : TRUE,
         hour |-> CHOOSE h \in FirstOf(<<{hourOf(t[i]) : i \in explicit},
                                         When(Says(t, {<<"morning">>}), 10),
                                         When(Says(t, {<<"afternoon">>}), 15),
                                         When(Says(t, {<<"evening">>}), 18), {10}>>) : TRUE]

-----------------------------------------------------------------------------
(* The phrases a turn is read by.                                          *)
Theirs == {"his", "her", "their"}
Relations == {"mother", "father", "wife", "husband", "son", "daughter", "brother", "sister",
              "roommate", "friend", "partner"}
Away == {"available", "here", "home", "in"}
BadTime == {<<"not", "a", "good", "time">>, <<"not", "the", "right", "time">>}

AFFIRM ==
    {<<"yes">>, <<"yeah">>, <<"yep">>, <<"yup">>, <<"speaking">>, <<"that", "s", "me">>, <<"i", "am">>,
     <<"correct">>, <<"right">>, <<"sure">>, <<"go", "ahead">>, <<"of", "course">>}
        \cup {<<"this", "is", who>> : who \in {"he", "she", "him", "her"}}
NEGATE_IDENTITY ==
    {<<"not", w>> : w \in {"him", "her", "them"} \cup Away}
        \cup {<<"isn", "t", w>> : w \in Away} \cup {<<"is", "not", w>> : w \in Away}
        \cup {<<"wrong", w>> : w \in {"person", "number", "guy"}}
        \cup {<<"no", w>> : w \in {"he", "she", "they"}} \cup {<<w, r>> : w \in Theirs, r \in Relations}
        \cup {<<"i", "m", w>> : w \in Theirs} \cup {<<"i", "am", w>> : w \in Theirs}
        \cup {<<"can", "i", "take", "a", "message">>, <<"call", "back", "later">>} \cup BadTime
CALLBACK == {<<"call", "back">>, <<"call", "me", "back">>, <<"callback">>, <<"later">>, <<"another", "time">>,
             <<"busy", "right", "now">>} \cup BadTime
DECLINE == {<<"no">>, <<"nope">>, <<"not", "right">>, <<"not", "correct">>, <<"that", "s", "wrong">>,
            <<"change">>, <<"actually">>, <<"wait">>, <<"different">>, <<"instead">>}
CONFIRM == {<<"yes">>, <<"yeah">>, <<"yep">>, <<"correct">>, <<"right">>, <<"confirm">>, <<"that", "s", "it">>,
            <<"sounds", "good">>, <<"ok">>, <<"okay">>}
PAYING == {<<"pay">>, <<"payment">>, <<"send">>, <<"transfer">>}
ASKING_WHO == {<<"who">>, <<"what", "is", "this", "about">>, <<"what", "s", "this", "about">>,
               <<"why", "are", "you", "calling">>}
ASKING_WHAT == {<<"how", "much">>, <<"what", "do", "i", "owe">>, <<"balance">>,
                <<"what", "is", "this", "about">>, <<"why", "are", "you", "calling">>}

(* A decision calls a tool or says something and suggests a state, or both.  *)
NoTool == "none"
Call(tool, args, next) == [tool |-> tool, args |-> args, next |-> next, says |-> ""]
Say(what, next) == [tool |-> NoTool, args |-> <<>>, next |-> next, says |-> what]
Stay == "null"

DecideWho(t, name) ==
    CASE Says(t, NEGATE_IDENTITY \cup {<<"not", name>>}) ->
            Call("record_wrong_party_contact", "THIRD_PARTY_CONTACT", "THIRD_PARTY_OR_WRONG_PARTY")
      [] OTHER ->
            IF Says(t, AFFIRM \cup {<<name>>})
            THEN Call("confirm_right_party", TRUE, "DISCUSSING_PAYMENT")
            ELSE Say(IF Says(t, ASKING_WHO) THEN "who_calls" ELSE "is_that_you", "VERIFYING_IDENTITY")

CallBack(t, today) == Call("schedule_callback", parseCallbackTime(t, today), Stay)

(* Without an amount of their own, the balance is what is promised.         *)
DecidePayment(t, today, balance) ==
    LET date == parseRelativeDate(t, today)
        said == parseAmount(t)
        amount == IF said # {} THEN said ELSE balance
    IN  IF Says(t, CALLBACK) /\ ~Says(t, {<<"pay">>}) THEN CallBack(t, today)
        ELSE IF Says(t, PAYING) \/ date # {} \/ said # {}
        THEN IF date = {} THEN Say("what_date", "DISCUSSING_PAYMENT")
             ELSE IF amount = {} THEN Say("what_amount", "DISCUSSING_PAYMENT")
             ELSE Call("propose_promise_to_pay",
                       [amount |-> CHOOSE a \in amount : TRUE, date |-> CHOOSE d \in date : TRUE],
                       "CONFIRMING_OUTCOME")
        ELSE Say(IF Says(t, ASKING_WHAT) THEN "balance" ELSE "can_you_pay", "DISCUSSING_PAYMENT")

DecideConfirming(t, today) ==
    IF Says(t, CALLBACK) /\ ~Says(t, {<<"yes">>}) THEN CallBack(t, today)
    ELSE IF Says(t, CONFIRM) THEN Call("record_promise_to_pay", TRUE, Stay)
    ELSE IF Says(t, DECLINE) \/ parseAmount(t) # {} \/ parseRelativeDate(t, today) # {}
    THEN Say("what_would_work", "DISCUSSING_PAYMENT")
    ELSE Say("please_say_yes", "CONFIRMING_OUTCOME")

scriptedDecide(state, text, today, name, balance) ==
    LET t == Spoken(text)
    IN  CASE state \in {"GREETING", "VERIFYING_IDENTITY"} -> DecideWho(t, name)
          [] state = "DISCUSSING_PAYMENT" -> DecidePayment(t, today, balance)
          [] state = "CONFIRMING_OUTCOME" -> DecideConfirming(t, today)
          [] OTHER -> Say("goodbye", "ENDING")
==============================================================================
