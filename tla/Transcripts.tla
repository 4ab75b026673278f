----------------------------- MODULE Transcripts -----------------------------
(***************************************************************************)
(* How a transcript is compared with what was said (wer.ts, entityError.ts): *)
(* both are brought to one canonical form, in which numbers are digits, and  *)
(* are then compared as words. A text is a sequence of words; a number in    *)
(* digits is the word ToString gives. Used by TLC only.                     *)
(***************************************************************************)
EXTENDS Integers, FiniteSets, Sequences, SequencesExt, TLC

Units == <<"zero", "one", "two", "three", "four", "five", "six", "seven", "eight", "nine", "ten",
           "eleven", "twelve", "thirteen", "fourteen", "fifteen", "sixteen", "seventeen",
           "eighteen", "nineteen">>
Tens == <<"ten", "twenty", "thirty", "forty", "fifty", "sixty", "seventy", "eighty", "ninety">>

IsUnit(w) == w \in ToSet(Units)
IsTen(w) == w \in ToSet(Tail(Tens))
UnitOf(w) == (CHOOSE i \in DOMAIN Units : Units[i] = w) - 1
TenOf(w) == 10 * CHOOSE i \in DOMAIN Tens : Tens[i] = w
isNumberWord(w) == IsUnit(w) \/ IsTen(w) \/ w \in {"hundred", "thousand"}

(* The end of the run of number words that starts at i.                     *)
RunEnd(words, i) ==
    CHOOSE e \in i .. Len(words) :
        /\ \A k \in i .. e : isNumberWord(words[k])
        /\ e = Len(words) \/ ~isNumberWord(words[e + 1])

(* "five five zero" is a spoken sequence, not arithmetic.                   *)
IsDigitRun(run) == Len(run) >= 2 /\ \A k \in DOMAIN run : IsUnit(run[k]) /\ UnitOf(run[k]) <= 9
DigitsOf(run) == FoldLeft(LAMBDA s, w : s \o ToString(UnitOf(w)), "", run)

(* "and" only joins a number when a number follows it.                      *)
Joins(words, i, value) ==
    words[i] = "and" /\ value > 0 /\ i < Len(words) /\ isNumberWord(words[i + 1])

OneIfNone(n) == IF n = 0 THEN 1 ELSE n

(* The number that begins at i, as far as it goes: its value and its end.   *)
RECURSIVE Absorb(_, _, _, _)
Absorb(words, i, total, current) ==
    IF i > Len(words) THEN [value |-> total + current, next |-> i]
    ELSE LET w == words[i]
         IN  CASE Joins(words, i, total + current) -> Absorb(words, i + 1, total, current)
               [] IsUnit(w)      -> Absorb(words, i + 1, total, current + UnitOf(w))
               [] IsTen(w)       -> Absorb(words, i + 1, total, current + TenOf(w))
               [] w = "hundred"  -> Absorb(words, i + 1, total, OneIfNone(current) * 100)
               [] w = "thousand" -> Absorb(words, i + 1, total + OneIfNone(current) * 1000, 0)
               [] OTHER          -> [value |-> total + current, next |-> i]

RECURSIVE FoldFrom(_, _)
FoldFrom(words, i) ==
    IF i > Len(words) THEN <<>>
    ELSE IF ~isNumberWord(words[i]) THEN <<words[i]>> \o FoldFrom(words, i + 1)
    ELSE LET e == RunEnd(words, i)
             run == SubSeq(words, i, e)
             number == Absorb(words, i, 0, 0)
         IN  IF IsDigitRun(run) THEN <<DigitsOf(run)>> \o FoldFrom(words, e + 1)
             ELSE <<ToString(number.value)>> \o FoldFrom(words, number.next)

foldNumberWords(words) == FoldFrom(words, 1)

-----------------------------------------------------------------------------
(* wordErrorRate: the table of edits, ref along its rows, hyp along columns. *)

Edit(cell, ds, di, dd) ==
    [cost |-> cell.cost + ds + di + dd, s |-> cell.s + ds, i |-> cell.i + di, d |-> cell.d + dd]

wordErrors(ref, hyp) ==
    LET Cheaper(new, best) == IF new.cost < best.cost THEN new ELSE best
        table[i \in 0 .. Len(ref), j \in 0 .. Len(hyp)] ==
            CASE i = 0 -> [cost |-> j, s |-> 0, i |-> j, d |-> 0]
              [] j = 0 -> [cost |-> i, s |-> 0, i |-> 0, d |-> i]
              [] OTHER ->
                    LET substitute == Edit(table[i - 1, j - 1], IF ref[i] = hyp[j] THEN 0 ELSE 1, 0, 0)
                        deletion == Edit(table[i - 1, j], 0, 0, 1)
                        insertion == Edit(table[i, j - 1], 0, 1, 0)
                    IN  Cheaper(insertion, Cheaper(deletion, substitute))
    IN  table[Len(ref), Len(hyp)]

(* Per ten thousand reference words; of an empty reference there is none.   *)
NoRate == -1
wordErrorRate(ref, hyp) ==
    IF ref = <<>> THEN NoRate
    ELSE LET e == wordErrors(ref, hyp)
         IN  ((e.s + e.i + e.d) * 20000 + Len(ref)) \div (2 * Len(ref))

-----------------------------------------------------------------------------
(* Entities: amounts, dates and the names the caller expects.               *)

Weekdays == {"monday", "tuesday", "wednesday", "thursday", "friday", "saturday", "sunday"}
Months == {"january", "february", "march", "april", "may", "june", "july", "august",
           "september", "october", "november", "december"}
Numerals == {ToString(n) : n \in 0 .. 9999}
DayNumerals == {ToString(n) : n \in 0 .. 99}

EntitiesAt(words, names, i) ==
    LET w == words[i]
        Entity(kind, value) == [kind |-> kind, value |-> value]
    IN  CASE w = "dollars" /\ i > 1 /\ words[i - 1] \in Numerals -> <<Entity("amount", words[i - 1])>>
          [] w \in Weekdays \cup Months ->
                <<Entity("date", w)>> \o
                    (IF i < Len(words) /\ words[i + 1] \in DayNumerals
                     THEN <<Entity("date", words[i + 1])>> ELSE <<>>)
          [] w \in names -> <<Entity("name", w)>>
          [] OTHER -> <<>>

entitiesIn(words, names) ==
    FoldLeft(LAMBDA found, i : found \o EntitiesAt(words, names, i), <<>>, [i \in DOMAIN words |-> i])

entityErrors(ref, hyp, names) ==
    SelectSeq(entitiesIn(ref, names), LAMBDA e : e.value \notin ToSet(hyp))
amountErrors(ref, hyp, names) ==
    Len(SelectSeq(entityErrors(ref, hyp, names), LAMBDA e : e.kind = "amount"))
==============================================================================
