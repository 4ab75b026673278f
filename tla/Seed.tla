--------------------------------- MODULE Seed ---------------------------------
(***************************************************************************)
(* The demonstration data (services/Seed.ts): the borrowers, the calls that  *)
(* are played to give them a history, and the fixtures of a load run.       *)
(* What a call leaves is Scenarios' play of it, on the day it is set to.    *)
(***************************************************************************)
EXTENDS Integers, FiniteSets, Sequences, SequencesExt, TLC

LOCAL P == INSTANCE Policies
LOCAL Call(Name, Balance, Today) == INSTANCE Scenarios

Zone(offset) == [shift |-> 0, before |-> offset, after |-> offset]
NoAnswer == <<>>

(* at: the half hours after midnight UTC of that day.                        *)
DEMO_BORROWERS ==
    <<[name |-> "jordan", zone |-> Zone(-8), status |-> "ACTIVE", consent |-> P!Absent, valid |-> TRUE, balance |-> 550,
       history |-> <<[on |-> <<2026, 8, 10>>, at |-> 32, turns |-> NoAnswer]>>],
      [name |-> "priya", zone |-> Zone(11), status |-> "ACTIVE", consent |-> P!Absent, valid |-> TRUE, balance |-> 300,
       history |-> <<[on |-> <<2026, 8, 4>>, at |-> 18,
                      turns |-> <<<<"yes", "this", "is", "priya">>, <<"i", "can", "pay", "300", "on", "the", "8th">>, <<"yes">>>>],
                     [on |-> <<2026, 8, 12>>, at |-> 19, turns |-> NoAnswer]>>],
      [name |-> "sam", zone |-> Zone(-10), status |-> "OPT_OUT", consent |-> "OPTED_OUT", valid |-> TRUE, balance |-> 125,
       history |-> <<[on |-> <<2026, 7, 25>>, at |-> 36, turns |-> <<<<"yes", "speaking">>, <<"stop", "calling", "me">>>>]>>],
      [name |-> "lee", zone |-> Zone(-14), status |-> "ACTIVE", consent |-> P!Absent, valid |-> FALSE, balance |-> 420,
       history |-> <<[on |-> <<2026, 8, 6>>, at |-> 40,
                      turns |-> <<<<"wrong", "number", ",", "no", "one", "by", "that", "name", "here">>>>]>>],
      [name |-> "morgan", zone |-> Zone(2), status |-> "ACTIVE", consent |-> P!Absent, valid |-> TRUE, balance |-> 150,
       history |-> <<>>]>>

-----------------------------------------------------------------------------
(* A borrower in the database: the rows there are of them, the calls they     *)
(* had, and whether they may be called.                                     *)
Fresh == [rows |-> {}, calls |-> <<>>, status |-> "ACTIVE", consent |-> "ALLOWED", valid |-> TRUE]

PreCall(b, row, at) ==
    P!evaluatePreCall([status |-> row.status, timezone |-> b.zone, timezoneOverride |-> P!Unknown,
                       linked |-> "link" \in row.rows, consent |-> row.consent, valid |-> row.valid, now |-> at,
                       attempts |-> 0, active |-> FALSE, callbacks |-> 0])

(* A past call is played until it ends, and what it left pending is called   *)
(* off; one that may not be started is left out.                            *)
historical(b, row, h) ==
    LET Played(steps) ==
            FoldLeft(LAMBDA c, s : IF c.outcome # "null" THEN c
                                   ELSE Call(b.name, {b.balance}, h.on)!Step(c, s, [kind |-> "scripted"]),
                     Call(b.name, {b.balance}, h.on)!Started("simulated"), steps)
        steps == IF h.turns = NoAnswer THEN <<[kind |-> "no_answer"]>>
                 ELSE [i \in DOMAIN h.turns |-> Call(b.name, {b.balance}, h.on)!Say(ToString(i), h.turns[i])]
        ended == Played(steps)
        left == [ended EXCEPT !.pending = @ \ {"RETRY_CALL", "CALLBACK"}]
    IN  IF PreCall(b, row, h.at) # <<>> THEN row
        ELSE [row EXCEPT !.calls = Append(@, left),
                         !.status = IF ended.optedOut THEN "OPT_OUT" ELSE @,
                         !.valid = @ /\ ended.numberValid]

(* The writes of a borrower, one after another and each for itself.          *)
Writes(b) ==
    <<"borrower", "contact_point", "link", "loan">> \o [i \in DOMAIN b.history |-> "call"]
        \o <<"status", "consent", "validity">>
Write(b, row, i) ==
    LET write == Writes(b)[i]
    IN  CASE write = "call"     -> historical(b, row, b.history[i - 4])
          [] write = "status"   -> IF b.status = "OPT_OUT" THEN [row EXCEPT !.status = b.status] ELSE row
          [] write = "consent"  -> IF b.consent # P!Absent THEN [row EXCEPT !.consent = b.consent] ELSE row
          [] write = "validity" -> [row EXCEPT !.valid = @ /\ b.valid]
          [] OTHER              -> [row EXCEPT !.rows = @ \cup {write}]

(* upTo: the write after which the process stops, if it does.                *)
seedOne(b, row, upTo) ==
    IF row.rows # {} THEN row
    ELSE FoldLeft(LAMBDA r, i : Write(b, r, i), row, [i \in 1 .. upTo |-> i])
run(db) ==
    [i \in DOMAIN DEMO_BORROWERS |-> seedOne(DEMO_BORROWERS[i], db[i], Len(Writes(DEMO_BORROWERS[i])))]
CutShort(b, upTo) ==
    [i \in DOMAIN DEMO_BORROWERS |->
        seedOne(DEMO_BORROWERS[i], Fresh,
                CASE i < b -> Len(Writes(DEMO_BORROWERS[i])) [] i = b -> upTo [] OTHER -> 0)]
reset == run([i \in DOMAIN DEMO_BORROWERS |-> Fresh])

-----------------------------------------------------------------------------
(* Numbers for a load run, the lowest that are free, and the first zone that  *)
(* may be called now.                                                       *)
freeFixtureSubscribers(taken, count, capacity) ==
    LET free == SetToSortSeq((0 .. capacity - 1) \ taken, <)
    IN  SubSeq(free, 1, IF Len(free) < count THEN Len(free) ELSE count)

(* New York, Los Angeles, London, Kolkata, Tokyo, Auckland, Sao Paulo and    *)
(* Moscow, in the northern summer and winter.                               *)
CONTACT_WINDOW_CANDIDATES ==
    [summer |-> <<-8, -14, 2, 11, 18, 24, -6, 6>>, winter |-> <<-10, -16, 0, 11, 18, 26, -6, 6>>]
NoZone == 100
zoneAt(season, now) ==
    LET open == SelectSeq(CONTACT_WINDOW_CANDIDATES[season], LAMBDA o : P!isWithinContactWindow(now, Zone(o)))
    IN  IF open = <<>> THEN NoZone ELSE open[1]

(* All of them, or in one transaction none.                                 *)
loadFixtures(issued, count, capacity, season, now) ==
    LET subscribers == freeFixtureSubscribers(issued, count, capacity)
    IN  IF zoneAt(season, now) = NoZone \/ Len(subscribers) < count THEN issued ELSE issued \cup ToSet(subscribers)
==============================================================================
