----------------------------- MODULE CallLogProofs -----------------------------
(***************************************************************************)
(* Proofs about the event log and its readers (CallLog): the auditor, the   *)
(* hold and the prompt find in the log what the writers meant by it.        *)
(***************************************************************************)
EXTENDS CallLog, FiniteSetTheorems, SequenceTheorems, WellFoundedInduction, TLAPS

-----------------------------------------------------------------------------
(* The inductive invariant.                                                  *)
Modes == {"interruptible", "non_interruptible"}
AgentRow ==
    [type : {"AGENT_TURN"}, turn : Turns \cup {Opening, None}, mode : Modes,
     segments : Seq([id : SegmentIds, mode : Modes])]
PlayoutRow ==
    [type : {"AGENT_TURN_PLAYOUT"}, turn : Turns, segment : SegmentIds \cup {None},
     heard : SegmentIds \cup {None}, interrupted : BOOLEAN]
OtherTypes == {"USER_TURN_FINAL", "TURN_SUPERSEDED", "TOOL_REJECTED",
               "propose_promise_to_pay", "record_promise_to_pay"}
OtherRow == [type : OtherTypes, turn : Turns]
Row == AgentRow \cup PlayoutRow \cup OtherRow
Target == [turn : Turns, segment : SegmentIds]

(* The types, and what the phase says of the log.                            *)
Types ==
    /\ decider \in {"scripted", "openai"}
    /\ client \in Clientele
    /\ rows \in {"old", "new"}
    /\ log \in Seq(Row)
    /\ active \in Turns \cup {None}
    /\ spoken \subseteq Target
    /\ waited \subseteq Turns
    /\ proposal \in Target \cup {None}
Phases ==
    /\ phase \in {"DISCUSSING_PAYMENT", "CONFIRMING_OUTCOME", "COMPLETED"}
    /\ proposal = None <=> phase # "CONFIRMING_OUTCOME"
    /\ phase = "COMPLETED" => active = None
    /\ phase # "COMPLETED" => Of("record_promise_to_pay") = {}

(* Every row is of a turn whose line was taken, and a turn in progress has   *)
(* not replied. Only the deltas of a model are heard of a turn that never    *)
(* replied.                                                                  *)
Replied(t) == \E i \in Of("AGENT_TURN") : log[i].turn = t
TurnsSoFar ==
    /\ active # None => active \in Taken /\ ~Replied(active)
    /\ \A i \in DOMAIN log : log[i].turn \in Turns => log[i].turn \in Taken
    /\ \A u \in spoken : u.turn \in Taken
    /\ decider = "scripted" =>
          /\ \A u \in spoken : Replied(u.turn)
          /\ \A i \in Of("AGENT_TURN_PLAYOUT") : Replied(log[i].turn)

(* A segment's id tells its turn, and a segment is reported once (the deltas *)
(* of a turn sent again have the id of those it began with).                 *)
IdsOf(t) == {Implicit(t), Minted(t)}
Named ==
    /\ \A u \in spoken : u.segment \in IdsOf(u.turn)
    /\ \A i \in Of("AGENT_TURN_PLAYOUT") :
          IF client.named THEN log[i].segment \in IdsOf(log[i].turn) ELSE log[i].segment = None
ReportedOnce ==
    decider = "scripted" =>
        \A i \in Of("AGENT_TURN_PLAYOUT"), u \in spoken : ~playoutMatchesSegment(log[i], u)

(* The line that reads a proposal back has one segment that must be heard;   *)
(* the armed one is the last such line of the log.                           *)
Soft(i) ==
    /\ log[i].mode = "interruptible"
    /\ \A k \in DOMAIN log[i].segments : log[i].segments[k].mode = "interruptible"
Bare(i) == log[i].segments = <<>>
SegmentAt(i) ==
    [turn |-> log[i].turn, segment |-> IF Bare(i) THEN log[i].turn ELSE Minted(log[i].turn)]
ReadBackLine(i) ==
    /\ i \in Of("AGENT_TURN") /\ log[i].turn \in Turns
    /\ log[i].mode = "non_interruptible"
    /\ \/ Bare(i)
       \/ log[i].segments = <<Segment(Minted(log[i].turn), "non_interruptible")>>
       \/ log[i].segments = <<Segment(log[i].turn, "interruptible"),
                              Segment(Minted(log[i].turn), "non_interruptible")>>
LatestAnchor(a, seq) ==
    a \in readBackAnchors /\ a < seq /\ \A b \in readBackAnchors : b < seq => b <= a
ArmedAt(i) ==
    /\ ReadBackLine(i) /\ proposal = SegmentAt(i)
    /\ \A j \in Of("AGENT_TURN") : j > i => Soft(j)
    /\ decider = "scripted" => i - 1 \in readBackAnchors /\ \A b \in readBackAnchors : b <= i - 1
Armed == proposal # None => \E i \in DOMAIN log : ArmedAt(i)

(* A recorded promise rested on a reading the guard let through, of which    *)
(* no further report can come.                                               *)
Concerns(u, s) == IF client.named THEN u.segment = s.segment ELSE u.turn = s.turn
LetThrough(s) ==
    /\ \A p \in Reports(s) : ~p.interrupted
    /\ client.voice => Reports(s) # {} /\ \A u \in spoken : ~Concerns(u, s)
Recorded ==
    decider = "scripted" =>
        \A n \in Of("record_promise_to_pay") : \E i \in DOMAIN log :
            ReadBackLine(i) /\ i < n /\ LatestAnchor(i - 1, n) /\ LetThrough(SegmentAt(i))

(* A borrower line is answered before the next one, unless its turn was      *)
(* superseded, met with silence or released at a shutdown.                   *)
Settled(t) == WasSuperseded(t) \/ t \in waited \cup stranded
Answered ==
    /\ \A i \in Of("USER_TURN_FINAL") :
          \/ log[i].turn = active \/ Settled(log[i].turn)
          \/ \E k \in Of("AGENT_TURN") : i < k
    /\ \A i, j \in Of("USER_TURN_FINAL") : i < j =>
          Settled(log[i].turn) \/ \E k \in Of("AGENT_TURN") : i < k /\ k < j

Shape == Types /\ Phases /\ TurnsSoFar /\ Named
IInv == Shape /\ ReportedOnce /\ Armed /\ Recorded /\ Answered

-----------------------------------------------------------------------------
(* Numbers and sets of positions.                                            *)
LEMMA MinExists ==
  ASSUME NEW S \in SUBSET Nat, S # {}
  PROVE  \E x \in S : \A y \in S : x <= y
<1> DEFINE R == {ss \in Nat \X Nat : ss[1] < ss[2]}
<1>1. IsWellFoundedOn(R, Nat)
  BY NatLessThanWellFounded DEF OpToRel
<1>2. \E x \in S : \A y \in S : ~(<<y, x>> \in R)
  BY <1>1, WFMin
<1>3. ASSUME NEW x \in S, NEW y \in S, ~(<<y, x>> \in R)  PROVE x <= y
  <2>1. x \in Nat /\ y \in Nat /\ ~(y < x)
    BY <1>3
  <2> QED
    BY <2>1
<1>4. PICK x \in S : \A y \in S : ~(<<y, x>> \in R)
  BY <1>2
<1>5. \A y \in S : x <= y
  BY <1>3, <1>4
<1> QED
  BY <1>5

LEMMA MaxExists ==
  ASSUME NEW n \in Nat, NEW S \in SUBSET (0..n), S # {}
  PROVE  \E x \in S : \A y \in S : x >= y
<1> DEFINE T == {n - x : x \in S}
<1>1. T \in SUBSET Nat /\ T # {}
  <2>1. \A x \in S : x \in Int /\ 0 <= x /\ x <= n
    OBVIOUS
  <2>2. \A x \in S : n - x \in Nat
    BY <2>1
  <2> QED
    BY <2>2
<1> HIDE DEF T
<1>2. PICK t \in T : \A u \in T : t <= u
  BY <1>1, MinExists
<1>3. PICK x \in S : t = n - x
  BY DEF T
<1>4. ASSUME NEW y \in S  PROVE x >= y
  <2>1. t <= n - y
    BY <1>2 DEF T
  <2>2. x \in 0..n /\ y \in 0..n
    OBVIOUS
  <2> QED
    BY <1>3, <2>1, <2>2
<1> QED
  BY <1>4

(* The greatest of a set of log positions is one of them.                    *)
LEMMA LatestOf ==
  ASSUME log \in Seq(Row), NEW S \in SUBSET (DOMAIN log), S # {}
  PROVE  Max(S) \in S /\ \A i \in S : i <= Max(S)
<1>1. Len(log) \in Nat /\ S \in SUBSET (0..Len(log))
  <2>1. DOMAIN log = 1..Len(log) /\ Len(log) \in Nat
    OBVIOUS
  <2> QED
    BY <2>1
<1>2. \E x \in S : \A y \in S : x >= y
  BY <1>1, MaxExists
<1>3. Max(S) \in S /\ \A y \in S : Max(S) >= y
  BY <1>2 DEF Max
<1>4. ASSUME NEW i \in S  PROVE i <= Max(S)
  <2>1. i \in 0..Len(log) /\ Max(S) \in 0..Len(log) /\ Max(S) >= i
    BY <1>1, <1>3
  <2> QED
    BY <2>1
<1> QED
  BY <1>3, <1>4

(* When x is the least (greatest) element of S, Min(S) (Max(S)) is x.        *)
LEMMA MinIs ==
  ASSUME NEW S \in SUBSET Nat, NEW x \in S, \A y \in S : x <= y
  PROVE  Min(S) = x
<1>1. Min(S) \in S /\ \A y \in S : Min(S) <= y
  BY DEF Min
<1>2. Min(S) <= x /\ x <= Min(S) /\ Min(S) \in Nat /\ x \in Nat
  BY <1>1
<1> QED
  BY <1>2

LEMMA MaxIs ==
  ASSUME NEW S \in SUBSET Nat, NEW x \in S, \A y \in S : y <= x
  PROVE  Max(S) = x
<1>1. \E z \in S : \A y \in S : z >= y
  OBVIOUS
<1>2. Max(S) \in S /\ \A y \in S : Max(S) >= y
  BY <1>1 DEF Max
<1>3. Max(S) >= x /\ Max(S) <= x /\ Max(S) \in Nat /\ x \in Nat
  BY <1>2
<1> QED
  BY <1>3

-----------------------------------------------------------------------------
(* The rows of the log, by type.                                             *)
LEMMA Positions ==
  ASSUME log \in Seq(Row)
  PROVE  /\ DOMAIN log = 1..Len(log) /\ Len(log) \in Nat
         /\ \A i \in DOMAIN log : i \in Nat /\ log[i] \in Row
         /\ \A type : Of(type) \subseteq DOMAIN log /\ Of(type) \subseteq Nat
BY DEF Of

LEMMA RowsTyped ==
  ASSUME log \in Seq(Row)
  PROVE  /\ \A i \in Of("AGENT_TURN") : log[i] \in AgentRow
         /\ \A i \in Of("AGENT_TURN_PLAYOUT") : log[i] \in PlayoutRow
         /\ \A i \in Of("USER_TURN_FINAL") : log[i] \in OtherRow
<1>1. \A i \in DOMAIN log : log[i] \in Row
  BY Positions
<1> QED
  BY <1>1 DEF Of, Row, AgentRow, PlayoutRow, OtherRow, OtherTypes

(* What the appended rows X make of the log.                                 *)
LEMMA Grown ==
  ASSUME log \in Seq(Row), NEW X \in Seq(Row), log' = log \o X
  PROVE  /\ log' \in Seq(Row) /\ Len(log') = Len(log) + Len(X)
         /\ \A i \in DOMAIN log : i \in DOMAIN log' /\ log'[i] = log[i]
         /\ \A k \in DOMAIN X : Len(log) + k \in DOMAIN log' /\ log'[Len(log) + k] = X[k]
         /\ \A i \in DOMAIN log' : i \in DOMAIN log \/ \E k \in DOMAIN X : i = Len(log) + k
<1>1. log \o X \in Seq(Row) /\ Len(log \o X) = Len(log) + Len(X)
  OBVIOUS
<1>2. \A i \in 1..(Len(log) + Len(X)) :
         (log \o X)[i] = IF i <= Len(log) THEN log[i] ELSE X[i - Len(log)]
  OBVIOUS
<1>3. /\ DOMAIN log = 1..Len(log) /\ Len(log) \in Nat
      /\ DOMAIN X = 1..Len(X) /\ Len(X) \in Nat /\ DOMAIN log' = 1..(Len(log) + Len(X))
  BY <1>1
<1>4. ASSUME NEW k \in DOMAIN X
      PROVE  Len(log) + k \in DOMAIN log' /\ log'[Len(log) + k] = X[k]
  <2>1. k \in Nat /\ 1 <= k /\ k <= Len(X) /\ Len(log) + k \in 1..(Len(log) + Len(X))
    BY <1>3
  <2>2. ~(Len(log) + k <= Len(log)) /\ (Len(log) + k) - Len(log) = k
    BY <1>3, <2>1
  <2> QED
    BY <1>2, <1>3, <2>1, <2>2
<1>5. ASSUME NEW i \in DOMAIN log  PROVE i \in DOMAIN log' /\ log'[i] = log[i]
  <2>1. i \in 1..(Len(log) + Len(X)) /\ i <= Len(log)
    BY <1>3
  <2> QED
    BY <1>2, <1>3, <2>1
<1>6. ASSUME NEW i \in DOMAIN log', i \notin DOMAIN log
      PROVE  \E k \in DOMAIN X : i = Len(log) + k
  <2>1. i - Len(log) \in DOMAIN X
    BY <1>3, <1>6
  <2> QED
    BY <1>3, <2>1
<1> QED
  BY <1>1, <1>3, <1>4, <1>5, <1>6

LEMMA Grows ==
  ASSUME log \in Seq(Row), NEW X \in Seq(Row), log' = log \o X, NEW type
  PROVE  /\ Of(type)' = Of(type) \cup {Len(log) + k : k \in {l \in DOMAIN X : X[l].type = type}}
         /\ Of(type) \subseteq DOMAIN log
BY Grown DEF Of

-----------------------------------------------------------------------------
(* What the readers find, from the invariant.                                *)
LEMMA PromptFollows ==
  ASSUME IInv  PROVE PromptFaithful
<1> SUFFICES ASSUME active # None
             PROVE  /\ PromptInOrder(buildTranscript(TRUE))
                    /\ PromptShowsCut(buildTranscript(TRUE), heardFromLedger)
  BY DEF PromptFaithful
<1> DEFINE T == buildTranscript(TRUE)
<1>1. log \in Seq(Row)
  BY DEF IInv, Shape, Types
<1>2. /\ DOMAIN T = {j \in Of("USER_TURN_FINAL") : ~WasSuperseded(log[j].turn)} \cup Of("AGENT_TURN")
      /\ \A i \in DOMAIN T : T[i] = Entry(log[i])
  BY DEF buildTranscript
<1> HIDE DEF T
<1>3. \A i \in Of("AGENT_TURN") : log[i].type = "AGENT_TURN"
  BY DEF Of
<1>4. \A i \in Of("USER_TURN_FINAL") : log[i].type = "USER_TURN_FINAL"
  BY DEF Of
<1>e. \A i \in Of("AGENT_TURN") : Entry(log[i]).speaker = "AGENT"
  BY <1>3 DEF Entry
<1>f. \A i \in Of("USER_TURN_FINAL") : Entry(log[i]).turn = log[i].turn
  BY <1>4 DEF Entry
<1>5. PromptInOrder(T)
  <2> SUFFICES ASSUME NEW i \in DOMAIN T, NEW j \in DOMAIN T, Follows(T, i, j),
                      T[i].speaker = "BORROWER", T[j].speaker = "BORROWER"
               PROVE  T[i].turn \in waited \cup stranded
    BY DEF PromptInOrder
  <2>1. i \in Of("USER_TURN_FINAL") /\ j \in Of("USER_TURN_FINAL")
    BY <1>2, <1>e
  <2>2. ~WasSuperseded(log[i].turn)
    BY <1>2, <1>3, <1>4, <2>1
  <2>3. i < j /\ ~\E k \in Of("AGENT_TURN") : i < k /\ k < j
    BY <1>2 DEF Follows
  <2>4. Settled(log[i].turn)
    BY <2>1, <2>3 DEF IInv, Answered
  <2>5. T[i].turn = log[i].turn
    BY <1>2, <1>f, <2>1
  <2> QED
    BY <2>2, <2>4, <2>5 DEF Settled
<1>6. PromptShowsCut(T, heardFromLedger)
  <2> DEFINE lines == {i \in Of("AGENT_TURN") : log[i].turn \notin {None, Opening}}
             m == Max(lines)
             cuts == {i \in Of("AGENT_TURN_PLAYOUT") :
                         lines # {} /\ log[i].turn = log[m].turn /\ log[i].interrupted}
             c == Max(cuts)
             cut == heardFromLedger
  <2> SUFFICES ASSUME cut # None, cut.text # None
               PROVE  \E i \in DOMAIN T :
                        /\ T[i].speaker = "AGENT" /\ T[i].turn = cut.turn /\ T[i].interrupted
                        /\ \E k \in DOMAIN T[i].heard : T[i].heard[k] = cut.text
    BY DEF PromptShowsCut
  <2>1. cut = IF cuts = {} THEN None ELSE [turn |-> log[c].turn, text |-> log[c].heard]
    BY DEF heardFromLedger
  <2>2. cuts # {} /\ lines # {}
    BY <2>1
  <2>3. lines \subseteq DOMAIN log /\ cuts \subseteq DOMAIN log
    BY DEF Of
  <2>4. m \in lines
    BY <1>1, <2>2, <2>3, LatestOf
  <2>5. c \in cuts
    BY <1>1, <2>2, <2>3, LatestOf
  <2>6. m \in Of("AGENT_TURN") /\ c \in Of("AGENT_TURN_PLAYOUT")
        /\ log[c].turn = log[m].turn /\ log[c].interrupted
    BY <2>4, <2>5
  <2>7. cut.turn = log[c].turn /\ cut.text = log[c].heard
    BY <2>1, <2>2
  <2> HIDE DEF lines, m, cuts, c, cut
  <2>8. c \in PlayoutsOf(log[m].turn) /\ Interrupted(log[m].turn)
    BY <2>6 DEF PlayoutsOf, Interrupted
  <2>9. m \in DOMAIN T /\ T[m] = Entry(log[m]) /\ log[m].type = "AGENT_TURN"
    BY <1>2, <1>3, <2>6
  <2>10. T[m] = [speaker |-> "AGENT", turn |-> log[m].turn, interrupted |-> TRUE,
                 heard |-> HeardParts(log[m].turn)]
    <3>1. Interrupted(log[m].turn) = TRUE
      BY <2>8 DEF Interrupted
    <3> QED
      BY <2>9, <3>1 DEF Entry
  <2>11. c \in DOMAIN HeardParts(log[m].turn) /\ HeardParts(log[m].turn)[c] = log[c].heard
    BY <2>7, <2>8 DEF HeardParts
  <2> QED
    BY <2>6, <2>7, <2>9, <2>10, <2>11
<1> QED
  BY <1>5, <1>6 DEF T

(* The rows of the hold's query, one per segment of an agent line.           *)
RowAt(j, segment, mode) == [seq |-> j, turn |-> log[j].turn, segment |-> segment, mode |-> mode]
LEMMA RowsOfSegments ==
  ASSUME NEW r
  PROVE  r \in SegmentRows <=>
           \E j \in Of("AGENT_TURN") :
              \/ Bare(j) /\ r = RowAt(j, log[j].turn, log[j].mode)
              \/ ~Bare(j) /\ \E k \in DOMAIN log[j].segments :
                    r = RowAt(j, log[j].segments[k].id, log[j].segments[k].mode)
BY DEF SegmentRows, ToSet, RowAt, Bare

LEMMA TargetTyped ==
  ASSUME NEW i, ReadBackLine(i)
  PROVE  /\ SegmentAt(i) \in Target /\ SegmentAt(i) # None
         /\ SegmentAt(i).turn = log[i].turn /\ SegmentAt(i).turn # Opening
         /\ SegmentAt(i).segment \in IdsOf(SegmentAt(i).turn) /\ SegmentAt(i).segment # None
<1>1. MaxTurns \in Nat
  BY Bounds
<1>2. log[i].turn \in Turns /\ Minted(log[i].turn) \in SegmentIds /\ log[i].turn \in SegmentIds
      /\ log[i].turn # Opening
  BY <1>1 DEF ReadBackLine, Minted, Turns, SegmentIds, Opening
<1>3. SegmentAt(i) \in Target
  BY <1>2 DEF SegmentAt, Target
<1> QED
  BY <1>2, <1>3, Explored DEF SegmentAt, IdsOf, Implicit, Target

LEMMA HoldFollows ==
  ASSUME IInv  PROVE HoldWatchesReadBack
<1> SUFFICES ASSUME proposal # None
             PROVE  IF Reports(proposal) = {} THEN unreportedNonInterruptible = proposal
                    ELSE unreportedNonInterruptible # proposal
  BY DEF HoldWatchesReadBack
<1>1. PICK i \in DOMAIN log : ArmedAt(i)
  BY DEF IInv, Armed
<1>2. log \in Seq(Row) /\ proposal \in Target
  BY DEF IInv, Shape, Types
<1>3. ReadBackLine(i) /\ proposal = SegmentAt(i)
      /\ \A j \in Of("AGENT_TURN") : j > i => Soft(j)
  BY <1>1 DEF ArmedAt
<1> DEFINE mine == RowAt(i, proposal.segment, "non_interruptible")
           seg == log[i].segments
<1>4. mine \in SegmentRows
  <2>1. i \in Of("AGENT_TURN") /\ log[i].mode = "non_interruptible"
    BY <1>3 DEF ReadBackLine
  <2>2. CASE Bare(i)
    <3>1. mine = RowAt(i, log[i].turn, log[i].mode)
      BY <1>3, <2>1, <2>2 DEF SegmentAt
    <3> QED
      BY <2>1, <2>2, <3>1, RowsOfSegments
  <2>3. CASE ~Bare(i)
    <3>1. \E k \in DOMAIN seg : seg[k].id = Minted(log[i].turn) /\ seg[k].mode = "non_interruptible"
      <4>1. CASE seg = <<Segment(Minted(log[i].turn), "non_interruptible")>>
        <5>1. 1 \in DOMAIN seg /\ seg[1].id = Minted(log[i].turn) /\ seg[1].mode = "non_interruptible"
          BY <4>1 DEF Segment
        <5> QED
          BY <5>1
      <4>2. CASE seg = <<Segment(log[i].turn, "interruptible"),
                         Segment(Minted(log[i].turn), "non_interruptible")>>
        <5>1. 2 \in DOMAIN seg /\ seg[2].id = Minted(log[i].turn) /\ seg[2].mode = "non_interruptible"
          BY <4>2 DEF Segment
        <5> QED
          BY <5>1
      <4> QED
        BY <1>3, <2>3, <4>1, <4>2 DEF ReadBackLine
    <3>2. proposal.segment = Minted(log[i].turn)
      BY <1>3, <2>3 DEF SegmentAt
    <3> QED
      BY <2>1, <2>3, <3>1, <3>2, RowsOfSegments
  <2> QED
    BY <2>2, <2>3
<1>5. ASSUME NEW r \in SegmentRows
      PROVE  r.seq \in Of("AGENT_TURN") /\ r.seq \in Nat
             /\ (r.mode = "non_interruptible" => r.seq <= i /\ (r.seq = i => r = mine))
  <2>1. PICK j \in Of("AGENT_TURN") :
              \/ Bare(j) /\ r = RowAt(j, log[j].turn, log[j].mode)
              \/ ~Bare(j) /\ \E k \in DOMAIN log[j].segments :
                    r = RowAt(j, log[j].segments[k].id, log[j].segments[k].mode)
    BY RowsOfSegments
  <2>2. r.seq = j /\ j \in Nat /\ i \in Nat
    BY <1>2, <2>1, Positions DEF RowAt
  <2>3. r.mode = "non_interruptible" => ~Soft(j)
    BY <2>1 DEF RowAt, Soft
  <2>4. r.mode = "non_interruptible" => j <= i
    BY <1>3, <2>2, <2>3
  <2>5. ASSUME r.mode = "non_interruptible", j = i  PROVE r = mine
    <3>1. CASE Bare(i)
      BY <1>3, <2>1, <2>5, <3>1 DEF SegmentAt, RowAt, ReadBackLine
    <3>2. CASE ~Bare(i)
      <4>1. PICK k \in DOMAIN seg : r = RowAt(i, seg[k].id, seg[k].mode)
        BY <2>1, <2>5, <3>2
      <4>2. seg[k].mode = "non_interruptible"
        BY <2>5, <4>1 DEF RowAt
      <4>3. seg[k].id = Minted(log[i].turn)
        <5>1. CASE seg = <<Segment(Minted(log[i].turn), "non_interruptible")>>
          BY <5>1 DEF Segment
        <5>2. CASE seg = <<Segment(log[i].turn, "interruptible"),
                           Segment(Minted(log[i].turn), "non_interruptible")>>
          <6>1. k = 1 \/ k = 2
            BY <5>2
          <6> QED
            BY <4>2, <5>2, <6>1 DEF Segment
        <5> QED
          BY <1>3, <3>2, <5>1, <5>2 DEF ReadBackLine
      <4> QED
        BY <1>3, <3>2, <4>1, <4>2, <4>3 DEF SegmentAt
    <3> QED
      BY <3>1, <3>2
  <2> QED
    BY <2>2, <2>4, <2>5
<1>6. /\ mine.seq = i /\ mine.turn = proposal.turn /\ mine.segment = proposal.segment
      /\ mine.mode = "non_interruptible"
  BY <1>3, TargetTyped DEF RowAt
<1>7. /\ proposal = [turn |-> mine.turn, segment |-> mine.segment]
      /\ mine.turn # Opening /\ mine.segment # None
  BY <1>2, <1>3, <1>6, TargetTyped DEF Target
<1> HIDE DEF mine, seg
<1>8. ASSUME NEW r
      PROVE  r \in Unreported <=>
               /\ r \in SegmentRows /\ r.mode = "non_interruptible" /\ r.turn # Opening /\ r.segment # None
               /\ ~\E j \in Of("AGENT_TURN_PLAYOUT") : playoutMatchesSegment(log[j], r)
  <2>1. \A j : playoutMatchesSegment(log[j], r) <=>
                 IF log[j].segment # None THEN log[j].segment = r.segment ELSE log[j].turn = r.turn
    BY DEF playoutMatchesSegment
  <2> QED
    BY <2>1 DEF Unreported
<1>9. CASE Reports(proposal) = {}
  <2>1. ~\E j \in Of("AGENT_TURN_PLAYOUT") : playoutMatchesSegment(log[j], proposal)
    BY <1>9 DEF Reports
  <2>2. ~\E j \in Of("AGENT_TURN_PLAYOUT") : playoutMatchesSegment(log[j], mine)
    BY <1>6, <2>1 DEF playoutMatchesSegment
  <2>3. mine \in Unreported
    BY <1>4, <1>6, <1>7, <1>8, <2>2
  <2>4. \A q \in Unreported : q.seq \in Nat /\ q.seq <= i /\ (q.seq = i => q = mine)
    BY <1>5, <1>8
  <2>5. i \in Nat
    BY <1>2, Positions
  <2> DEFINE r == CHOOSE r \in Unreported : \A q \in Unreported : r.seq >= q.seq
  <2>6. \A q \in Unreported : mine.seq >= q.seq
    BY <1>6, <2>4, <2>5
  <2>7. r \in Unreported /\ \A q \in Unreported : r.seq >= q.seq
    BY <2>3, <2>6
  <2> HIDE DEF r
  <2>8. r.seq >= i /\ r.seq <= i /\ r.seq \in Nat
    BY <1>6, <2>3, <2>4, <2>7
  <2>9. r = mine
    BY <2>4, <2>5, <2>7, <2>8
  <2>10. unreportedNonInterruptible = [turn |-> r.turn, segment |-> r.segment]
    BY <2>3 DEF unreportedNonInterruptible, r
  <2> QED
    BY <1>7, <1>9, <2>9, <2>10
<1>10. CASE Reports(proposal) # {}
  <2>1. PICK j \in Of("AGENT_TURN_PLAYOUT") : playoutMatchesSegment(log[j], proposal)
    BY <1>10 DEF Reports
  <2>2. CASE Unreported = {}
    BY <1>10, <2>2 DEF unreportedNonInterruptible
  <2>3. CASE Unreported # {}
    <3> DEFINE r == CHOOSE r \in Unreported : \A q \in Unreported : r.seq >= q.seq
               S == {q.seq : q \in Unreported}
    <3>1. S \subseteq DOMAIN log /\ S # {}
      BY <1>2, <1>5, <1>8, <2>3, Positions
    <3>2. Max(S) \in S /\ \A k \in S : k <= Max(S)
      BY <1>2, <3>1, LatestOf
    <3>3. PICK q \in Unreported : q.seq = Max(S)
      BY <3>2
    <3>4. \A p \in Unreported : p.seq \in Nat /\ p.seq <= q.seq
      BY <1>5, <1>8, <3>2, <3>3
    <3>5. \A p \in Unreported : q.seq >= p.seq
      BY <3>4
    <3>6. r \in Unreported
      BY <3>5
    <3> HIDE DEF r
    <3>7. ~playoutMatchesSegment(log[j], r)
      BY <1>8, <3>6
    <3>8. unreportedNonInterruptible = [turn |-> r.turn, segment |-> r.segment]
      BY <2>3 DEF unreportedNonInterruptible, r
    <3>9. ASSUME proposal = [turn |-> r.turn, segment |-> r.segment]  PROVE FALSE
      <4>1. proposal.turn = r.turn /\ proposal.segment = r.segment
        BY <3>9
      <4> QED
        BY <2>1, <3>7, <4>1 DEF playoutMatchesSegment
    <3> QED
      BY <1>10, <3>8, <3>9
  <2> QED
    BY <2>2, <2>3
<1> QED
  BY <1>9, <1>10

(* The auditor's rule finds the line that follows the latest anchor.         *)
LEMMA AuditorFinds ==
  ASSUME log \in Seq(Row), NEW n \in DOMAIN log, NEW i \in DOMAIN log,
         ReadBackLine(i), i < n, LatestAnchor(i - 1, n)
  PROVE  readBackSegmentBefore(n) = SegmentAt(i)
<1> DEFINE anchors == {b \in readBackAnchors : b < n}
           lines == {j \in Of("AGENT_TURN") : j < n /\ \E a \in anchors : a = Max(anchors) /\ a < j}
           e == log[i]
           segments == segmentsOf(e)
           firm == {k \in DOMAIN segments : segments[k].mode = "non_interruptible"}
           readBack == IF firm = {} THEN 1 ELSE Min(firm)
<1>1. anchors \in SUBSET Nat /\ i \in Nat /\ n \in Nat /\ Of("AGENT_TURN") \subseteq Nat
  BY Positions DEF readBackAnchors
<1>2. i - 1 \in anchors /\ \A b \in anchors : b <= i - 1
  BY DEF LatestAnchor
<1>3. Max(anchors) = i - 1
  BY <1>1, <1>2, MaxIs
<1>4. lines = {j \in Of("AGENT_TURN") : j < n /\ i - 1 < j}
  BY <1>2, <1>3
<1> HIDE DEF anchors, lines
<1>5. i \in lines /\ lines \in SUBSET Nat /\ \A j \in lines : i <= j
  BY <1>1, <1>4 DEF ReadBackLine
<1>6. Min(lines) = i
  BY <1>5, MinIs
<1>7. e.turn # None
  BY Explored, Bounds DEF ReadBackLine, Turns, SegmentIds
<1>8. readBackSegmentBefore(n) = [turn |-> e.turn, segment |-> segments[readBack].id]
  <2>1. readBackSegmentBefore(n) =
          IF lines = {} THEN None
          ELSE IF log[Min(lines)].turn = None THEN None
               ELSE LET s == segmentsOf(log[Min(lines)])
                        f == {k \in DOMAIN s : s[k].mode = "non_interruptible"}
                    IN  [turn |-> log[Min(lines)].turn,
                         segment |-> s[IF f = {} THEN 1 ELSE Min(f)].id]
    BY DEF readBackSegmentBefore, lines, anchors
  <2> QED
    BY <1>5, <1>6, <1>7, <2>1
<1>9. segments[readBack].id = SegmentAt(i).segment
  <2>1. CASE Bare(i)
    <3>1. segments = <<Segment(e.turn, "non_interruptible")>>
      BY <1>7, <2>1 DEF Bare, segmentsOf, ReadBackLine
    <3>2. firm \in SUBSET Nat /\ 1 \in firm /\ \A k \in firm : 1 <= k
      BY <3>1 DEF Segment
    <3>3. readBack = 1
      BY <3>2, MinIs
    <3> QED
      BY <2>1, <3>1, <3>3 DEF Segment, SegmentAt
  <2>2. CASE segments = <<Segment(Minted(e.turn), "non_interruptible")>> /\ ~Bare(i)
    <3>1. firm \in SUBSET Nat /\ 1 \in firm /\ \A k \in firm : 1 <= k
      BY <2>2 DEF Segment
    <3>2. readBack = 1
      BY <3>1, MinIs
    <3> QED
      BY <2>2, <3>2 DEF Segment, SegmentAt
  <2>3. CASE segments = <<Segment(e.turn, "interruptible"),
                          Segment(Minted(e.turn), "non_interruptible")>> /\ ~Bare(i)
    <3>1. firm \in SUBSET Nat /\ 2 \in firm /\ \A k \in firm : 2 <= k
      <4>1. DOMAIN segments = 1..2 /\ segments[1].mode = "interruptible"
            /\ segments[2].mode = "non_interruptible"
        BY <2>3 DEF Segment
      <4>2. firm = {2}
        BY <4>1
      <4> QED
        BY <4>2
    <3>2. readBack = 2
      BY <3>1, MinIs
    <3> QED
      BY <2>3, <3>2 DEF Segment, SegmentAt
  <2> QED
    BY <2>1, <2>2, <2>3 DEF ReadBackLine, segmentsOf, Bare
<1>10. SegmentAt(i) = [turn |-> e.turn, segment |-> SegmentAt(i).segment]
  BY DEF SegmentAt
<1> QED
  BY <1>8, <1>9, <1>10

LEMMA AuditFollows ==
  ASSUME IInv  PROVE AuditAgrees
<1> SUFFICES ASSUME decider = "scripted"
             PROVE  /\ evaluateCall.noPromiseWithoutReadback # FALSE
                    /\ client.voice => evaluateCall.promisesWithoutPlayout = 0
  BY DEF AuditAgrees
<1>1. log \in Seq(Row)
  BY DEF IInv, Shape, Types
<1> DEFINE promises == Of("record_promise_to_pay")
           checked == {i \in promises : ReportsBefore(i) # {}}
<1>2. ASSUME NEW n \in promises
      PROVE  (\A p \in ReportsBefore(n) : ~p.interrupted) /\ (client.voice => n \in checked)
  <2>1. PICK i \in DOMAIN log : ReadBackLine(i) /\ i < n /\ LatestAnchor(i - 1, n)
                                /\ LetThrough(SegmentAt(i))
    BY DEF IInv, Recorded
  <2>2. n \in DOMAIN log
    BY DEF Of
  <2>3. readBackSegmentBefore(n) = SegmentAt(i)
    BY <1>1, <2>1, <2>2, AuditorFinds
  <2>4. SegmentAt(i) # None
    BY <2>1, TargetTyped
  <2>5. ReportsBefore(n) = Reports(SegmentAt(i))
    BY <2>3, <2>4 DEF ReportsBefore
  <2> QED
    BY <2>1, <2>5 DEF LetThrough
<1>3. evaluateCall.noPromiseWithoutReadback =
        IF checked = {} THEN None ELSE \A i \in checked : \A p \in ReportsBefore(i) : ~p.interrupted
  BY DEF evaluateCall
<1>4. evaluateCall.promisesWithoutPlayout = Cardinality(promises \ checked)
  BY DEF evaluateCall
<1>5. client.voice => promises \ checked = {}
  BY <1>2
<1>6. client.voice => evaluateCall.promisesWithoutPlayout = 0
  BY <1>4, <1>5, FS_EmptySet
<1>7. (\A i \in checked : \A p \in ReportsBefore(i) : ~p.interrupted) = TRUE
  BY <1>2
<1>8. evaluateCall.noPromiseWithoutReadback # FALSE
  BY <1>3, <1>7, Explored
<1> QED
  BY <1>6, <1>8

-----------------------------------------------------------------------------
(* What a step that appends the rows X leaves as it was.                     *)
LEMMA Numbers ==
  /\ MaxTurns \in Nat /\ None \notin Turns /\ None \notin SegmentIds /\ Opening \notin Turns
  /\ \A t \in Turns : t \in Nat /\ t # None /\ t # Opening /\ IdsOf(t) \subseteq SegmentIds
  /\ \A t, u \in Turns : IdsOf(t) \cap IdsOf(u) # {} => t = u
<1>1. MaxTurns \in Nat
  BY Bounds
<1>2. \A t \in Turns : t \in Nat /\ 1 <= t /\ t <= MaxTurns
  BY <1>1 DEF Turns
<1>3. ASSUME NEW t \in Turns  PROVE t \in SegmentIds /\ Minted(t) \in SegmentIds
  BY <1>1, <1>2 DEF SegmentIds, Minted
<1>4. None \notin SegmentIds
  BY Explored
<1>5. ASSUME NEW t \in Turns, NEW u \in Turns, IdsOf(t) \cap IdsOf(u) # {}  PROVE t = u
  <2>1. t = u \/ t = MaxTurns + u \/ MaxTurns + t = u \/ MaxTurns + t = MaxTurns + u
    BY <1>5 DEF IdsOf, Implicit, Minted
  <2>2. /\ t \in Nat /\ u \in Nat /\ 1 <= t /\ 1 <= u /\ t <= MaxTurns /\ u <= MaxTurns
    BY <1>2
  <2> QED
    BY <1>1, <2>1, <2>2
<1> QED
  BY <1>1, <1>2, <1>3, <1>4, <1>5 DEF IdsOf, Implicit, Opening

Adds(X) == X \in Seq(Row) /\ log' = log \o X

LEMMA Nothing ==
  ASSUME log \in Seq(Row), UNCHANGED log  PROVE Adds(<<>>)
<1>1. log = log \o <<>> /\ <<>> \in Seq(Row)
  OBVIOUS
<1> QED
  BY <1>1 DEF Adds

LEMMA OldRows ==
  ASSUME log \in Seq(Row), NEW X, Adds(X)
  PROVE  /\ log' \in Seq(Row) /\ Len(log) \in Nat
         /\ \A i \in DOMAIN log : i \in DOMAIN log' /\ log'[i] = log[i] /\ i \in Nat /\ i <= Len(log)
         /\ \A type : Of(type) \subseteq Of(type)'
         /\ \A type : \A i \in Of(type)' :
               i \in Of(type) \/ \E k \in DOMAIN X : i = Len(log) + k /\ log'[i] = X[k] /\ X[k].type = type
         /\ \A k \in DOMAIN X : k \in Nat /\ 1 <= k /\ Len(log) + k \in DOMAIN log' /\ log'[Len(log) + k] = X[k]
<1>1. X \in Seq(Row) /\ log' = log \o X
  BY DEF Adds
<1>2. /\ log' \in Seq(Row) /\ Len(log) \in Nat /\ DOMAIN log = 1..Len(log)
      /\ \A i \in DOMAIN log : i \in DOMAIN log' /\ log'[i] = log[i]
      /\ \A k \in DOMAIN X : Len(log) + k \in DOMAIN log' /\ log'[Len(log) + k] = X[k]
      /\ \A i \in DOMAIN log' : i \in DOMAIN log \/ \E k \in DOMAIN X : i = Len(log) + k
  BY <1>1, Grown, Positions
<1>3. \A i \in DOMAIN log : i \in Nat /\ i <= Len(log)
  BY <1>2
<1>4. \A k \in DOMAIN X : k \in Nat /\ 1 <= k
  BY <1>1
<1>5. ASSUME NEW type  PROVE Of(type) \subseteq Of(type)'
  BY <1>2 DEF Of
<1>6. ASSUME NEW type, NEW i \in Of(type)'
      PROVE  i \in Of(type) \/ \E k \in DOMAIN X : i = Len(log) + k /\ log'[i] = X[k] /\ X[k].type = type
  <2>1. i \in DOMAIN log' /\ log'[i].type = type
    BY <1>6 DEF Of
  <2>2. CASE i \in DOMAIN log
    BY <1>2, <2>1, <2>2 DEF Of
  <2>3. CASE i \notin DOMAIN log
    BY <1>2, <2>1, <2>3
  <2> QED
    BY <2>2, <2>3
<1> QED
  BY <1>2, <1>3, <1>4, <1>5, <1>6

LEMMA OldLines ==
  ASSUME log \in Seq(Row), NEW X, Adds(X), NEW i \in DOMAIN log
  PROVE  /\ ReadBackLine(i)' <=> ReadBackLine(i)
         /\ SegmentAt(i)' = SegmentAt(i)
         /\ Soft(i)' <=> Soft(i)
         /\ i \in Of("AGENT_TURN")' <=> i \in Of("AGENT_TURN")
<1>1. i \in DOMAIN log' /\ log'[i] = log[i]
  BY OldRows
<1>2. i \in Of("AGENT_TURN")' <=> i \in Of("AGENT_TURN")
  BY <1>1 DEF Of
<1> QED
  BY <1>1, <1>2 DEF ReadBackLine, SegmentAt, Soft, Bare

LEMMA OldReports ==
  ASSUME log \in Seq(Row), NEW X, Adds(X), NEW s
  PROVE  /\ Reports(s) \subseteq Reports(s)'
         /\ \A p \in Reports(s)' : p \in Reports(s) \/ \E k \in DOMAIN X :
               p = X[k] /\ X[k].type = "AGENT_TURN_PLAYOUT" /\ playoutMatchesSegment(X[k], s)
<1>1. ASSUME NEW p \in Reports(s)  PROVE p \in Reports(s)'
  <2>1. PICK j \in Of("AGENT_TURN_PLAYOUT") : p = log[j] /\ playoutMatchesSegment(log[j], s)
    BY <1>1 DEF Reports
  <2>2. j \in Of("AGENT_TURN_PLAYOUT")' /\ log'[j] = log[j]
    BY OldRows, Positions
  <2> QED
    BY <2>1, <2>2 DEF Reports, playoutMatchesSegment
<1>2. ASSUME NEW p \in Reports(s)'
      PROVE  p \in Reports(s) \/ \E k \in DOMAIN X :
               p = X[k] /\ X[k].type = "AGENT_TURN_PLAYOUT" /\ playoutMatchesSegment(X[k], s)
  <2>1. PICK j \in Of("AGENT_TURN_PLAYOUT")' : p = log'[j] /\ playoutMatchesSegment(log'[j], s)
    BY <1>2 DEF Reports, playoutMatchesSegment
  <2>2. CASE j \in Of("AGENT_TURN_PLAYOUT")
    <3>1. log'[j] = log[j]
      BY <2>2, OldRows, Positions
    <3> QED
      BY <2>1, <2>2, <3>1 DEF Reports
  <2>3. CASE j \notin Of("AGENT_TURN_PLAYOUT")
    <3>1. PICK k \in DOMAIN X : log'[j] = X[k] /\ X[k].type = "AGENT_TURN_PLAYOUT"
      BY <2>3, OldRows
    <3> QED
      BY <2>1, <3>1
  <2> QED
    BY <2>2, <2>3
<1> QED
  BY <1>1, <1>2

LEMMA OldAnchors ==
  ASSUME log \in Seq(Row), NEW X, Adds(X), NEW a, NEW n \in DOMAIN log, LatestAnchor(a, n)
  PROVE  LatestAnchor(a, n)'
<1>1. n \in Nat /\ n <= Len(log) /\ Len(log) \in Nat
  BY OldRows
<1>2. readBackAnchors \subseteq readBackAnchors'
  BY OldRows DEF readBackAnchors
<1>3. ASSUME NEW b \in readBackAnchors', b < n  PROVE b \in readBackAnchors
  <2>1. ASSUME NEW k \in DOMAIN X  PROVE b # Len(log) + k
    <3>1. k \in Nat /\ 1 <= k
      BY OldRows
    <3> QED
      BY <1>1, <1>3, <3>1
  <2> QED
    BY <2>1, OldRows DEF readBackAnchors
<1> QED
  BY <1>2, <1>3 DEF LatestAnchor

LEMMA OldSettled ==
  ASSUME log \in Seq(Row), NEW X, Adds(X), waited \subseteq waited',
         stranded \subseteq stranded', NEW t, Settled(t)
  PROVE  Settled(t)'
<1>1. \A i \in Of("TURN_SUPERSEDED") : i \in Of("TURN_SUPERSEDED")' /\ log'[i] = log[i]
  BY OldRows, Positions
<1> QED
  BY <1>1 DEF Settled, WasSuperseded

LEMMA TakenSame ==
  ASSUME log \in Seq(Row), NEW X, Adds(X), \A k \in DOMAIN X : X[k].type # "USER_TURN_FINAL"
  PROVE  Of("USER_TURN_FINAL")' = Of("USER_TURN_FINAL") /\ Taken' = Taken
<1>1. ASSUME NEW i \in Of("USER_TURN_FINAL")', i \notin Of("USER_TURN_FINAL")  PROVE FALSE
  <2>1. \E k \in DOMAIN X : X[k].type = "USER_TURN_FINAL"
    BY <1>1, OldRows
  <2> QED
    BY <2>1
<1>2. Of("USER_TURN_FINAL") \subseteq Of("USER_TURN_FINAL")'
  BY OldRows
<1>3. Of("USER_TURN_FINAL")' = Of("USER_TURN_FINAL")
  BY <1>1, <1>2
<1>4. \A i \in Of("USER_TURN_FINAL") : log'[i] = log[i]
  BY OldRows, Positions
<1> QED
  BY <1>3, <1>4 DEF Taken

LEMMA OldReplies ==
  ASSUME log \in Seq(Row), NEW X, Adds(X), NEW t
  PROVE  /\ Replied(t) => Replied(t)'
         /\ Replied(t)' => Replied(t) \/ \E k \in DOMAIN X : X[k].type = "AGENT_TURN" /\ X[k].turn = t
<1>1. \A i \in Of("AGENT_TURN") : i \in Of("AGENT_TURN")' /\ log'[i] = log[i]
  BY OldRows, Positions
<1>2. \A i \in Of("AGENT_TURN")' :
         \/ i \in Of("AGENT_TURN") /\ log'[i] = log[i]
         \/ \E k \in DOMAIN X : log'[i] = X[k] /\ X[k].type = "AGENT_TURN"
  BY <1>1, OldRows
<1> QED
  BY <1>1, <1>2 DEF Replied

-----------------------------------------------------------------------------
(* What keeps each part of the invariant.                                    *)
LEMMA AnsweredKept ==
  ASSUME log \in Seq(Row), Answered, NEW X, Adds(X), waited \subseteq waited',
         stranded \subseteq stranded',
         \A k \in DOMAIN X : X[k].type # "USER_TURN_FINAL",
         active' = active \/ active \in waited' \cup stranded' \/ \E k \in DOMAIN X : X[k].type = "AGENT_TURN"
  PROVE  Answered'
<1>1. Of("USER_TURN_FINAL")' = Of("USER_TURN_FINAL")
  BY TakenSame
<1>2. \A i \in Of("USER_TURN_FINAL") : log'[i] = log[i] /\ i \in Nat /\ i <= Len(log) /\ Len(log) \in Nat
  BY OldRows, Positions
<1>3. Of("AGENT_TURN") \subseteq Of("AGENT_TURN")'
  BY OldRows
<1>4. \A t : Settled(t) => Settled(t)'
  BY OldSettled
<1>5. ASSUME NEW i \in Of("USER_TURN_FINAL"), log[i].turn = active
      PROVE  log[i].turn = active' \/ Settled(log[i].turn)' \/ \E k \in Of("AGENT_TURN")' : i < k
  <2>1. CASE active' = active
    BY <1>5, <2>1
  <2>2. CASE active \in waited' \cup stranded'
    <3>1. log'[i].turn \in waited' \cup stranded'
      BY <1>2, <1>5, <2>2
    <3> QED
      BY <3>1 DEF Settled
  <2>3. CASE \E k \in DOMAIN X : X[k].type = "AGENT_TURN"
    <3>1. PICK k \in DOMAIN X : X[k].type = "AGENT_TURN"
      BY <2>3
    <3>2. Len(log) + k \in Of("AGENT_TURN")'
      BY <3>1, OldRows DEF Of
    <3>3. i < Len(log) + k
      <4>1. i \in Nat /\ i <= Len(log) /\ Len(log) \in Nat
        BY <1>2
      <4>2. k \in Nat /\ 1 <= k
        BY OldRows
      <4> QED
        BY <4>1, <4>2
    <3> QED
      BY <3>2, <3>3
  <2> QED
    BY <2>1, <2>2, <2>3
<1> QED
  BY <1>1, <1>2, <1>3, <1>4, <1>5 DEF Answered

LEMMA ArmedKept ==
  ASSUME log \in Seq(Row), Armed, NEW X, Adds(X), UNCHANGED <<decider, proposal>>,
         \A k \in DOMAIN X : X[k].type = "AGENT_TURN" =>
            /\ X[k].mode = "interruptible"
            /\ \A l \in DOMAIN X[k].segments : X[k].segments[l].mode = "interruptible",
         decider = "scripted" =>
            \A k \in DOMAIN X : X[k].type \notin {"propose_promise_to_pay", "TOOL_REJECTED"}
  PROVE  Armed'
<1> SUFFICES ASSUME proposal' # None  PROVE \E i \in DOMAIN log' : ArmedAt(i)'
  BY DEF Armed
<1>1. PICK i \in DOMAIN log : ArmedAt(i)
  BY DEF Armed
<1>2. i \in DOMAIN log' /\ ReadBackLine(i)' /\ proposal' = SegmentAt(i)'
  BY <1>1, OldRows, OldLines DEF ArmedAt
<1>3. ASSUME NEW j \in Of("AGENT_TURN")', j > i  PROVE Soft(j)'
  <2>1. CASE j \in Of("AGENT_TURN")
    <3>1. Soft(j) /\ j \in DOMAIN log
      BY <1>1, <1>3, <2>1, Positions DEF ArmedAt
    <3> QED
      BY <3>1, OldLines
  <2>2. CASE j \notin Of("AGENT_TURN")
    <3>1. PICK k \in DOMAIN X : log'[j] = X[k] /\ X[k].type = "AGENT_TURN"
      BY <2>2, OldRows
    <3> QED
      BY <3>1 DEF Soft
  <2> QED
    BY <2>1, <2>2
<1>4. ASSUME decider' = "scripted"
      PROVE  i - 1 \in readBackAnchors' /\ \A b \in readBackAnchors' : b <= i - 1
  <2>1. i - 1 \in readBackAnchors /\ \A b \in readBackAnchors : b <= i - 1
    BY <1>1, <1>4 DEF ArmedAt
  <2>2. readBackAnchors \subseteq readBackAnchors'
    BY OldRows DEF readBackAnchors
  <2>3. \A b \in readBackAnchors' : b \in readBackAnchors
    BY <1>4, OldRows DEF readBackAnchors
  <2> QED
    BY <2>1, <2>2, <2>3
<1> QED
  BY <1>2, <1>3, <1>4 DEF ArmedAt

LEMMA RecordedKept ==
  ASSUME log \in Seq(Row), Recorded, NEW X, Adds(X), UNCHANGED decider,
         \A k \in DOMAIN X : X[k].type # "record_promise_to_pay",
         \A s : LetThrough(s) => LetThrough(s)'
  PROVE  Recorded'
<1> SUFFICES ASSUME decider = "scripted", NEW n \in Of("record_promise_to_pay")'
             PROVE  \E i \in DOMAIN log' :
                       ReadBackLine(i)' /\ i < n /\ LatestAnchor(i - 1, n)' /\ LetThrough(SegmentAt(i))'
  BY DEF Recorded
<1>1. n \in Of("record_promise_to_pay") /\ n \in DOMAIN log
  BY OldRows, Positions
<1>2. PICK i \in DOMAIN log : ReadBackLine(i) /\ i < n /\ LatestAnchor(i - 1, n) /\ LetThrough(SegmentAt(i))
  BY <1>1 DEF Recorded
<1>3. i \in DOMAIN log' /\ ReadBackLine(i)' /\ SegmentAt(i)' = SegmentAt(i)
  BY <1>2, OldRows, OldLines
<1>4. LatestAnchor(i - 1, n)'
  BY <1>1, <1>2, OldAnchors
<1>5. LetThrough(SegmentAt(i))'
  <2>1. PICK s : s = SegmentAt(i)
    OBVIOUS
  <2>2. LetThrough(s)'
    BY <1>2, <2>1
  <2> QED
    BY <1>3, <2>1, <2>2 DEF LetThrough, Concerns, Reports
<1> QED
  BY <1>2, <1>3, <1>4, <1>5

LEMMA NothingRecorded ==
  ASSUME log \in Seq(Row), NEW X, Adds(X), Of("record_promise_to_pay") = {},
         \A k \in DOMAIN X : X[k].type # "record_promise_to_pay"
  PROVE  Recorded' /\ Of("record_promise_to_pay")' = {}
<1>1. Of("record_promise_to_pay")' = {}
  BY OldRows
<1> QED
  BY <1>1 DEF Recorded

(* Of a segment let through, a voice call has no report left to come, and a  *)
(* simulated one sends none once it is over.                                 *)
LEMMA LetThroughKept ==
  ASSUME log \in Seq(Row), NEW X, Adds(X), UNCHANGED client, spoken' \subseteq spoken,
         NEW s, LetThrough(s),
         \A k \in DOMAIN X : X[k].type # "AGENT_TURN_PLAYOUT" \/ ~playoutMatchesSegment(X[k], s)
  PROVE  LetThrough(s)'
<1>1. Reports(s)' = Reports(s)
  BY OldReports
<1> QED
  BY <1>1 DEF LetThrough, Concerns

LEMMA ReportedOnceKept ==
  ASSUME log \in Seq(Row), ReportedOnce, NEW X, Adds(X), UNCHANGED decider,
         decider = "scripted" => spoken' \subseteq spoken,
         \A k \in DOMAIN X : X[k].type # "AGENT_TURN_PLAYOUT"
  PROVE  ReportedOnce'
<1>1. \A i \in Of("AGENT_TURN_PLAYOUT")' : i \in Of("AGENT_TURN_PLAYOUT") /\ log'[i] = log[i]
  BY OldRows, Positions
<1> QED
  BY <1>1 DEF ReportedOnce, playoutMatchesSegment

(* The turns of the rows, and the names of the segments.                     *)
LEMMA TurnsKept ==
  ASSUME Shape, NEW X, Adds(X), UNCHANGED decider,
         \A k \in DOMAIN X : X[k].type # "USER_TURN_FINAL",
         \A k \in DOMAIN X : X[k].turn \in Turns => X[k].turn \in Taken,
         \A u \in spoken' \ spoken : u.turn \in Taken,
         decider = "scripted" =>
            /\ \A u \in spoken' \ spoken : Replied(u.turn)'
            /\ \A k \in DOMAIN X, t \in Turns :
                  X[k].type = "AGENT_TURN_PLAYOUT" /\ X[k].turn = t => Replied(t)',
         active' \in {active, None},
         active' # None => \A k \in DOMAIN X : X[k].type = "AGENT_TURN" => X[k].turn # active
  PROVE  TurnsSoFar'
<1>1. log \in Seq(Row)
  BY DEF Shape, Types
<1>2. Taken' = Taken
  BY <1>1, TakenSame
<1>3. \A i \in DOMAIN log' : (i \in DOMAIN log /\ log'[i] = log[i]) \/ \E k \in DOMAIN X : log'[i] = X[k]
  BY <1>1, Grown DEF Adds
<1>4. \A i \in DOMAIN log' : log'[i].turn \in Turns => log'[i].turn \in Taken
  BY <1>3 DEF Shape, TurnsSoFar
<1>5. \A u \in spoken' : u.turn \in Taken
  BY DEF Shape, TurnsSoFar
<1>6. ASSUME active' # None  PROVE active' \in Taken /\ ~Replied(active)'
  <2>1. active' = active /\ active \in Taken /\ ~Replied(active)
    BY <1>6 DEF Shape, TurnsSoFar
  <2>2. PICK a : a = active
    OBVIOUS
  <2>3. ~Replied(a)'
    BY <1>1, <1>6, <2>1, <2>2, OldReplies
  <2> QED
    BY <2>1, <2>2, <2>3 DEF Replied
<1>7. ASSUME decider = "scripted", NEW u \in spoken'  PROVE Replied(u.turn)'
  <2>1. CASE u \in spoken
    <3>1. PICK v : v = u.turn
      OBVIOUS
    <3>2. Replied(v)'
      BY <1>1, <1>7, <2>1, <3>1, OldReplies DEF Shape, TurnsSoFar
    <3> QED
      BY <3>1, <3>2
  <2> QED
    BY <1>7, <2>1
<1>8. ASSUME decider = "scripted", NEW i \in Of("AGENT_TURN_PLAYOUT")'  PROVE Replied(log[i].turn)'
  <2>1. CASE i \in Of("AGENT_TURN_PLAYOUT")
    <3>1. PICK v : v = log[i].turn
      OBVIOUS
    <3>2. Replied(v)'
      BY <1>1, <1>8, <2>1, <3>1, OldReplies DEF Shape, TurnsSoFar
    <3>3. v = log'[i].turn
      BY <1>1, <2>1, <3>1, OldRows, Positions
    <3> QED
      BY <3>2, <3>3 DEF Replied
  <2>2. CASE i \notin Of("AGENT_TURN_PLAYOUT")
    <3>1. PICK k \in DOMAIN X : log'[i] = X[k] /\ X[k].type = "AGENT_TURN_PLAYOUT"
      BY <1>1, <2>2, OldRows
    <3>2. log'[i].turn \in Turns
      <4>1. log' \in Seq(Row)
        BY <1>1, OldRows
      <4>2. log'[i] \in Row /\ log'[i].type = "AGENT_TURN_PLAYOUT"
        BY <1>8, <4>1 DEF Of
      <4> QED
        BY <4>2 DEF Row, AgentRow, PlayoutRow, OtherRow, OtherTypes
    <3>3. PICK v \in Turns : v = log'[i].turn
      BY <3>2
    <3>4. Replied(v)'
      BY <1>8, <3>1, <3>3
    <3> QED
      BY <3>3, <3>4 DEF Replied
  <2> QED
    BY <2>1, <2>2
<1> QED
  BY <1>2, <1>4, <1>5, <1>6, <1>7, <1>8 DEF TurnsSoFar

LEMMA NamedKept ==
  ASSUME log \in Seq(Row), Named, NEW X, Adds(X),
         \A u \in spoken' : u \in spoken \/ u.segment \in IdsOf(u.turn),
         UNCHANGED client,
         \A k \in DOMAIN X : X[k].type = "AGENT_TURN_PLAYOUT" =>
            IF client.named THEN X[k].segment \in IdsOf(X[k].turn) ELSE X[k].segment = None
  PROVE  Named'
<1>1. \A i \in Of("AGENT_TURN_PLAYOUT")' :
         \/ i \in Of("AGENT_TURN_PLAYOUT") /\ log'[i] = log[i]
         \/ \E k \in DOMAIN X : log'[i] = X[k] /\ X[k].type = "AGENT_TURN_PLAYOUT"
  BY OldRows, Positions
<1>2. \A u \in spoken' : u.segment \in IdsOf(u.turn)
  BY DEF Named
<1>3. \A i \in Of("AGENT_TURN_PLAYOUT")' :
         IF client.named THEN log'[i].segment \in IdsOf(log'[i].turn) ELSE log'[i].segment = None
  BY <1>1 DEF Named
<1> QED
  BY <1>2, <1>3 DEF Named, IdsOf, Implicit, Minted

-----------------------------------------------------------------------------
(* The rows the actions append.                                              *)
LEMMA AgentRowTyped ==
  ASSUME NEW t \in Turns \cup {Opening, None}, NEW mode \in Modes,
         NEW segments \in Seq([id : SegmentIds, mode : Modes])
  PROVE  AgentTurn(t, mode, segments) \in AgentRow
BY DEF AgentTurn, AgentRow

LEMMA ReportTyped ==
  ASSUME client \in Clientele, NEW s \in Target, NEW how
  PROVE  /\ Report(s, how) \in PlayoutRow /\ Report(s, how).type = "AGENT_TURN_PLAYOUT"
         /\ Report(s, how).turn = s.turn
         /\ Report(s, how).segment = IF client.named THEN s.segment ELSE None
         /\ \A u : playoutMatchesSegment(Report(s, how), u) <=> Concerns(s, u)
<1>1. s.turn \in Turns /\ s.segment \in SegmentIds /\ s.segment # None
  BY Numbers DEF Target
<1>2. client.named \in BOOLEAN
  BY DEF Clientele
<1>3. Report(s, how) =
        [type |-> "AGENT_TURN_PLAYOUT", turn |-> s.turn,
         segment |-> IF client.named THEN s.segment ELSE None,
         heard |-> IF how = "silent" THEN None ELSE s.segment,
         interrupted |-> how # "full"]
  BY DEF Report
<1>4. (how # "full") \in BOOLEAN
  OBVIOUS
<1>5. Report(s, how) \in PlayoutRow
  BY <1>1, <1>3, <1>4 DEF PlayoutRow
<1>6. ASSUME NEW u  PROVE playoutMatchesSegment(Report(s, how), u) <=> Concerns(s, u)
  BY <1>1, <1>2, <1>3 DEF playoutMatchesSegment, Concerns
<1> QED
  BY <1>3, <1>5, <1>6

LEMMA EventTyped ==
  ASSUME NEW t \in Turns, NEW type \in OtherTypes
  PROVE  Event(type, t) \in OtherRow /\ Event(type, t) \in Row
         /\ Event(type, t).type = type /\ Event(type, t).turn = t
BY DEF Event, OtherRow, Row

LEMMA Single ==
  ASSUME NEW x \in Row
  PROVE  <<x>> \in Seq(Row) /\ DOMAIN <<x>> = {1} /\ <<x>>[1] = x
<1>1. DOMAIN <<x>> = 1..1
  OBVIOUS
<1> QED
  BY <1>1

LEMMA Pair ==
  ASSUME NEW x \in Row, NEW y \in Row
  PROVE  /\ <<x, y>> \in Seq(Row) /\ DOMAIN <<x, y>> = {1, 2}
         /\ <<x, y>>[1] = x /\ <<x, y>>[2] = y
<1>1. DOMAIN <<x, y>> = 1..2
  OBVIOUS
<1>2. 1..2 = {1, 2}
  OBVIOUS
<1>3. <<x, y>> \in Seq(Row)
  OBVIOUS
<1> QED
  BY <1>1, <1>2, <1>3

LEMMA PairConcat ==
  ASSUME NEW S, NEW x \in S, NEW y \in S
  PROVE  /\ <<x>> \o <<y>> = <<x, y>> /\ <<x>> \o <<>> = <<x>> /\ <<>> \o <<y>> = <<y>>
         /\ <<x>> \in Seq(S) /\ <<x, y>> \in Seq(S)
<1>1. <<x>> \in Seq(S) /\ <<y>> \in Seq(S) /\ <<x, y>> \in Seq(S) /\ Len(<<x, y>>) = 2
  OBVIOUS
<1>2. <<x>> \o <<y>> = Append(<<x>>, y)
  BY <1>1, AppendIsConcat
<1>3. Append(<<x>>, y) \in Seq(S)
  BY <1>1
<1>4. Len(Append(<<x>>, y)) = 2 /\ Append(<<x>>, y)[1] = x /\ Append(<<x>>, y)[2] = y
  BY <1>1
<1>5. \A i \in 1..2 : Append(<<x>>, y)[i] = <<x, y>>[i]
  BY <1>4
<1>6. Append(<<x>>, y) = <<x, y>>
  BY <1>1, <1>3, <1>4, <1>5, SeqEqual
<1>7. <<x>> \o <<>> = <<x>> /\ <<>> \o <<y>> = <<y>>
  BY <1>1, ConcatEmptySeq
<1> QED
  BY <1>1, <1>2, <1>6, <1>7

LEMMA TwoSteps ==
  ASSUME NEW s \in Seq(Row), NEW x \in Row, NEW y \in Row
  PROVE  s \o <<x>> \o <<y>> = s \o <<x, y>>
<1>1. <<x>> \in Seq(Row) /\ <<y>> \in Seq(Row)
  OBVIOUS
<1>2. (s \o <<x>>) \o <<y>> = s \o (<<x>> \o <<y>>)
  BY <1>1, ConcatAssociative
<1> QED
  BY <1>2, PairConcat

LEMMA NoStep ==
  ASSUME NEW s \in Seq(Row)
  PROVE  s \o <<>> = s
OBVIOUS

-----------------------------------------------------------------------------
(* A step that says nothing.                                                 *)
Same == UNCHANGED <<decider, client, log, phase, proposal, spoken, stranded>>
LEMMA QuietKeeps ==
  ASSUME IInv, Same, rows' \in {"old", "new"},
         waited' \subseteq Turns, waited \subseteq waited',
         active' = active \/ (active' = None /\ active \in waited')
  PROVE  IInv'
<1>1. log \in Seq(Row) /\ Adds(<<>>) /\ DOMAIN <<>> = {}
  BY Nothing DEF IInv, Shape, Types, Same
<1>2. Types' /\ Phases'
  BY DEF IInv, Shape, Types, Phases, Same, Of
<1>3. TurnsSoFar'
  BY <1>1, TurnsKept DEF IInv, Same
<1>4. Named'
  BY <1>1, NamedKept DEF IInv, Shape, Same
<1>5. ReportedOnce'
  BY <1>1, ReportedOnceKept DEF IInv, Same
<1>6. Armed'
  BY <1>1, ArmedKept DEF IInv, Same
<1>7. \A s : LetThrough(s) => LetThrough(s)'
  BY <1>1, LetThroughKept DEF Same
<1>8. Recorded'
  BY <1>1, <1>7, RecordedKept DEF IInv, Same
<1>9. Answered'
  BY <1>1, AnsweredKept DEF IInv, Same
<1> QED
  BY <1>2, <1>3, <1>4, <1>5, <1>6, <1>8, <1>9 DEF IInv, Shape

LEMMA WaitKeeps ==
  ASSUME IInv, Wait  PROVE IInv'
<1>1. Same /\ rows' \in {"old", "new"}
  BY DEF Wait, IInv, Shape, Types, Same
<1>2. waited' \subseteq Turns /\ waited \subseteq waited' /\ active' = None /\ active \in waited'
  BY DEF Wait, IInv, Shape, Types
<1> QED
  BY <1>1, <1>2, QuietKeeps

(* A shutdown: nothing is appended, and only deltas may have been spoken.    *)
LEMMA ReleaseKeeps ==
  ASSUME IInv, Release  PROVE IInv'
<1>1. PICK left \in LeftSpoken : spoken' = spoken \cup left
  BY DEF Release
<1>2. /\ active # None /\ active' = None /\ active \in stranded' /\ stranded \subseteq stranded'
      /\ UNCHANGED <<decider, client, rows, log, phase, proposal, waited>>
  BY DEF Release
<1>3. /\ log \in Seq(Row) /\ Adds(<<>>) /\ DOMAIN <<>> = {} /\ phase # "COMPLETED"
      /\ active \in Turns /\ spoken \subseteq Target /\ active \in Taken
  BY <1>2, Nothing DEF IInv, Shape, Types, Phases, TurnsSoFar
<1>4. \A u \in spoken' \ spoken :
         u \in Target /\ u.turn = active /\ u.segment \in IdsOf(u.turn) /\ decider = "openai"
  <2> SUFFICES ASSUME NEW u \in spoken', u \notin spoken
               PROVE  /\ u \in Target /\ u.turn = active /\ u.segment \in IdsOf(u.turn)
                      /\ decider = "openai"
    OBVIOUS
  <2>1. u = [turn |-> active, segment |-> active] /\ decider = "openai"
    BY <1>1 DEF LeftSpoken, Implicit
  <2>2. active \in IdsOf(active) /\ active \in SegmentIds
    BY <1>3, Numbers DEF IdsOf, Implicit
  <2> QED
    BY <1>3, <2>1, <2>2 DEF Target
<1>5. decider = "scripted" => spoken' = spoken
  BY <1>1, <1>4
<1>6. Recorded' /\ Of("record_promise_to_pay")' = {}
  BY <1>3, NothingRecorded DEF IInv, Shape, Phases
<1>7. Types' /\ Phases'
  <2>1. spoken' \subseteq Target
    BY <1>3, <1>4
  <2> QED
    BY <1>2, <1>6, <2>1 DEF IInv, Shape, Types, Phases
<1>8. TurnsSoFar'
  BY <1>2, <1>3, <1>4, <1>5, TurnsKept DEF IInv
<1>9. Named'
  BY <1>2, <1>3, <1>4, NamedKept DEF IInv, Shape
<1>10. ReportedOnce'
  BY <1>2, <1>3, <1>5, ReportedOnceKept DEF IInv
<1>11. Armed'
  BY <1>2, <1>3, ArmedKept DEF IInv
<1>12. Answered'
  BY <1>2, <1>3, AnsweredKept DEF IInv
<1> QED
  BY <1>6, <1>7, <1>8, <1>9, <1>10, <1>11, <1>12 DEF IInv, Shape

LEMMA DeployKeeps ==
  ASSUME IInv, Deploy  PROVE IInv'
<1>1. Same
  BY DEF Deploy, Same
<1>2. rows' \in {"old", "new"}
  BY DEF Deploy
<1>3. waited' \subseteq Turns /\ waited \subseteq waited'
  BY DEF IInv, Shape, Types, Deploy
<1>4. active' = active
  BY DEF Deploy
<1> QED
  BY <1>1, <1>2, <1>3, <1>4, QuietKeeps

LEMMA NoInputKeeps ==
  ASSUME IInv, NoInput  PROVE IInv'
<1> DEFINE a == AgentTurn(None, "interruptible", <<>>)
           X == <<a>>
<1>1. /\ log \in Seq(Row) /\ log' = Append(log, a) /\ phase # "COMPLETED"
      /\ UNCHANGED <<decider, client, rows, phase, proposal, active, spoken, waited, stranded>>
  BY DEF IInv, Shape, Types, NoInput
<1>2. /\ a \in Row /\ a.type = "AGENT_TURN" /\ a.turn = None /\ a.mode = "interruptible"
      /\ a.segments = <<>>
  <2>1. <<>> \in Seq([id : SegmentIds, mode : Modes])
    OBVIOUS
  <2> QED
    BY <2>1, AgentRowTyped DEF AgentTurn, Row, Modes
<1> HIDE DEF a
<1>3. DOMAIN X = {1} /\ X[1] = a /\ X \in Seq(Row)
  BY <1>2, Single
<1>4. Adds(X)
  BY <1>1, <1>2, <1>3 DEF Adds
<1>5. /\ \A k \in DOMAIN X : X[k].type = "AGENT_TURN" /\ X[k].turn = None /\ X[k].mode = "interruptible"
      /\ \A k \in DOMAIN X : X[k].segments = <<>>
  BY <1>2, <1>3
<1> HIDE DEF X
<1>6. Of("record_promise_to_pay")' = {} /\ Recorded'
  BY <1>1, <1>4, <1>5, NothingRecorded DEF IInv, Shape, Phases
<1>7. Types' /\ Phases'
  <2>1. log' \in Seq(Row)
    BY <1>1, <1>4, OldRows
  <2> QED
    BY <1>1, <1>6, <2>1 DEF IInv, Shape, Types, Phases
<1>8. TurnsSoFar'
  <2>1. active = None \/ active \in Turns
    BY DEF IInv, Shape, Types
  <2> QED
    BY <1>1, <1>4, <1>5, <2>1, TurnsKept, Numbers DEF IInv
<1>9. Named'
  BY <1>1, <1>4, <1>5, NamedKept DEF IInv, Shape
<1>10. ReportedOnce'
  BY <1>1, <1>4, <1>5, ReportedOnceKept DEF IInv
<1>11. Armed'
  <2>1. DOMAIN <<>> = {}
    OBVIOUS
  <2> QED
    BY <1>1, <1>4, <1>5, <2>1, ArmedKept DEF IInv
<1>12. Answered'
  BY <1>1, <1>4, <1>5, AnsweredKept DEF IInv
<1> QED
  BY <1>6, <1>7, <1>8, <1>9, <1>10, <1>11, <1>12 DEF IInv, Shape

LEMMA PlayoutKeeps ==
  ASSUME IInv, Playout  PROVE IInv'
<1>1. PICK s \in spoken, how \in {"full", "cut", "silent"} :
         /\ log' = Append(log, Report(s, how))
         /\ spoken' = StillUnreported(s)
         /\ client.voice
         /\ UNCHANGED <<decider, client, rows, phase, proposal, active, waited, stranded>>
  BY DEF Playout
<1>2. log \in Seq(Row) /\ client \in Clientele /\ s \in Target /\ spoken \subseteq Target
  BY DEF IInv, Shape, Types
<1> DEFINE p == Report(s, how)
           X == <<p>>
<1>3. /\ p \in Row /\ p.type = "AGENT_TURN_PLAYOUT" /\ p.turn = s.turn
      /\ p.segment = IF client.named THEN s.segment ELSE None
      /\ \A u : playoutMatchesSegment(p, u) <=> Concerns(s, u)
  BY <1>2, ReportTyped DEF Row
<1> HIDE DEF p
<1>4. DOMAIN X = {1} /\ X[1] = p /\ X \in Seq(Row)
  BY <1>3, Single
<1>5. Adds(X)
  BY <1>1, <1>2, <1>3, <1>4 DEF Adds, p
<1>6. \A k \in DOMAIN X : X[k] = p
  BY <1>4
<1> HIDE DEF X
<1>7. spoken' \subseteq spoken /\ \A u \in spoken' : ~Concerns(s, u)
  BY <1>1 DEF StillUnreported, Concerns
<1>8. Types' /\ Phases'
  <2>1. log' \in Seq(Row)
    BY <1>2, <1>5, OldRows
  <2>2. phase # "COMPLETED" => Of("record_promise_to_pay")' = {}
    BY <1>2, <1>3, <1>5, <1>6, NothingRecorded DEF IInv, Shape, Phases
  <2> QED
    BY <1>1, <1>7, <2>1, <2>2 DEF IInv, Shape, Types, Phases
<1>9. s.turn \in Taken /\ s.segment \in IdsOf(s.turn) /\ (decider = "scripted" => Replied(s.turn))
  BY DEF IInv, Shape, TurnsSoFar, Named
<1>10. TurnsSoFar'
  <2>1. decider = "scripted" => Replied(s.turn)'
    BY <1>2, <1>5, <1>9, OldReplies
  <2>2. decider = "scripted" => \A k \in DOMAIN X, t \in Turns : X[k].turn = t => Replied(t)'
    BY <1>3, <1>6, <2>1
  <2> QED
    BY <1>1, <1>3, <1>5, <1>6, <1>7, <1>9, <2>2, TurnsKept DEF IInv
<1>11. Named'
  <2>1. \A k \in DOMAIN X :
            IF client.named THEN X[k].segment \in IdsOf(X[k].turn) ELSE X[k].segment = None
    BY <1>3, <1>6, <1>9
  <2> QED
    BY <1>1, <1>2, <1>5, <1>7, <2>1, NamedKept DEF IInv, Shape
<1>12. ReportedOnce'
  <2>1. ASSUME decider = "scripted", NEW i \in Of("AGENT_TURN_PLAYOUT")', NEW u \in spoken'
        PROVE  ~playoutMatchesSegment(log'[i], u)
    <3>1. CASE i \in Of("AGENT_TURN_PLAYOUT")
      <4>1. log'[i] = log[i]
        BY <1>2, <1>5, <3>1, OldRows, Positions
      <4> QED
        BY <1>7, <2>1, <3>1, <4>1 DEF IInv, ReportedOnce
    <3>2. CASE i \notin Of("AGENT_TURN_PLAYOUT")
      <4>1. log'[i] = p
        BY <1>2, <1>5, <1>6, <2>1, <3>2, OldRows
      <4> QED
        BY <1>3, <1>7, <2>1, <4>1
    <3> QED
      BY <3>1, <3>2
  <2> QED
    BY <1>1, <2>1 DEF ReportedOnce, playoutMatchesSegment
<1>13. Armed'
  BY <1>1, <1>2, <1>3, <1>5, <1>6, ArmedKept DEF IInv
<1>14. Recorded'
  <2>1. ASSUME NEW r, LetThrough(r)  PROVE LetThrough(r)'
    <3>1. ~playoutMatchesSegment(p, r)
      BY <1>1, <1>3, <2>1 DEF LetThrough
    <3> QED
      BY <1>1, <1>2, <1>5, <1>6, <1>7, <2>1, <3>1, LetThroughKept
  <2>2. \A k \in DOMAIN X : X[k].type # "record_promise_to_pay"
    BY <1>3, <1>6
  <2> QED
    BY <1>1, <1>2, <1>5, <2>1, <2>2, RecordedKept DEF IInv
<1>15. Answered'
  BY <1>1, <1>2, <1>3, <1>5, <1>6, AnsweredKept DEF IInv
<1> QED
  BY <1>8, <1>10, <1>11, <1>12, <1>13, <1>14, <1>15 DEF IInv, Shape

-----------------------------------------------------------------------------
(* A borrower's turn begins.                                                 *)
Begins(X, m, t) ==
    /\ Adds(X) /\ m \in DOMAIN X /\ X[m] = Event("USER_TURN_FINAL", t)
    /\ \A k \in DOMAIN X : k <= m
    /\ \A k \in DOMAIN X : k # m =>
          /\ X[k].type \in {"TURN_SUPERSEDED", "AGENT_TURN_PLAYOUT"}
          /\ X[k].turn \in Turns /\ X[k].turn \in Taken
    /\ \A k \in DOMAIN X : X[k].type = "AGENT_TURN_PLAYOUT" =>
          /\ IF client.named THEN X[k].segment \in IdsOf(X[k].turn) ELSE X[k].segment = None
          /\ \A u \in spoken' : ~playoutMatchesSegment(X[k], u)
          /\ decider = "scripted" => Replied(X[k].turn)
    /\ active # None => \E k \in DOMAIN X : X[k] = Event("TURN_SUPERSEDED", active)
    /\ \A u \in spoken' : u \in spoken \/
          (active # None /\ decider = "openai" /\ u = [turn |-> active, segment |-> active])

LEMMA T1Begins ==
  ASSUME Shape, NEW t \in Turns, T1(t)
  PROVE  \E X, m : Begins(X, m, t)
<1> DEFINE U == Event("USER_TURN_FINAL", t)
           S == Event("TURN_SUPERSEDED", active)
<1>1. log \in Seq(Row) /\ client \in Clientele /\ active \in Turns \cup {None} /\ spoken \subseteq Target
  BY DEF Shape, Types
<1>2. U \in Row /\ U.type = "USER_TURN_FINAL" /\ (active # None => S \in Row)
  BY <1>1, EventTyped DEF OtherTypes
<1>3. PICK s \in {None} \cup spoken, how \in {"full", "cut", "silent"}, left \in LeftSpoken :
        /\ s # None => ~client.voice
        /\ log' = log \o (IF active = None THEN <<>> ELSE <<S>>)
                      \o (IF s = None THEN <<>> ELSE <<Report(s, how)>>) \o <<U>>
        /\ spoken' = (IF s = None THEN spoken ELSE StillUnreported(s)) \cup left
  BY DEF T1
<1>4. active # None => s = None
  BY <1>3 DEF T1
<1>d. /\ active = None => left = {}
      /\ \A u \in left : decider = "openai" /\ u = [turn |-> active, segment |-> active]
  BY DEF LeftSpoken, Implicit
<1> HIDE DEF U
<1>5. CASE active = None /\ s = None
  <2>1. log' = log \o <<U>> /\ spoken' = spoken
    BY <1>1, <1>3, <1>5, <1>d, NoStep
  <2>2. DOMAIN <<U>> = {1} /\ <<U>>[1] = U /\ <<U>> \in Seq(Row)
    BY <1>2, Single
  <2>3. Begins(<<U>>, 1, t)
    BY <1>2, <1>5, <2>1, <2>2 DEF Begins, Adds, U
  <2> QED
    BY <2>3
<1>6. CASE active # None
  <2>1. log' = log \o <<S, U>>
    <3>1. log' = log \o <<S>> \o <<>> \o <<U>>
      BY <1>3, <1>4, <1>6
    <3>2. log \o <<S>> \in Seq(Row) /\ S \in Row
      BY <1>1, <1>2, <1>6
    <3>3. log \o <<S>> \o <<>> = log \o <<S>>
      BY <3>2, NoStep
    <3> QED
      BY <1>1, <1>2, <3>1, <3>2, <3>3, TwoSteps
  <2>2. DOMAIN <<S, U>> = {1, 2} /\ <<S, U>>[1] = S /\ <<S, U>>[2] = U /\ <<S, U>> \in Seq(Row)
    BY <1>2, <1>6, Pair
  <2>3. S.type = "TURN_SUPERSEDED" /\ S.turn = active /\ active \in Turns /\ active \in Taken
    BY <1>1, <1>6 DEF Event, Shape, TurnsSoFar
  <2>4. \A u \in spoken' : u \in spoken \/
            (active # None /\ decider = "openai" /\ u = [turn |-> active, segment |-> active])
    BY <1>3, <1>4, <1>6, <1>d
  <2>5. Begins(<<S, U>>, 2, t)
    <3> HIDE DEF S
    <3>1. \A k \in DOMAIN <<S, U>> : k <= 2 /\ (k # 2 => <<S, U>>[k] = S)
      BY <2>2
    <3>2. \A k \in DOMAIN <<S, U>> : <<S, U>>[k].type # "AGENT_TURN_PLAYOUT"
      BY <1>2, <2>2, <2>3
    <3>3. Adds(<<S, U>>)
      BY <2>1, <2>2 DEF Adds
    <3> QED
      BY <2>2, <2>3, <2>4, <3>1, <3>2, <3>3 DEF Begins, S, U
  <2> QED
    BY <2>5
<1>7. CASE active = None /\ s # None
  <2> DEFINE P == Report(s, how)
  <2>1. s \in spoken /\ s \in Target
    BY <1>1, <1>7
  <2>2. /\ P \in Row /\ P.type = "AGENT_TURN_PLAYOUT" /\ P.turn = s.turn
        /\ P.segment = IF client.named THEN s.segment ELSE None
        /\ \A u : playoutMatchesSegment(P, u) <=> Concerns(s, u)
    BY <1>1, <2>1, ReportTyped DEF Row
  <2> HIDE DEF P
  <2>3. log' = log \o <<P, U>> /\ spoken' = StillUnreported(s)
    <3>1. log' = log \o <<>> \o <<P>> \o <<U>>
      BY <1>3, <1>7 DEF P
    <3> QED
      <4>1. log' = log \o <<P>> \o <<U>>
        BY <1>1, <3>1, NoStep
      <4>2. log' = log \o <<P, U>>
        BY <1>1, <1>2, <2>2, <4>1, TwoSteps
      <4>3. spoken' = StillUnreported(s)
        BY <1>3, <1>7, <1>d
      <4> QED
        BY <4>2, <4>3
  <2>4. DOMAIN <<P, U>> = {1, 2} /\ <<P, U>>[1] = P /\ <<P, U>>[2] = U /\ <<P, U>> \in Seq(Row)
    BY <1>2, <2>2, Pair
  <2>5. /\ P.turn \in Turns /\ P.turn \in Taken /\ s.segment \in IdsOf(P.turn)
        /\ decider = "scripted" => Replied(P.turn)
    BY <2>1, <2>2 DEF Shape, TurnsSoFar, Target, Named
  <2>6. \A u \in spoken' : u \in spoken /\ ~playoutMatchesSegment(P, u)
    BY <2>2, <2>3 DEF StillUnreported, Concerns
  <2>7. \A k \in DOMAIN <<P, U>> : k <= 2 /\ (k # 2 => <<P, U>>[k] = P)
    BY <2>4
  <2>8. \A k \in DOMAIN <<P, U>> : <<P, U>>[k].type = "AGENT_TURN_PLAYOUT" => <<P, U>>[k] = P
    BY <1>2, <2>4
  <2>9. Adds(<<P, U>>)
    BY <2>3, <2>4 DEF Adds
  <2>10. Begins(<<P, U>>, 2, t)
    BY <1>7, <2>2, <2>4, <2>5, <2>6, <2>7, <2>8, <2>9 DEF Begins, U
  <2> QED
    BY <2>10
<1> QED
  BY <1>4, <1>5, <1>6, <1>7

(* What a scripted turn in progress says nobody has reported yet.            *)
LEMMA FreshUnreported ==
  ASSUME Shape, decider = "scripted", active # None, NEW i \in Of("AGENT_TURN_PLAYOUT"),
         NEW u, u.turn = active, u.segment \in IdsOf(active)
  PROVE  ~playoutMatchesSegment(log[i], u)
<1>1. log[i].turn \in Turns /\ active \in Turns /\ log[i].turn # active
  BY RowsTyped DEF Shape, Types, TurnsSoFar, PlayoutRow
<1>2. IdsOf(log[i].turn) \cap IdsOf(active) = {}
  BY <1>1, Numbers
<1>3. log[i].segment \in IdsOf(log[i].turn) \/ log[i].segment = None
  BY DEF Shape, Named
<1> QED
  BY <1>1, <1>2, <1>3 DEF playoutMatchesSegment

(* A turn that begins, or begins again, has not replied.                     *)
LEMMA NotReplied ==
  ASSUME Shape, NEW t \in Turns, T1(t)
  PROVE  ~Replied(t)
<1>1. IsNext(t) \/ SentAgain(t)
  BY DEF T1
<1>2. CASE IsNext(t)
  <2>1. t \notin Taken
    BY <1>2 DEF IsNext
  <2>2. \A i \in Of("AGENT_TURN") : i \in DOMAIN log
    BY DEF Of
  <2> QED
    BY <2>1, <2>2 DEF Replied, Shape, TurnsSoFar
<1>3. CASE SentAgain(t)
  BY <1>3 DEF SentAgain, Replied
<1> QED
  BY <1>1, <1>2, <1>3

LEMMA T1Keeps ==
  ASSUME IInv, NEW t \in Turns, T1(t)  PROVE IInv'
<1>1. PICK X, m : Begins(X, m, t)
  BY T1Begins DEF IInv
<1>2. /\ log \in Seq(Row) /\ active \in Turns \cup {None} /\ spoken \subseteq Target
      /\ t \in Turns
  BY DEF IInv, Shape, Types
<1>3. /\ phase # "COMPLETED" /\ active' = t
      /\ UNCHANGED <<decider, client, rows, phase, proposal, waited, stranded>>
  BY DEF T1
<1>4. Adds(X) /\ m \in DOMAIN X /\ X[m] = Event("USER_TURN_FINAL", t)
      /\ X[m].type = "USER_TURN_FINAL" /\ X[m].turn = t
  BY <1>1, EventTyped DEF Begins, OtherTypes
<1>5. \A k \in DOMAIN X : k # m =>
          X[k].type \in {"TURN_SUPERSEDED", "AGENT_TURN_PLAYOUT"}
  BY <1>1 DEF Begins
<1>6. \A u \in spoken' : u \in spoken \/
         (/\ active # None /\ decider = "openai"
          /\ u \in Target /\ u.turn = active /\ u.segment \in IdsOf(active))
  <2> SUFFICES ASSUME NEW u \in spoken', u \notin spoken
               PROVE  /\ active # None /\ decider = "openai"
                      /\ u \in Target /\ u.turn = active /\ u.segment \in IdsOf(active)
    OBVIOUS
  <2>1. active # None /\ decider = "openai" /\ u = [turn |-> active, segment |-> active]
    BY <1>1 DEF Begins
  <2>2. active \in Turns /\ active \in IdsOf(active) /\ active \in SegmentIds
    BY <1>2, <2>1, Numbers DEF IdsOf, Implicit
  <2> QED
    BY <2>1, <2>2 DEF Target
<1>7. \A k \in DOMAIN X : X[k].type # "record_promise_to_pay" /\ X[k].type # "AGENT_TURN"
         /\ X[k].type \notin {"propose_promise_to_pay", "TOOL_REJECTED"}
  BY <1>4, <1>5
<1>8. Recorded' /\ Of("record_promise_to_pay")' = {}
  BY <1>2, <1>3, <1>4, <1>7, NothingRecorded DEF IInv, Shape, Phases
<1>9. Types' /\ Phases'
  <2>1. log' \in Seq(Row)
    BY <1>2, <1>4, OldRows
  <2>2. spoken' \subseteq Target
    BY <1>2, <1>6
  <2> QED
    BY <1>2, <1>3, <1>8, <2>1, <2>2 DEF IInv, Shape, Types, Phases
<1> DEFINE n == Len(log) + m
<1>10. /\ n \in Of("USER_TURN_FINAL")' /\ log'[n].turn = t
       /\ n \in Nat /\ n \notin DOMAIN log /\ \A i \in DOMAIN log : i < n
  <2>1. Len(log) \in Nat /\ m \in Nat /\ 1 <= m /\ n \in DOMAIN log' /\ log'[n] = X[m]
    BY <1>2, <1>4, OldRows
  <2>2. \A i \in DOMAIN log : i \in Nat /\ i <= Len(log)
    BY <1>2, <1>4, OldRows
  <2>3. \A i \in DOMAIN log : i < n
    BY <2>1, <2>2
  <2>4. n \notin DOMAIN log
    BY <2>1, <2>3
  <2> QED
    BY <1>4, <2>1, <2>3, <2>4 DEF Of
<1> HIDE DEF n
<1>11. ASSUME NEW i \in Of("USER_TURN_FINAL")', i \notin Of("USER_TURN_FINAL")  PROVE i = n
  <2>1. PICK k \in DOMAIN X : i = Len(log) + k /\ X[k].type = "USER_TURN_FINAL"
    BY <1>2, <1>4, <1>11, OldRows
  <2>2. k = m
    BY <1>5, <2>1
  <2> QED
    BY <2>1, <2>2 DEF n
<1>12. Of("USER_TURN_FINAL")' = Of("USER_TURN_FINAL") \cup {n}
  <2>1. Of("USER_TURN_FINAL") \subseteq Of("USER_TURN_FINAL")'
    BY <1>2, <1>4, OldRows
  <2> QED
    BY <1>10, <1>11, <2>1
<1>13. Taken' = Taken \cup {t}
  <2>1. \A i \in Of("USER_TURN_FINAL") : log'[i] = log[i]
    BY <1>2, <1>4, OldRows, Positions
  <2> QED
    BY <1>10, <1>12, <2>1 DEF Taken
<1>14. \A v : Replied(v)' <=> Replied(v)
  BY <1>2, <1>4, <1>7, OldReplies
<1>15. \A k \in DOMAIN X : X[k].turn \in Taken \cup {t}
  BY <1>1, <1>4 DEF Begins
<1>16. TurnsSoFar'
  <2>1. ASSUME NEW i \in DOMAIN log', log'[i].turn \in Turns  PROVE log'[i].turn \in Taken'
    <3>1. CASE i \in DOMAIN log
      <4>1. log'[i] = log[i]
        BY <1>2, <1>4, <3>1, OldRows
      <4> QED
        BY <1>13, <2>1, <3>1, <4>1 DEF IInv, Shape, TurnsSoFar
    <3>2. CASE i \notin DOMAIN log
      <4>1. \E k \in DOMAIN X : log'[i] = X[k]
        BY <1>2, <1>4, <2>1, <3>2, Grown DEF Adds
      <4> QED
        BY <1>13, <1>15, <4>1
    <3> QED
      BY <3>1, <3>2
  <2>2. \A u \in spoken' : u.turn \in Taken'
    BY <1>6, <1>13 DEF IInv, Shape, TurnsSoFar
  <2>3. ASSUME decider = "scripted", NEW u \in spoken'  PROVE Replied(u.turn)'
    <3>1. u \in spoken
      BY <1>6, <2>3
    <3> QED
      BY <1>14, <2>3, <3>1 DEF IInv, Shape, TurnsSoFar
  <2>4. ASSUME decider = "scripted", NEW i \in Of("AGENT_TURN_PLAYOUT")'
        PROVE  Replied(log[i].turn)'
    <3>1. PICK v : v = log'[i].turn
      OBVIOUS
    <3>2. Replied(v)
      <4>1. CASE i \in Of("AGENT_TURN_PLAYOUT")
        <5>1. log'[i] = log[i]
          BY <1>2, <1>4, <4>1, OldRows, Positions
        <5> QED
          BY <2>4, <3>1, <4>1, <5>1 DEF IInv, Shape, TurnsSoFar
      <4>2. CASE i \notin Of("AGENT_TURN_PLAYOUT")
        <5>1. PICK k \in DOMAIN X : log'[i] = X[k] /\ X[k].type = "AGENT_TURN_PLAYOUT"
          BY <1>2, <1>4, <2>4, <4>2, OldRows
        <5>2. Replied(X[k].turn)
          BY <1>1, <2>4, <5>1 DEF Begins
        <5> QED
          BY <3>1, <5>1, <5>2
      <4> QED
        BY <4>1, <4>2
    <3>3. Replied(v)'
      BY <1>14, <3>2
    <3> QED
      BY <3>1, <3>3 DEF Replied
  <2>5. ~Replied(active)'
    <3>1. ~Replied(t)
      BY NotReplied DEF IInv
    <3>2. ~Replied(t)'
      BY <1>14, <3>1
    <3> QED
      BY <1>3, <3>2 DEF Replied
  <2> QED
    BY <1>3, <1>13, <2>1, <2>2, <2>3, <2>4, <2>5 DEF TurnsSoFar
<1>17. Named'
  <2>1. \A u \in spoken' : u \in spoken \/ u.segment \in IdsOf(u.turn)
    BY <1>6
  <2>2. \A k \in DOMAIN X : X[k].type = "AGENT_TURN_PLAYOUT" =>
            IF client.named THEN X[k].segment \in IdsOf(X[k].turn) ELSE X[k].segment = None
    BY <1>1 DEF Begins
  <2> QED
    BY <1>2, <1>3, <1>4, <2>1, <2>2, NamedKept DEF IInv, Shape
<1>18. ReportedOnce'
  <2>1. ASSUME decider = "scripted", NEW i \in Of("AGENT_TURN_PLAYOUT")', NEW u \in spoken'
        PROVE  ~playoutMatchesSegment(log'[i], u)
    <3>1. CASE i \in Of("AGENT_TURN_PLAYOUT")
      <4>1. log'[i] = log[i]
        BY <1>2, <1>4, <3>1, OldRows, Positions
      <4>2. u \in spoken
        BY <1>6, <2>1
      <4> QED
        BY <2>1, <3>1, <4>1, <4>2 DEF IInv, ReportedOnce
    <3>2. CASE i \notin Of("AGENT_TURN_PLAYOUT")
      <4>1. \E k \in DOMAIN X : log'[i] = X[k] /\ X[k].type = "AGENT_TURN_PLAYOUT"
        BY <1>2, <1>4, <2>1, <3>2, OldRows
      <4> QED
        BY <1>1, <4>1 DEF Begins
    <3> QED
      BY <3>1, <3>2
  <2> QED
    BY <1>3, <2>1 DEF ReportedOnce, playoutMatchesSegment
<1>19. Armed'
  BY <1>2, <1>3, <1>4, <1>7, ArmedKept DEF IInv
<1>20. Answered'
  <2>1. ASSUME NEW i \in Of("USER_TURN_FINAL")
        PROVE  /\ log'[i].turn = log[i].turn
               /\ Settled(log[i].turn)' \/ \E k \in Of("AGENT_TURN") : i < k
    <3>1. i \in DOMAIN log /\ log'[i] = log[i]
      BY <1>2, <1>4, OldRows, Positions
    <3>2. CASE Settled(log[i].turn)
      <4>1. PICK v : v = log[i].turn
        OBVIOUS
      <4>2. Settled(v)'
        BY <1>2, <1>3, <1>4, <3>2, <4>1, OldSettled
      <4> QED
        BY <3>1, <4>1, <4>2 DEF Settled, WasSuperseded
    <3>3. CASE log[i].turn = active
      <4>1. active # None
        BY <1>2, <3>1, <3>3, RowsTyped, Numbers DEF OtherRow
      <4>2. PICK k \in DOMAIN X : X[k] = Event("TURN_SUPERSEDED", active)
        BY <1>1, <4>1 DEF Begins
      <4>3. Len(log) + k \in DOMAIN log' /\ log'[Len(log) + k].type = "TURN_SUPERSEDED"
            /\ log'[Len(log) + k].turn = active
        BY <1>2, <1>4, <4>2, OldRows DEF Event
      <4>4. \E l \in Of("TURN_SUPERSEDED")' : log'[l].turn = log'[i].turn
        BY <3>1, <3>3, <4>3 DEF Of
      <4> QED
        BY <3>1, <4>4 DEF Settled, WasSuperseded
    <3> QED
      BY <3>1, <3>2, <3>3 DEF IInv, Answered
  <2>2. Of("AGENT_TURN") \subseteq Of("AGENT_TURN")' /\ Of("AGENT_TURN") \subseteq DOMAIN log
    BY <1>2, <1>4, OldRows, Positions
  <2>3. \A i \in Of("USER_TURN_FINAL")' :
          \/ log'[i].turn = active' \/ Settled(log[i].turn)'
          \/ \E k \in Of("AGENT_TURN")' : i < k
    BY <1>3, <1>10, <1>12, <2>1, <2>2
  <2>4. ASSUME NEW i \in Of("USER_TURN_FINAL")', NEW j \in Of("USER_TURN_FINAL")', i < j
        PROVE  Settled(log[i].turn)' \/ \E k \in Of("AGENT_TURN")' : i < k /\ k < j
    <3>1. i \in Of("USER_TURN_FINAL")
      <4>1. i # n
        <5>1. j \in Of("USER_TURN_FINAL") => j < n /\ j \in Nat
          BY <1>2, <1>10, Positions
        <5>2. n \in Nat
          BY <1>10
        <5> QED
          BY <1>12, <2>4, <5>1, <5>2
      <4> QED
        BY <1>12, <4>1
    <3>2. CASE j = n
      <4>1. \A k \in Of("AGENT_TURN") : k < n
        BY <1>10, <2>2
      <4> QED
        BY <2>1, <2>2, <3>1, <3>2, <4>1
    <3>3. CASE j \in Of("USER_TURN_FINAL")
      <4>1. Settled(log[i].turn) \/ \E k \in Of("AGENT_TURN") : i < k /\ k < j
        BY <2>4, <3>1, <3>3 DEF IInv, Answered
      <4>2. ASSUME Settled(log[i].turn)  PROVE Settled(log[i].turn)'
        <5>1. PICK v : v = log[i].turn
          OBVIOUS
        <5>2. Settled(v)'
          BY <1>2, <1>3, <1>4, <4>2, <5>1, OldSettled
        <5>3. v = log'[i].turn
          BY <2>1, <3>1, <5>1
        <5> QED
          BY <5>2, <5>3 DEF Settled, WasSuperseded
      <4> QED
        BY <2>2, <4>1, <4>2
    <3> QED
      BY <1>12, <3>2, <3>3
  <2> QED
    BY <2>3, <2>4 DEF Answered
<1> QED
  BY <1>8, <1>9, <1>16, <1>17, <1>18, <1>19, <1>20 DEF IInv, Shape

-----------------------------------------------------------------------------
(* A turn is committed: it speaks.                                           *)
ToolRows == {"propose_promise_to_pay", "record_promise_to_pay", "TOOL_REJECTED"}
SoftRow(e) ==
    /\ e.mode = "interruptible"
    /\ \A k \in DOMAIN e.segments : e.segments[k].mode = "interruptible"
FirmRow(e, t) ==
    /\ e.mode = "non_interruptible"
    /\ \/ rows = "old" /\ e.segments = <<>>
       \/ rows = "new" /\ e.segments = <<Segment(Minted(t), "non_interruptible")>>
       \/ rows = "new" /\ e.segments = <<Segment(t, "interruptible"),
                                         Segment(Minted(t), "non_interruptible")>>
Speaks(X, A) ==
    /\ Adds(X) /\ active # None /\ active' = None
    /\ UNCHANGED <<decider, client, rows, waited, stranded>>
    /\ A \in AgentRow /\ A.turn = active
    /\ \E k \in DOMAIN X : X[k] = A
    /\ \A k \in DOMAIN X : X[k].turn = active
    /\ \A k \in DOMAIN X : X[k] = A \/ X[k].type \in ToolRows
    /\ spoken \subseteq spoken'
    /\ \A u \in spoken' \ spoken :
          u \in Target /\ u.turn = active /\ u.segment \in IdsOf(active)

LEMMA SetsOf ==
  ASSUME NEW x, NEW y
  PROVE  ToSet(<<>>) = {} /\ ToSet(<<x>>) = {x} /\ ToSet(<<x, y>>) = {x, y}
BY DEF ToSet

LEMMA CommitSpeaks ==
  ASSUME Shape, NEW tool, NEW streamed \in BOOLEAN, NEW mode \in Modes, NEW says,
         Commit(tool, streamed, says),
         says = Say(mode) \/ (says = <<>> /\ streamed /\ mode = "interruptible"),
         tool = <<>> \/ \E type \in ToolRows : tool = <<Event(type, active)>>
  PROVE  \E X, A :
           /\ Speaks(X, A)
           /\ mode = "interruptible" => SoftRow(A)
           /\ mode = "non_interruptible" => FirmRow(A, active)
           /\ tool = <<>> => X = <<A>>
           /\ \A x : tool = <<x>> => x \in Row /\ X = <<x, A>>
<1> DEFINE T == active
           S == Segment(Implicit(active), "interruptible")
           F == Segment(Minted(active), mode)
           segments == (IF streamed THEN <<S>> ELSE <<>>) \o says
           m == IF \E s \in ToSet(says) : s.mode = "non_interruptible"
                THEN "non_interruptible" ELSE "interruptible"
           told == IF rows = "new" THEN segments ELSE <<>>
           A == AgentTurn(active, m, told)
           N == IF rows = "new" THEN {[turn |-> active, segment |-> s.id] : s \in ToSet(segments)}
                ELSE {[turn |-> active, segment |-> active]}
           SegmentType == [id : SegmentIds, mode : Modes]
<1>1. /\ log \in Seq(Row) /\ spoken \subseteq Target /\ active \in Turns \cup {None}
      /\ rows \in {"old", "new"}
  BY DEF Shape, Types
<1>2. /\ active # None /\ active' = None /\ log' = log \o tool \o <<A>> /\ spoken' = spoken \cup N
      /\ UNCHANGED <<decider, client, rows, waited, stranded>>
  BY DEF Commit
<1>3. active \in Turns /\ IdsOf(active) \subseteq SegmentIds
  BY <1>1, <1>2, Numbers
<1>4. /\ S \in SegmentType /\ F \in SegmentType /\ S.id \in IdsOf(active) /\ F.id \in IdsOf(active)
      /\ S.mode = "interruptible" /\ F.mode = mode /\ S = Segment(active, "interruptible")
  BY <1>3 DEF Segment, IdsOf, Modes, Implicit
<1> HIDE DEF S, F, SegmentType
<1>5. \/ segments = <<S>> /\ says = <<>> /\ mode = "interruptible"
      \/ segments = <<F>> /\ says = <<F>>
      \/ segments = <<S, F>> /\ says = <<F>>
  <2>1. CASE says = <<>> /\ streamed /\ mode = "interruptible"
    BY <1>4, <2>1, PairConcat
  <2>2. CASE says = <<F>>
    <3>1. CASE streamed
      <4>1. segments = <<S>> \o <<F>>
        BY <2>2, <3>1
      <4>2. <<S>> \o <<F>> = <<S, F>>
        BY <1>4, PairConcat
      <4> QED
        BY <2>2, <4>1, <4>2
    <3>2. CASE ~streamed
      <4>1. segments = <<>> \o <<F>>
        BY <2>2, <3>2
      <4>2. <<>> \o <<F>> = <<F>>
        BY <1>4, PairConcat
      <4> QED
        BY <2>2, <4>1, <4>2
    <3> QED
      BY <3>1, <3>2
  <2> QED
    BY <2>1, <2>2 DEF Say, F
<1>6. m = mode
  <2>1. CASE says = <<>> /\ mode = "interruptible"
    <3>1. ToSet(says) = {}
      BY <2>1, SetsOf
    <3> QED
      BY <2>1, <3>1
  <2>2. CASE says = <<F>>
    <3>1. ToSet(says) = {F}
      BY <2>2, SetsOf
    <3>2. (\E s \in ToSet(says) : s.mode = "non_interruptible") <=> mode = "non_interruptible"
      BY <1>4, <3>1
    <3> QED
      BY <3>2 DEF Modes
  <2> QED
    BY <1>5, <2>1, <2>2
<1>7. /\ segments \in Seq(SegmentType) /\ \A s \in ToSet(segments) : s.id \in IdsOf(active)
      /\ \A k \in DOMAIN segments : segments[k] = S \/ segments[k] = F
  <2> HIDE DEF segments
  <2>1. CASE segments = <<S>>
    <3>1. ToSet(segments) = {S} /\ segments \in Seq(SegmentType)
      BY <1>4, <2>1, PairConcat, SetsOf
    <3>2. \A k \in DOMAIN segments : segments[k] = S
      BY <2>1
    <3> QED
      BY <1>4, <3>1, <3>2
  <2>2. CASE segments = <<F>>
    <3>1. ToSet(segments) = {F} /\ segments \in Seq(SegmentType)
      BY <1>4, <2>2, PairConcat, SetsOf
    <3>2. \A k \in DOMAIN segments : segments[k] = F
      BY <2>2
    <3> QED
      BY <1>4, <3>1, <3>2
  <2>3. CASE segments = <<S, F>>
    <3>1. ToSet(segments) = {S, F} /\ segments \in Seq(SegmentType)
      BY <1>4, <2>3, PairConcat, SetsOf
    <3>2. \A k \in DOMAIN segments : segments[k] = S \/ segments[k] = F
      <4>1. DOMAIN <<S, F>> = 1..2
        OBVIOUS
      <4>2. \A k \in 1..2 : k = 1 \/ k = 2
        OBVIOUS
      <4> QED
        BY <2>3, <4>1, <4>2
    <3> QED
      BY <1>4, <3>1, <3>2
  <2> QED
    BY <1>5, <2>1, <2>2, <2>3
<1>8. told \in Seq(SegmentType) /\ (told = segments \/ told = <<>>)
  BY <1>7
<1> HIDE DEF segments
<1>9. A \in AgentRow /\ A.turn = active /\ A.mode = mode /\ A.segments = told /\ A \in Row
  BY <1>3, <1>6, <1>8, AgentRowTyped DEF AgentTurn, Row, SegmentType
<1>10. mode = "interruptible" => SoftRow(A)
  <2>1. ASSUME mode = "interruptible", NEW k \in DOMAIN told  PROVE told[k].mode = "interruptible"
    <3>1. told = segments
      BY <1>8, <2>1
    <3> QED
      BY <1>4, <1>7, <2>1, <3>1
  <2> QED
    BY <1>9, <2>1 DEF SoftRow
<1>11. mode = "non_interruptible" => FirmRow(A, active)
  BY <1>1, <1>4, <1>5, <1>9 DEF FirmRow, F
<1>12. \A u \in N : u \in Target /\ u.turn = active /\ u.segment \in IdsOf(active)
  BY <1>3, <1>7 DEF Target, IdsOf, Implicit
<1> HIDE DEF A, N
<1>13. \A u \in spoken' \ spoken : u \in Target /\ u.turn = active /\ u.segment \in IdsOf(active)
  BY <1>2, <1>12
<1>14. CASE tool = <<>>
  <2>1. log' = log \o <<A>> /\ <<A>> \in Seq(Row) /\ DOMAIN <<A>> = {1} /\ <<A>>[1] = A
    BY <1>1, <1>2, <1>9, <1>14, NoStep, Single
  <2>2. Speaks(<<A>>, A)
    BY <1>2, <1>9, <1>13, <2>1 DEF Speaks, Adds
  <2>3. \A x : tool # <<x>>
    BY <1>14
  <2> QED
    BY <1>10, <1>11, <1>14, <2>2, <2>3
<1>15. ASSUME NEW type \in ToolRows, tool = <<Event(type, active)>>
       PROVE  \E X, B :
           /\ Speaks(X, B)
           /\ mode = "interruptible" => SoftRow(B)
           /\ mode = "non_interruptible" => FirmRow(B, active)
           /\ tool = <<>> => X = <<B>>
           /\ \A x : tool = <<x>> => x \in Row /\ X = <<x, B>>
  <2> DEFINE E == Event(type, active)
             X == <<E, A>>
  <2>1. E \in Row /\ E.type = type /\ E.turn = active
    BY <1>3, EventTyped DEF ToolRows, OtherTypes
  <2>2. log' = log \o <<E>> \o <<A>>
    BY <1>2, <1>15
  <2> HIDE DEF E
  <2>3. log' = log \o X
    BY <1>1, <1>9, <2>1, <2>2, TwoSteps
  <2>4. X \in Seq(Row) /\ DOMAIN X = {1, 2} /\ X[1] = E /\ X[2] = A
    BY <1>9, <2>1, Pair
  <2> HIDE DEF X
  <2>5. Speaks(X, A)
    BY <1>2, <1>9, <1>13, <2>1, <2>3, <2>4 DEF Speaks, Adds
  <2>6. tool # <<>>
    BY <1>15
  <2>7. ASSUME NEW x, tool = <<x>>  PROVE x \in Row /\ X = <<x, A>>
    <3>1. x = E
      BY <1>15, <2>7 DEF E
    <3> QED
      BY <2>1, <3>1 DEF X
  <2> QED
    BY <1>10, <1>11, <2>5, <2>6, <2>7
<1> QED
  BY <1>14, <1>15

LEMMA SpeaksKeeps ==
  ASSUME IInv, NEW X, NEW A, Speaks(X, A)
  PROVE  /\ log \in Seq(Row) /\ Adds(X) /\ phase # "COMPLETED" /\ Of("record_promise_to_pay") = {}
         /\ log' \in Seq(Row) /\ spoken' \subseteq Target
         /\ TurnsSoFar' /\ Named' /\ ReportedOnce' /\ Answered'
<1>1. /\ log \in Seq(Row) /\ active \in Turns \cup {None} /\ spoken \subseteq Target
      /\ phase # "COMPLETED" /\ Of("record_promise_to_pay") = {}
      /\ Adds(X) /\ active # None /\ active' = None /\ UNCHANGED <<decider, client, rows, waited, stranded>>
  BY DEF IInv, Shape, Types, Phases, Speaks
<1>2. \A u \in spoken' \ spoken : u \in Target /\ u.turn = active /\ u.segment \in IdsOf(active)
  BY DEF Speaks
<1>3. A.type = "AGENT_TURN" /\ \E k \in DOMAIN X : X[k].type = "AGENT_TURN"
  BY DEF Speaks, AgentRow
<1>4. \A k \in DOMAIN X : /\ X[k].type # "USER_TURN_FINAL" /\ X[k].type # "AGENT_TURN_PLAYOUT"
                          /\ X[k].turn = active
  BY <1>3 DEF Speaks, ToolRows
<1>5. active \in Taken
  BY <1>1 DEF IInv, Shape, TurnsSoFar
<1>6. TurnsSoFar'
  <2>1. PICK k \in DOMAIN X : X[k].type = "AGENT_TURN" /\ X[k].turn = active
    BY <1>3, <1>4
  <2>2. Len(log) + k \in Of("AGENT_TURN")' /\ log'[Len(log) + k].turn = active
    BY <1>1, <2>1, OldRows DEF Of
  <2>3. \A u \in spoken' \ spoken : Replied(u.turn)'
    BY <1>2, <2>2 DEF Replied
  <2> QED
    BY <1>1, <1>2, <1>4, <1>5, <2>3, TurnsKept DEF IInv
<1>7. Named'
  <2>1. \A u \in spoken' : u \in spoken \/ u.segment \in IdsOf(u.turn)
    BY <1>2
  <2> QED
    BY <1>1, <1>4, <2>1, NamedKept DEF IInv, Shape
<1>8. ReportedOnce'
  <2>1. ASSUME decider = "scripted", NEW i \in Of("AGENT_TURN_PLAYOUT")', NEW u \in spoken'
        PROVE  ~playoutMatchesSegment(log'[i], u)
    <3>1. i \in Of("AGENT_TURN_PLAYOUT") /\ log'[i] = log[i]
      BY <1>1, <1>4, <2>1, OldRows, Positions
    <3>2. CASE u \in spoken
      BY <2>1, <3>1, <3>2 DEF IInv, ReportedOnce
    <3>3. CASE u \notin spoken
      BY <1>1, <1>2, <2>1, <3>1, <3>3, FreshUnreported DEF IInv
    <3> QED
      BY <3>2, <3>3
  <2> QED
    BY <1>1, <2>1 DEF ReportedOnce, playoutMatchesSegment
<1>9. Answered'
  BY <1>1, <1>3, <1>4, AnsweredKept DEF IInv
<1>10. log' \in Seq(Row) /\ spoken' \subseteq Target
  BY <1>1, <1>2, OldRows
<1> QED
  BY <1>1, <1>6, <1>7, <1>8, <1>9, <1>10

(* A reply that must not be heard in full leaves the armed reading the last. *)
LEMMA SoftSaid ==
  ASSUME IInv, NEW X, NEW A, Speaks(X, A), SoftRow(A),
         \/ X = <<A>>
         \/ decider = "openai"
            /\ \A k \in DOMAIN X : X[k] = A \/ X[k].type = "TOOL_REJECTED",
         \/ UNCHANGED <<phase, proposal>>
         \/ phase' = "DISCUSSING_PAYMENT" /\ proposal' = None
  PROVE  IInv'
<1>1. /\ log \in Seq(Row) /\ Adds(X) /\ phase # "COMPLETED" /\ Of("record_promise_to_pay") = {}
      /\ log' \in Seq(Row) /\ spoken' \subseteq Target
      /\ TurnsSoFar' /\ Named' /\ ReportedOnce' /\ Answered'
  BY SpeaksKeeps
<1>2. active' = None /\ UNCHANGED <<decider, client, rows, waited, stranded>> /\ A.type = "AGENT_TURN"
  BY DEF Speaks, AgentRow
<1>3. /\ \A k \in DOMAIN X : X[k] = A \/ X[k].type = "TOOL_REJECTED"
      /\ decider = "scripted" => \A k \in DOMAIN X : X[k] = A
  <2>1. DOMAIN <<A>> = {1} /\ <<A>>[1] = A
    OBVIOUS
  <2> QED
    BY <2>1
<1>4. Recorded' /\ Of("record_promise_to_pay")' = {}
  BY <1>1, <1>2, <1>3, NothingRecorded
<1>5. Types' /\ Phases'
  BY <1>1, <1>2, <1>4 DEF IInv, Shape, Types, Phases
<1>6. Armed'
  <2>1. CASE UNCHANGED proposal
    BY <1>1, <1>2, <1>3, <2>1, ArmedKept DEF IInv, SoftRow
  <2>2. CASE proposal' = None
    BY <2>2 DEF Armed
  <2> QED
    BY <2>1, <2>2
<1> QED
  BY <1>1, <1>4, <1>5, <1>6 DEF IInv, Shape

LEMMA ReplyKeeps ==
  ASSUME IInv, Reply  PROVE IInv'
<1>1. Shape
  BY DEF IInv
<1>2. UNCHANGED <<phase, proposal>>
  BY DEF Reply
<1>3. "interruptible" \in Modes
  BY DEF Modes
<1>4. ASSUME NEW streamed \in BOOLEAN, NEW says, Commit(<<>>, streamed, says),
             says = Say("interruptible") \/ (says = <<>> /\ streamed)
      PROVE  IInv'
  <2>1. PICK X, A : Speaks(X, A) /\ SoftRow(A) /\ X = <<A>>
    BY <1>1, <1>3, <1>4, CommitSpeaks
  <2> QED
    BY <1>2, <2>1, SoftSaid
<1>5. \/ Commit(<<>>, TRUE, <<>>)
      \/ Commit(<<>>, FALSE, Say("interruptible"))
  BY DEF Reply
<1> QED
  BY <1>4, <1>5

LEMMA DeclineKeeps ==
  ASSUME IInv, Decline  PROVE IInv'
<1>1. Commit(<<>>, TRUE, <<>>) /\ phase' = "DISCUSSING_PAYMENT" /\ proposal' = None /\ Shape
  BY DEF Decline, IInv
<1>2. PICK X, A : Speaks(X, A) /\ SoftRow(A) /\ X = <<A>>
  <2>1. "interruptible" \in Modes
    BY DEF Modes
  <2> QED
    BY <1>1, <2>1, CommitSpeaks
<1> QED
  BY <1>1, <1>2, SoftSaid

LEMMA RecordInvalidKeeps ==
  ASSUME IInv, RecordInvalid  PROVE IInv'
<1> DEFINE x == Event("TOOL_REJECTED", active)
<1>1. Commit(<<x>>, TRUE, <<>>) /\ UNCHANGED <<phase, proposal>> /\ Shape /\ decider = "openai"
  BY DEF RecordInvalid, IInv
<1>2. x.type = "TOOL_REJECTED"
  BY DEF Event
<1>3. PICK X, A : Speaks(X, A) /\ SoftRow(A) /\ X = <<x, A>>
  <2>1. "interruptible" \in Modes /\ "TOOL_REJECTED" \in ToolRows
    BY DEF Modes, ToolRows
  <2> QED
    BY <1>1, <2>1, CommitSpeaks
<1> HIDE DEF x
<1>4. \A k \in DOMAIN X : X[k] = A \/ X[k].type = "TOOL_REJECTED"
  <2>1. DOMAIN <<x, A>> = 1..2 /\ <<x, A>>[1] = x /\ <<x, A>>[2] = A
    OBVIOUS
  <2>2. \A k \in 1..2 : k = 1 \/ k = 2
    OBVIOUS
  <2> QED
    BY <1>2, <1>3, <2>1, <2>2
<1> QED
  BY <1>1, <1>3, <1>4, SoftSaid

(* A reading after an anchor is the armed one.                               *)
LEMMA ReadBackSaid ==
  ASSUME IInv, NEW X, NEW A, NEW x, Speaks(X, A), FirmRow(A, active), X = <<x, A>>,
         x \in Row, x.type \in {"propose_promise_to_pay", "TOOL_REJECTED"},
         proposal' = ReadBackOf(active), phase' = "CONFIRMING_OUTCOME"
  PROVE  IInv'
<1>1. /\ log \in Seq(Row) /\ Adds(X) /\ phase # "COMPLETED" /\ Of("record_promise_to_pay") = {}
      /\ log' \in Seq(Row) /\ spoken' \subseteq Target
      /\ TurnsSoFar' /\ Named' /\ ReportedOnce' /\ Answered'
  BY SpeaksKeeps
<1>2. /\ active' = None /\ active # None /\ UNCHANGED <<decider, client, rows, waited, stranded>>
      /\ A \in AgentRow /\ A.type = "AGENT_TURN" /\ A.turn = active /\ rows \in {"old", "new"}
  BY DEF Speaks, AgentRow, IInv, Shape, Types
<1>3. active \in Turns /\ IdsOf(active) \subseteq SegmentIds
  BY <1>2, Numbers DEF IInv, Shape, Types
<1>4. A \in Row /\ DOMAIN X = {1, 2} /\ X[1] = x /\ X[2] = A
  BY <1>2, Pair DEF Row
<1> DEFINE i == Len(log) + 2
<1>5. /\ i \in Nat /\ i - 1 = Len(log) + 1 /\ i \in DOMAIN log' /\ log'[i] = A
      /\ i - 1 \in DOMAIN log' /\ log'[i - 1] = x
      /\ \A type : \A j \in Of(type)' : j \in DOMAIN log' /\ (j \in Of(type) \/ j = i - 1 \/ j = i)
      /\ \A j \in DOMAIN log : j < i - 1 /\ j \in Nat
  <2>1. /\ Len(log) \in Nat /\ i \in DOMAIN log' /\ log'[i] = A
        /\ Len(log) + 1 \in DOMAIN log' /\ log'[Len(log) + 1] = x
    BY <1>1, <1>4, OldRows
  <2>2. i - 1 = Len(log) + 1
    BY <2>1
  <2>3. \A j \in DOMAIN log : j \in Nat /\ j <= Len(log)
    BY <1>1, OldRows
  <2>4. \A j \in DOMAIN log : j < i - 1 /\ j \in Nat
    BY <2>1, <2>2, <2>3
  <2>5. ASSUME NEW type, NEW j \in Of(type)'
        PROVE  j \in DOMAIN log' /\ (j \in Of(type) \/ j = i - 1 \/ j = i)
    <3>1. j \in DOMAIN log'
      BY <2>5 DEF Of
    <3>2. j \in Of(type) \/ \E k \in DOMAIN X : j = Len(log) + k
      BY <1>1, <2>5, OldRows
    <3> QED
      BY <1>4, <2>2, <3>1, <3>2
  <2> QED
    BY <2>1, <2>2, <2>4, <2>5
<1>6. PICK p : p = i
  OBVIOUS
<1> HIDE DEF i
<1>7. p \in Of("AGENT_TURN")' /\ log'[p] = A
  BY <1>2, <1>5, <1>6 DEF Of
<1>8. Recorded' /\ Of("record_promise_to_pay")' = {}
  <2>1. \A k \in DOMAIN X : X[k].type # "record_promise_to_pay"
    BY <1>2, <1>4
  <2> QED
    BY <1>1, <2>1, NothingRecorded
<1>9. proposal' = [turn |-> active, segment |-> IF rows = "new" THEN Minted(active) ELSE active]
  BY DEF ReadBackOf
<1>10. proposal' \in Target /\ proposal' # None
  <2>1. active \in SegmentIds /\ Minted(active) \in SegmentIds
    BY <1>3 DEF IdsOf, Implicit
  <2>2. proposal' \in Target
    BY <1>3, <1>9, <2>1 DEF Target
  <2> QED
    BY <2>2, Explored DEF Target
<1>11. Types' /\ Phases'
  BY <1>1, <1>2, <1>8, <1>10 DEF IInv, Shape, Types, Phases
<1>12. ReadBackLine(p)' /\ proposal' = SegmentAt(p)'
  <2>1. A.mode = "non_interruptible"
    BY DEF FirmRow
  <2>2. CASE rows = "old" /\ A.segments = <<>>
    BY <1>2, <1>3, <1>7, <1>9, <2>1, <2>2 DEF ReadBackLine, SegmentAt, Bare
  <2>3. CASE rows = "new" /\ A.segments = <<Segment(Minted(active), "non_interruptible")>>
    <3>1. A.segments # <<>>
      BY <2>3
    <3> QED
      BY <1>2, <1>3, <1>7, <1>9, <2>1, <2>3, <3>1 DEF ReadBackLine, SegmentAt, Bare, Minted
  <2>4. CASE rows = "new" /\ A.segments = <<Segment(active, "interruptible"),
                                            Segment(Minted(active), "non_interruptible")>>
    <3>1. A.segments # <<>>
      BY <2>4
    <3> QED
      BY <1>2, <1>3, <1>7, <1>9, <2>1, <2>4, <3>1 DEF ReadBackLine, SegmentAt, Bare, Minted
  <2> QED
    BY <2>2, <2>3, <2>4 DEF FirmRow
<1>13. \A j \in Of("AGENT_TURN")' : ~(j > p)
  <2>1. ASSUME NEW j \in Of("AGENT_TURN")'  PROVE ~(j > p)
    <3>1. j \in Of("AGENT_TURN") \/ j = i - 1 \/ j = i
      BY <1>5, <2>1
    <3>2. j \in Of("AGENT_TURN") => j \in Nat /\ j < i - 1
      BY <1>1, <1>5, Positions
    <3> QED
      BY <1>5, <1>6, <3>1, <3>2
  <2> QED
    BY <2>1
<1>14. p - 1 \in readBackAnchors' /\ \A b \in readBackAnchors' : b <= p - 1
  <2>1. p - 1 \in readBackAnchors'
    BY <1>5, <1>6 DEF readBackAnchors, Of
  <2>2. ASSUME NEW b \in readBackAnchors'  PROVE b <= p - 1
    <3>1. b # i
      BY <1>2, <1>5, <2>2 DEF readBackAnchors, Of
    <3>2. b \in readBackAnchors \/ b = i - 1
      BY <1>5, <2>2, <3>1 DEF readBackAnchors
    <3>3. b \in readBackAnchors => b \in Nat /\ b < i - 1
      BY <1>1, <1>5, Positions DEF readBackAnchors
    <3>4. b \in readBackAnchors => b <= i - 1
      BY <1>5, <3>3
    <3>5. i - 1 <= i - 1
      BY <1>5
    <3> QED
      BY <1>6, <3>2, <3>4, <3>5
  <2> QED
    BY <2>1, <2>2
<1>15. Armed'
  <2>1. ArmedAt(p)'
    BY <1>12, <1>13, <1>14 DEF ArmedAt
  <2>2. p \in DOMAIN log'
    BY <1>5, <1>6
  <2> QED
    BY <2>1, <2>2 DEF Armed
<1> QED
  BY <1>1, <1>8, <1>11, <1>15 DEF IInv, Shape

LEMMA ReadBackCommitted ==
  ASSUME IInv, NEW type \in {"propose_promise_to_pay", "TOOL_REJECTED"}, NEW streamed \in Streams,
         Commit(<<Event(type, active)>>, streamed, Say("non_interruptible")),
         proposal' = ReadBackOf(active), phase' = "CONFIRMING_OUTCOME"
  PROVE  IInv'
<1> DEFINE x == Event(type, active)
<1>1. x.type = type
  BY DEF Event
<1>2. PICK X, A : Speaks(X, A) /\ FirmRow(A, active) /\ X = <<x, A>> /\ x \in Row
  <2>1. /\ "non_interruptible" \in Modes /\ type \in ToolRows /\ streamed \in BOOLEAN
        /\ "non_interruptible" # "interruptible"
    BY DEF Modes, ToolRows, Streams
  <2> QED
    BY <2>1, CommitSpeaks DEF IInv
<1> HIDE DEF x
<1> QED
  BY <1>1, <1>2, ReadBackSaid

LEMMA ProposeKeeps ==
  ASSUME IInv, Propose  PROVE IInv'
BY ReadBackCommitted DEF Propose

LEMMA RefuseKeeps ==
  ASSUME IInv, Refuse  PROVE IInv'
BY ReadBackCommitted DEF Refuse

(* The guard lets a promise through: nothing more can be said of its reading. *)
LEMMA RecordKeeps ==
  ASSUME IInv, Record  PROVE IInv'
<1> DEFINE x == Event("record_promise_to_pay", active)
<1>1. /\ phase = "CONFIRMING_OUTCOME" /\ proposal # None
      /\ readBackVerdict(proposal) = "heard"
      /\ phase' = "COMPLETED" /\ proposal' = None
  BY DEF Record
<1>2. PICK streamed \in Streams : Commit(<<x>>, streamed, Say("non_interruptible"))
  BY DEF Record
<1>3. x.type = "record_promise_to_pay"
  BY DEF Event
<1>4. PICK X, A : Speaks(X, A) /\ X = <<x, A>> /\ x \in Row
  <2>1. /\ "non_interruptible" \in Modes /\ "record_promise_to_pay" \in ToolRows /\ streamed \in BOOLEAN
        /\ "non_interruptible" # "interruptible"
    BY DEF Modes, ToolRows, Streams
  <2> QED
    BY <1>2, <2>1, CommitSpeaks DEF IInv
<1> HIDE DEF x
<1>5. /\ log \in Seq(Row) /\ Adds(X) /\ phase # "COMPLETED" /\ Of("record_promise_to_pay") = {}
      /\ log' \in Seq(Row) /\ spoken' \subseteq Target
      /\ TurnsSoFar' /\ Named' /\ ReportedOnce' /\ Answered'
  BY <1>4, SpeaksKeeps
<1>6. /\ active' = None /\ active # None /\ UNCHANGED <<decider, client, rows, waited, stranded>>
      /\ A \in AgentRow /\ A.type = "AGENT_TURN" /\ A.turn = active
      /\ \A u \in spoken' \ spoken : u.turn = active /\ u.segment \in IdsOf(active)
  BY <1>4 DEF Speaks, AgentRow
<1>7. DOMAIN X = {1, 2} /\ X[1] = x /\ X[2] = A
  BY <1>4, <1>6, Pair DEF Row
<1>8. Types' /\ Phases'
  BY <1>1, <1>5, <1>6 DEF IInv, Shape, Types, Phases
<1>9. Armed'
  BY <1>1 DEF Armed
<1>10. PICK i \in DOMAIN log : ArmedAt(i)
  BY <1>1 DEF IInv, Armed
<1>11. ReadBackLine(i) /\ proposal = SegmentAt(i)
  BY <1>10 DEF ArmedAt
<1>12. PICK s : s = proposal
  OBVIOUS
<1>13. /\ s.turn \in Turns /\ s.segment \in IdsOf(s.turn) /\ s.turn = log[i].turn
       /\ s.turn # active /\ active \in Turns
  <2>1. log[i].turn # active
    BY <1>6, <1>11 DEF IInv, Shape, TurnsSoFar, ReadBackLine, Replied
  <2>2. active \in Turns
    BY <1>6 DEF IInv, Shape, Types
  <2> QED
    BY <1>11, <1>12, <2>1, <2>2, TargetTyped DEF ReadBackLine
<1>14. \A p \in Reports(s) : ~p.interrupted
  BY <1>1, <1>12 DEF readBackVerdict
<1>15. client.voice => Reports(s) # {}
  BY <1>1, <1>12 DEF readBackVerdict, IInv, Shape, Types, Clientele
<1>16. Reports(s)' = Reports(s)
  <2>1. \A k \in DOMAIN X : X[k].type # "AGENT_TURN_PLAYOUT"
    BY <1>3, <1>6, <1>7
  <2>2. Reports(s) \subseteq Reports(s)'
    BY <1>5, OldReports
  <2>3. \A p \in Reports(s)' : p \in Reports(s)
    BY <1>5, <2>1, OldReports
  <2> QED
    BY <2>2, <2>3
<1>17. ASSUME decider = "scripted", client.voice, NEW u \in spoken'  PROVE ~Concerns(u, s)
  <2>1. CASE u \in spoken
    <3>1. PICK j \in Of("AGENT_TURN_PLAYOUT") : playoutMatchesSegment(log[j], s)
      BY <1>15, <1>17 DEF Reports
    <3>2. ~playoutMatchesSegment(log[j], u)
      BY <1>17, <2>1, <3>1 DEF IInv, ReportedOnce
    <3>3. IF client.named THEN log[j].segment \in IdsOf(log[j].turn) ELSE log[j].segment = None
      BY <3>1 DEF IInv, Shape, Named
    <3>4. log[j].turn \in Turns
      BY <1>5, <3>1, RowsTyped DEF PlayoutRow
    <3>5. client.named => log[j].segment # None
      BY <3>3, <3>4, Numbers
    <3> QED
      BY <3>1, <3>2, <3>3, <3>5 DEF playoutMatchesSegment, Concerns
  <2>2. CASE u \notin spoken
    <3>1. u.turn = active /\ u.segment \in IdsOf(active)
      BY <1>6, <1>17, <2>2
    <3>2. IdsOf(active) \cap IdsOf(s.turn) = {}
      BY <1>13, Numbers
    <3> QED
      BY <1>13, <3>1, <3>2 DEF Concerns
  <2> QED
    BY <2>1, <2>2
<1>18. decider = "scripted" => LetThrough(s)'
  BY <1>6, <1>14, <1>15, <1>16, <1>17 DEF LetThrough, Concerns
<1>19. ReadBackLine(i)' /\ SegmentAt(i)' = SegmentAt(i) /\ i \in DOMAIN log'
  BY <1>5, <1>11, OldLines, OldRows
<1>20. decider = "scripted" => LetThrough(SegmentAt(i))'
  <2>1. s = SegmentAt(i)'
    BY <1>11, <1>12, <1>19
  <2> QED
    BY <1>18, <2>1 DEF LetThrough, Concerns, Reports
<1>21. ASSUME decider = "scripted", NEW n \in Of("record_promise_to_pay")'
       PROVE  i < n /\ LatestAnchor(i - 1, n)'
  <2>1. n = Len(log) + 1
    <3>1. PICK k \in DOMAIN X : n = Len(log) + k /\ X[k].type = "record_promise_to_pay"
      BY <1>5, <1>21, OldRows
    <3> QED
      BY <1>6, <1>7, <3>1
  <2>2. i \in Nat /\ i <= Len(log) /\ Len(log) \in Nat
    BY <1>5, OldRows
  <2>3. i - 1 \in readBackAnchors /\ \A b \in readBackAnchors : b <= i - 1
    BY <1>10, <1>21 DEF ArmedAt
  <2>4. \A b \in readBackAnchors' : b \in readBackAnchors
    <3>1. ASSUME NEW b \in readBackAnchors', b \notin readBackAnchors  PROVE FALSE
      <4>1. PICK k \in DOMAIN X : X[k].type \in {"propose_promise_to_pay", "TOOL_REJECTED"}
        BY <1>5, <3>1, OldRows DEF readBackAnchors
      <4> QED
        BY <1>3, <1>6, <1>7, <4>1
    <3> QED
      BY <3>1
  <2>5. i - 1 \in readBackAnchors'
    BY <1>5, <2>3, OldRows DEF readBackAnchors
  <2>6. i < n /\ i - 1 < n
    BY <2>1, <2>2
  <2> QED
    BY <2>3, <2>4, <2>5, <2>6 DEF LatestAnchor
<1>22. Recorded'
  BY <1>6, <1>19, <1>20, <1>21 DEF Recorded
<1> QED
  BY <1>5, <1>8, <1>9, <1>22 DEF IInv, Shape

-----------------------------------------------------------------------------
(* The first state, and every step.                                          *)
LEMMA Starts ==
  ASSUME Init  PROVE IInv
<1> DEFINE a == AgentTurn(Opening, "non_interruptible", <<>>)
<1>1. /\ decider \in {"scripted", "openai"} /\ client \in Clientele /\ rows \in {"old", "new"}
      /\ log = <<a>> /\ phase = "DISCUSSING_PAYMENT" /\ proposal = None /\ active = None
      /\ spoken = {} /\ waited = {}
  BY Explored DEF Init
<1>2. a \in Row /\ a.type = "AGENT_TURN" /\ a.turn = Opening
  <2>1. <<>> \in Seq([id : SegmentIds, mode : Modes])
    OBVIOUS
  <2>2. "non_interruptible" \in Modes
    BY DEF Modes
  <2> QED
    BY <2>1, <2>2, AgentRowTyped DEF AgentTurn, Row
<1> HIDE DEF a
<1>3. DOMAIN log = {1} /\ log[1] = a /\ log \in Seq(Row)
  BY <1>1, <1>2, Single
<1>4. \A type : type # "AGENT_TURN" => Of(type) = {}
  BY <1>2, <1>3 DEF Of
<1>5. Of("AGENT_TURN_PLAYOUT") = {} /\ Of("USER_TURN_FINAL") = {} /\ Of("record_promise_to_pay") = {}
  BY <1>4
<1>6. Types
  BY <1>1, <1>3 DEF Types
<1>7. Phases
  BY <1>1, <1>5 DEF Phases
<1>8. TurnsSoFar
  <2>1. \A i \in DOMAIN log : log[i].turn \notin Turns
    BY <1>2, <1>3, Numbers
  <2> QED
    BY <1>1, <1>5, <2>1 DEF TurnsSoFar
<1>9. Named /\ ReportedOnce
  BY <1>1, <1>5 DEF Named, ReportedOnce
<1>10. Armed /\ Recorded /\ Answered
  BY <1>1, <1>5 DEF Armed, Recorded, Answered
<1> QED
  BY <1>6, <1>7, <1>8, <1>9, <1>10 DEF IInv, Shape

LEMMA Keeps ==
  ASSUME IInv, [Next]_vars  PROVE IInv'
<1>1. CASE UNCHANGED vars
  <2>1. Same /\ rows' \in {"old", "new"}
    BY <1>1 DEF vars, Same, IInv, Shape, Types
  <2>2. waited' \subseteq Turns /\ waited \subseteq waited' /\ active' = active
    BY <1>1 DEF vars, IInv, Shape, Types
  <2> QED
    BY <2>1, <2>2, QuietKeeps
<1>2. CASE Next
  BY <1>2, PlayoutKeeps, WaitKeeps, ReplyKeeps, DeclineKeeps, ProposeKeeps, RecordKeeps,
     RefuseKeeps, RecordInvalidKeeps, NoInputKeeps, ReleaseKeeps, DeployKeeps, T1Keeps DEF Next
<1> QED
  BY <1>1, <1>2

LEMMA Inductive == Spec => []IInv
<1>1. Init => IInv
  BY Starts
<1>2. IInv /\ [Next]_vars => IInv'
  BY Keeps
<1> QED
  BY <1>1, <1>2, PTL DEF Spec

-----------------------------------------------------------------------------
(* The auditor finds no fault with a promise the fully-heard guard let       *)
(* through, and on a voice call it could check every one (evaluation.ts,     *)
(* against ToolExecutor.ts), for any length of call.                         *)
THEOREM AuditorAgreesWithGuard == Spec => []AuditAgrees
<1>1. IInv => AuditAgrees
  BY AuditFollows
<1> QED
  BY <1>1, Inductive, PTL

(* While the armed reading is unreported the hold's query returns it, and    *)
(* once it is reported no part of it (repos/conversation.ts).                *)
THEOREM HoldWatchesArmedReading == Spec => []HoldWatchesReadBack
<1>1. IInv => HoldWatchesReadBack
  BY HoldFollows
<1> QED
  BY <1>1, Inductive, PTL

(* A turn's prompt has no orphan borrower line but those of waits and of     *)
(* turns a shutdown released, and shows the cut it speaks of (transcript.ts, *)
(* Orchestrator.ts), for any number of shutdowns.                            *)
THEOREM PromptTellsTheCall == Spec => []PromptFaithful
<1>1. IInv => PromptFaithful
  BY PromptFollows
<1> QED
  BY <1>1, Inductive, PTL
=============================================================================
